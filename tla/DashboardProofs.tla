--------------------------- MODULE DashboardProofs ---------------------------
(***************************************************************************)
(* Proofs about Dashboard and its reports, for any taxonomy, transactions  *)
(* and ranges of dates: the types of rows and labels, what the calendar    *)
(* operators return, that every rolling window has all its rows, that the  *)
(* parts of a report add up, and that reports agree with each other.       *)
(***************************************************************************)
EXTENDS DashboardReports, FiniteSums, WellFoundedInduction, TLAPS

-----------------------------------------------------------------------------
(* Leap years and the first days of months *)

Leaps(past) == past \div 4 - past \div 100 + past \div 400

LEMMA LeapYear ==
  ASSUME NEW y \in Int
  PROVE  Leaps(y) = Leaps(y - 1) + (IF IsLeap(y) THEN 1 ELSE 0)
<1>1. y \div 4 = (y - 1) \div 4 + (IF y % 4 = 0 THEN 1 ELSE 0)
  OBVIOUS
<1>2. y \div 100 = (y - 1) \div 100 + (IF y % 100 = 0 THEN 1 ELSE 0)
  OBVIOUS
<1>3. y \div 400 = (y - 1) \div 400 + (IF y % 400 = 0 THEN 1 ELSE 0)
  OBVIOUS
<1>4. (y % 400 = 0 => y % 100 = 0) /\ (y % 100 = 0 => y % 4 = 0)
  OBVIOUS
<1>5. QED
  BY <1>1, <1>2, <1>3, <1>4 DEF Leaps, IsLeap

LEMMA LeapsGrow ==
  ASSUME NEW y \in Int, NEW z \in Int, y <= z
  PROVE  365 * y + Leaps(y) <= 365 * z + Leaps(z)
<1>1. y \div 4 <= z \div 4 /\ y \div 400 <= z \div 400
  OBVIOUS
<1>2. z \div 100 - y \div 100 <= z - y
  OBVIOUS
<1>3. QED
  BY <1>1, <1>2 DEF Leaps

\* The days before a year, and those of the year before a month
Eve(y) == 365 * (y - 1) + Leaps(y - 1)
Offset(y, m) == DaysBefore[m] + (IF m > 2 /\ IsLeap(y) THEN 1 ELSE 0)

LEMMA MonthCases ==
  ASSUME NEW m \in 1..12
  PROVE  \/ m = 1 \/ m = 2 \/ m = 3 \/ m = 4 \/ m = 5 \/ m = 6
         \/ m = 7 \/ m = 8 \/ m = 9 \/ m = 10 \/ m = 11 \/ m = 12
  OBVIOUS

LEMMA DaysBeforeIs ==
  /\ DaysBefore[1] = 0 /\ DaysBefore[2] = 31 /\ DaysBefore[3] = 59 /\ DaysBefore[4] = 90
  /\ DaysBefore[5] = 120 /\ DaysBefore[6] = 151 /\ DaysBefore[7] = 181 /\ DaysBefore[8] = 212
  /\ DaysBefore[9] = 243 /\ DaysBefore[10] = 273 /\ DaysBefore[11] = 304
  /\ DaysBefore[12] = 334
  BY DEF DaysBefore

LEMMA DateType ==
  ASSUME NEW y \in Int, NEW m \in 1..12
  PROVE  /\ Eve(y) \in Int /\ Offset(y, m) \in Nat /\ MonthLength(y, m) \in Nat
         /\ MonthLength(y, m) >= 28
         /\ Date(y, m, 1) = Eve(y) + Offset(y, m) + 1 /\ Date(y, m, 1) \in Int
<1>1. DaysBefore[m] \in Nat
  BY MonthCases, DaysBeforeIs
<1>2. Leaps(y - 1) \in Int
  BY DEF Leaps
<1>3. Date(y, m, 1) = Eve(y) + Offset(y, m) + 1
  BY <1>1 DEF Date, Leaps, Eve, Offset
<1>4. QED
  BY <1>1, <1>2, <1>3 DEF Eve, Offset, MonthLength

\* The days of a month follow its first.
LEMMA DateIs ==
  ASSUME NEW y \in Int, NEW m \in 1..12, NEW d \in Int
  PROVE  Date(y, m, d) = Date(y, m, 1) + (d - 1)
<1>1. DaysBefore[m] \in Nat
  BY MonthCases, DaysBeforeIs
<1>2. QED
  BY <1>1 DEF Date

\* The months of a year follow each other, ...
LEMMA MonthsFollow ==
  ASSUME NEW y \in Int, NEW m \in 1..12, NEW n \in 1..12, m < n
  PROVE  Date(y, m, 1) + MonthLength(y, m) <= Date(y, n, 1)
<1>1. Offset(y, m) + MonthLength(y, m) <= Offset(y, n)
  <2>1. CASE m = 1
    BY <2>1, MonthCases, DaysBeforeIs DEF Offset, MonthLength
  <2>2. CASE m = 2
    BY <2>2, MonthCases, DaysBeforeIs DEF Offset, MonthLength
  <2>3. CASE m > 2
    BY <2>3, MonthCases, DaysBeforeIs DEF Offset, MonthLength
  <2>4. QED
    BY <2>1, <2>2, <2>3
<1>2. /\ Eve(y) \in Int /\ Offset(y, m) \in Nat /\ Offset(y, n) \in Nat
      /\ MonthLength(y, m) \in Nat
      /\ Date(y, m, 1) = Eve(y) + Offset(y, m) + 1 /\ Date(y, n, 1) = Eve(y) + Offset(y, n) + 1
  BY DateType
<1>3. QED
  BY <1>1, <1>2

\* ... and so do the years.
LEMMA YearsFollow ==
  ASSUME NEW y \in Int, NEW m \in 1..12, NEW z \in Int, NEW n \in 1..12, y < z
  PROVE  Date(y, m, 1) + MonthLength(y, m) <= Date(z, n, 1)
<1>1. Offset(y, m) + MonthLength(y, m) <= 365 + (IF IsLeap(y) THEN 1 ELSE 0)
  BY MonthCases, DaysBeforeIs DEF Offset, MonthLength
<1>2. Eve(y) + 365 + (IF IsLeap(y) THEN 1 ELSE 0) <= Eve(z)
  <2>1. Eve(y) + 365 + (IF IsLeap(y) THEN 1 ELSE 0) = 365 * y + Leaps(y)
    <3>1. Leaps(y) = Leaps(y - 1) + (IF IsLeap(y) THEN 1 ELSE 0) /\ Leaps(y - 1) \in Int
      BY LeapYear DEF Leaps
    <3>2. QED
      BY <3>1 DEF Eve
  <2>2. y <= z - 1 /\ z - 1 \in Int
    OBVIOUS
  <2>3. 365 * y + Leaps(y) <= 365 * (z - 1) + Leaps(z - 1)
    BY <2>2, LeapsGrow
  <2>4. QED
    BY <2>1, <2>3 DEF Eve
<1>3. /\ Eve(y) \in Int /\ Eve(z) \in Int /\ Offset(y, m) \in Nat /\ Offset(z, n) \in Nat
      /\ MonthLength(y, m) \in Nat
      /\ Date(y, m, 1) = Eve(y) + Offset(y, m) + 1 /\ Date(z, n, 1) = Eve(z) + Offset(z, n) + 1
  BY DateType
<1>4. QED
  BY <1>1, <1>2, <1>3

-----------------------------------------------------------------------------
(* The year, the month and the day of a date *)

LEMMA LeastNatural ==
  ASSUME NEW S, S \subseteq Nat, S # {}
  PROVE  \E n \in S : \A m \in S : n <= m
<1>1. PICK n \in S : \A m \in S : <<m, n>> \notin OpToRel(<, Nat)
  BY NatLessThanWellFounded, WFMin
<1>2. \A m \in S : ~(m < n)
  BY <1>1 DEF OpToRel
<1>3. QED
  BY <1>2

\* A year ends on the eve of the next one.
LEMMA YearEnds ==
  ASSUME NEW y \in Int
  PROVE  /\ Date(y, 12, 1) \in Int /\ Date(y, 12, 31) \in Int
         /\ Date(y, 12, 31) = Date(y, 12, 1) + 30
         /\ Date(y + 1, 1, 1) = Date(y, 12, 31) + 1
<1>1. PICK z \in Int : z = y + 1
  OBVIOUS
<1>2. 12 \in 1..12 /\ 1 \in 1..12 /\ 31 \in Int
  OBVIOUS
<1>3. Date(y, 12, 31) = Date(y, 12, 1) + (31 - 1)
  BY <1>2, DateIs
<1>4. Date(y, 12, 1) = Eve(y) + Offset(y, 12) + 1 /\ Eve(y) \in Int /\ Offset(y, 12) \in Nat
  BY <1>2, DateType
<1>5. Date(z, 1, 1) = Eve(z) + Offset(z, 1) + 1 /\ Eve(z) \in Int
  BY <1>2, DateType
<1>6. Offset(z, 1) = 0 /\ Offset(y, 12) = 334 + (IF IsLeap(y) THEN 1 ELSE 0)
  BY DaysBeforeIs DEF Offset
<1>7. Eve(z) = Eve(y) + 365 + (IF IsLeap(y) THEN 1 ELSE 0)
  <2>1. Leaps(y) = Leaps(y - 1) + (IF IsLeap(y) THEN 1 ELSE 0) /\ Leaps(y - 1) \in Int
    BY LeapYear DEF Leaps
  <2>2. Eve(z) = 365 * y + Leaps(y)
    BY <1>1 DEF Eve
  <2>3. QED
    BY <2>1, <2>2 DEF Eve
<1>8. QED
  BY <1>1, <1>3, <1>4, <1>5, <1>6, <1>7

\* Every date has its year and its month.
LEMMA YearIs ==
  ASSUME NEW date \in Dates
  PROVE  /\ YearOf[date] \in FirstYear..LastYear
         /\ Date(YearOf[date], 1, 1) <= date /\ date <= Date(YearOf[date], 12, 31)
<1> DEFINE S == {y \in FirstYear..LastYear : date <= Date(y, 12, 31)}
<1>1. /\ FirstYear \in Nat /\ LastYear \in Nat /\ FirstYear >= 1
      /\ Date(FirstYear, 1, 1) \in Int /\ Date(LastYear, 12, 31) \in Int
      /\ 12 \in 1..12 /\ 1 \in 1..12
  <2>1. /\ Date(FirstYear, 1, 1) \in Int /\ Date(LastYear, 12, 1) \in Int
        /\ Date(LastYear, 12, 31) = Date(LastYear, 12, 1) + (31 - 1)
    BY YearAssumption, DateType, DateIs
  <2>2. QED
    BY <2>1, YearAssumption
<1>2. date \in Int /\ Date(FirstYear, 1, 1) <= date /\ date <= Date(LastYear, 12, 31)
  BY <1>1 DEF Dates
<1>3. \A y \in Int : Date(y, 12, 31) = Date(y, 12, 1) + 30 /\ Date(y, 12, 1) \in Int
  BY YearEnds
<1>4. LastYear \in S
  <2>1. FirstYear <= LastYear
    <3>1. SUFFICES ASSUME LastYear < FirstYear PROVE FALSE
      BY <1>1
    <3>2. Date(LastYear, 12, 1) + MonthLength(LastYear, 12) <= Date(FirstYear, 1, 1)
      BY <1>1, <3>1, YearsFollow
    <3>3. MonthLength(LastYear, 12) = 31
      BY DEF MonthLength
    <3>4. QED
      BY <1>1, <1>2, <1>3, <3>2, <3>3
  <2>2. QED
    BY <1>1, <1>2, <2>1
<1>5. PICK y \in S : \A z \in S : y <= z
  <2>1. S \subseteq Nat
    BY <1>1
  <2> HIDE DEF S
  <2>2. QED
    BY <1>4, <2>1, LeastNatural
<1>6. y \in FirstYear..LastYear /\ date <= Date(y, 12, 31) /\ y \in Int
  BY <1>1
<1>7. Date(y, 1, 1) <= date
  <2>1. CASE y = FirstYear
    BY <1>2, <2>1
  <2>2. CASE y # FirstYear
    <3>1. y - 1 \in FirstYear..LastYear /\ y - 1 \notin S /\ y - 1 \in Int
      BY <1>1, <1>5, <1>6, <2>2
    <3>2. ~(date <= Date(y - 1, 12, 31))
      BY <3>1
    <3>3. PICK p \in Int : p = y - 1
      BY <3>1
    <3>4. Date(p, 12, 31) \in Int /\ Date(p + 1, 1, 1) = Date(p, 12, 31) + 1 /\ p + 1 = y
      BY <1>6, <3>3, YearEnds
    <3>5. QED
      BY <1>2, <3>2, <3>3, <3>4
  <2>3. QED
    BY <2>1, <2>2
<1>8. YearOf[date] = CHOOSE z \in FirstYear..LastYear :
                       Date(z, 1, 1) <= date /\ date <= Date(z, 12, 31)
  BY DEF YearOf
<1>9. QED
  BY <1>6, <1>7, <1>8

LEMMA MonthsAdjoin ==
  ASSUME NEW y \in Int, NEW m \in 1..11, NEW n \in 1..12, n = m + 1
  PROVE  Date(y, n, 1) = Date(y, m, 1) + MonthLength(y, m)
<1>1. m \in 1..12
  OBVIOUS
<1>2. Offset(y, n) = Offset(y, m) + MonthLength(y, m)
  <2>1. CASE m = 1 \/ m = 2
    BY <2>1, DaysBeforeIs DEF Offset, MonthLength
  <2>2. CASE m > 2
    BY <1>1, <2>2, MonthCases, DaysBeforeIs DEF Offset, MonthLength
  <2>3. QED
    BY <2>1, <2>2
<1>3. /\ Date(y, m, 1) = Eve(y) + Offset(y, m) + 1 /\ Date(y, n, 1) = Eve(y) + Offset(y, n) + 1
      /\ Eve(y) \in Int /\ Offset(y, m) \in Nat /\ MonthLength(y, m) \in Nat
  BY <1>1, DateType
<1>4. QED
  BY <1>2, <1>3

LEMMA MonthIs ==
  ASSUME NEW date \in Dates
  PROVE  LET y == YearOf[date]
             m == MonthOf[date]
         IN /\ y \in Int /\ m \in 1..12 /\ date \in Int
            /\ Date(y, m, 1) <= date /\ date < Date(y, m, 1) + MonthLength(y, m)
<1> PICK y : y = YearOf[date]
  OBVIOUS
<1>1. /\ y \in Int /\ date \in Int /\ Date(y, 1, 1) <= date /\ date <= Date(y, 12, 31)
  <2>1. y \in FirstYear..LastYear /\ Date(y, 1, 1) <= date /\ date <= Date(y, 12, 31)
    BY YearIs
  <2>2. date \in Int
    BY DEF Dates
  <2>3. QED
    BY <2>1, <2>2, YearAssumption
<1> DEFINE S == {m \in 1..12 : date < Date(y, m, 1) + MonthLength(y, m)}
<1>2. 12 \in S
  <2>1. Date(y, 12, 31) = Date(y, 12, 1) + 30 /\ Date(y, 12, 1) \in Int
    BY <1>1, YearEnds
  <2>2. MonthLength(y, 12) = 31
    BY DEF MonthLength
  <2>3. QED
    BY <1>1, <2>1, <2>2
<1>3. PICK m \in S : \A n \in S : m <= n
  <2>1. S \subseteq Nat
    OBVIOUS
  <2> HIDE DEF S
  <2>2. QED
    BY <1>2, <2>1, LeastNatural
<1>4. m \in 1..12 /\ date < Date(y, m, 1) + MonthLength(y, m)
  BY <1>3
<1>5. Date(y, m, 1) <= date
  <2>1. CASE m = 1
    BY <1>1, <2>1
  <2>2. CASE m # 1
    <3>1. PICK k \in 1..11 : m = k + 1
      BY <1>4, <2>2
    <3>2. k \notin S /\ k \in 1..12
      BY <1>3, <3>1
    <3>3. ~(date < Date(y, k, 1) + MonthLength(y, k))
      BY <3>2
    <3>4. Date(y, m, 1) = Date(y, k, 1) + MonthLength(y, k)
      BY <1>1, <1>4, <3>1, MonthsAdjoin
    <3>5. Date(y, k, 1) \in Int /\ MonthLength(y, k) \in Nat
      BY <1>1, <3>2, DateType
    <3>6. QED
      BY <1>1, <3>3, <3>4, <3>5
  <2>3. QED
    BY <2>1, <2>2
<1>6. MonthOf[date] = CHOOSE n \in 1..12 :
                        /\ Date(y, n, 1) <= date
                        /\ date < Date(y, n, 1) + MonthLength(y, n)
  BY DEF MonthOf
<1>7. QED
  BY <1>1, <1>4, <1>5, <1>6

-----------------------------------------------------------------------------
(* Months numbered through the years *)

Index(date) == YearOf[date] * 12 + MonthOf[date] - 1
FirstOf(i) == Date(i \div 12, (i % 12) + 1, 1)
SizeOf(i) == MonthLength(i \div 12, (i % 12) + 1)

LEMMA MonthType ==
  ASSUME NEW i \in Int
  PROVE  /\ i \div 12 \in Int /\ (i % 12) + 1 \in 1..12
         /\ FirstOf(i) \in Int /\ SizeOf(i) \in Nat /\ SizeOf(i) >= 28
<1>1. PICK y, m : y = i \div 12 /\ m = (i % 12) + 1
  OBVIOUS
<1>2. y \in Int /\ m \in 1..12
  BY <1>1
<1>3. Date(y, m, 1) \in Int /\ MonthLength(y, m) \in Nat /\ MonthLength(y, m) >= 28
  BY <1>2, DateType
<1>4. QED
  BY <1>1, <1>2, <1>3 DEF FirstOf, SizeOf

\* A month ends before a later one begins.
LEMMA LaterMonth ==
  ASSUME NEW i \in Int, NEW j \in Int, i < j
  PROVE  FirstOf(i) + SizeOf(i) <= FirstOf(j)
<1>1. PICK y, m, z, n : /\ y = i \div 12 /\ m = (i % 12) + 1
                        /\ z = j \div 12 /\ n = (j % 12) + 1
  OBVIOUS
<1>2. y \in Int /\ m \in 1..12 /\ z \in Int /\ n \in 1..12
  BY <1>1, MonthType
<1>3. i = 12 * y + (m - 1) /\ j = 12 * z + (n - 1)
  BY <1>1
<1>4. y < z \/ (y = z /\ m < n)
  BY <1>2, <1>3
<1>5. Date(y, m, 1) + MonthLength(y, m) <= Date(z, n, 1)
  BY <1>2, <1>4, MonthsFollow, YearsFollow
<1>6. QED
  BY <1>1, <1>5 DEF FirstOf, SizeOf

\* A date lies in the month of its number.
LEMMA IndexIs ==
  ASSUME NEW date \in Dates
  PROVE  /\ Index(date) \in Int /\ date \in Int
         /\ FirstOf(Index(date)) <= date /\ date < FirstOf(Index(date)) + SizeOf(Index(date))
         /\ DayOf(date) = date - FirstOf(Index(date)) + 1 /\ DayOf(date) >= 1
         /\ DayOf(date) \in Int
<1>1. PICK y, m : y = YearOf[date] /\ m = MonthOf[date]
  OBVIOUS
<1>2. /\ y \in Int /\ m \in 1..12 /\ date \in Int
      /\ Date(y, m, 1) <= date /\ date < Date(y, m, 1) + MonthLength(y, m)
  BY <1>1, MonthIs
<1>3. PICK i \in Int : i = y * 12 + m - 1
  BY <1>2
<1>4. i \div 12 = y /\ (i % 12) + 1 = m /\ Index(date) = i
  <2>1. PICK r : r = m - 1
    OBVIOUS
  <2>2. r \in 0..11 /\ m = r + 1 /\ i = 12 * y + r
    BY <1>2, <1>3, <2>1
  <2>3. (12 * y + r) \div 12 = y /\ (12 * y + r) % 12 = r
    BY <1>2, <2>2
  <2>4. Index(date) = i
    BY <1>1, <1>3 DEF Index
  <2>5. QED
    BY <2>2, <2>3, <2>4
<1>5. FirstOf(i) = Date(y, m, 1) /\ SizeOf(i) = MonthLength(y, m)
  BY <1>4 DEF FirstOf, SizeOf
<1>6. DayOf(date) = date - FirstOf(i) + 1
  BY <1>1, <1>5 DEF DayOf
<1>7. FirstOf(i) \in Int
  BY MonthType
<1>8. QED
  BY <1>2, <1>3, <1>4, <1>5, <1>6, <1>7

\* Later dates have later months, or later days of one month.
LEMMA LaterDate ==
  ASSUME NEW date \in Dates, NEW later \in Dates, date <= later
  PROVE  /\ Index(date) <= Index(later)
         /\ Index(date) = Index(later) => DayOf(date) <= DayOf(later)
<1>1. PICK i, j : i = Index(date) /\ j = Index(later)
  OBVIOUS
<1>2. /\ i \in Int /\ date \in Int /\ FirstOf(i) <= date /\ DayOf(date) = date - FirstOf(i) + 1
      /\ j \in Int /\ later \in Int /\ later < FirstOf(j) + SizeOf(j)
      /\ DayOf(later) = later - FirstOf(j) + 1
  BY <1>1, IndexIs
<1>3. FirstOf(i) \in Int /\ FirstOf(j) \in Int /\ SizeOf(j) \in Nat
  BY <1>2, MonthType
<1>4. ~(j < i)
  <2>1. SUFFICES ASSUME j < i PROVE FALSE
    OBVIOUS
  <2>2. FirstOf(j) + SizeOf(j) <= FirstOf(i)
    BY <1>2, <2>1, LaterMonth
  <2>3. QED
    BY <1>2, <1>3, <2>2
<1>5. QED
  BY <1>1, <1>2, <1>3, <1>4

LEMMA WindowIs ==
  ASSUME NEW date \in Dates, NEW months \in Int
  PROVE  WindowStart(date, months)
           = FirstOf(Index(date) - months)
               + (IF DayOf(date) < SizeOf(Index(date) - months) THEN DayOf(date)
                  ELSE SizeOf(Index(date) - months))
<1>1. PICK i : i = Index(date) - months
  OBVIOUS
<1>2. i \in Int /\ DayOf(date) \in Int
  BY <1>1, IndexIs
<1>3. PICK d : d = IF DayOf(date) < SizeOf(i) THEN DayOf(date) ELSE SizeOf(i)
  OBVIOUS
<1>4. d \in Int /\ FirstOf(i) \in Int
  BY <1>2, <1>3, MonthType
<1>6. PICK y, m : y = i \div 12 /\ m = (i % 12) + 1
  OBVIOUS
<1>5. WindowStart(date, months) = Date(y, m, d) + 1
  <2>1. i = YearOf[date] * 12 + MonthOf[date] - 1 - months
    BY <1>1, MonthIs DEF Index
  <2>2. d = IF DayOf(date) < MonthLength(y, m) THEN DayOf(date) ELSE MonthLength(y, m)
    BY <1>3, <1>6 DEF SizeOf
  <2>3. WindowStart(date, months)
          = Date(y, m, IF DayOf(date) < MonthLength(y, m) THEN DayOf(date)
                       ELSE MonthLength(y, m)) + 1
    BY <1>6, <2>1, Zenon DEF WindowStart
  <2>4. QED
    BY <2>2, <2>3
<1>7. y \in Int /\ m \in 1..12
  BY <1>2, <1>6, MonthType
<1>8. Date(y, m, d) = Date(y, m, 1) + (d - 1)
  BY <1>4, <1>7, DateIs
<1>9. WindowStart(date, months) = FirstOf(i) + d
  BY <1>4, <1>5, <1>6, <1>8 DEF FirstOf
<1>10. QED
  BY <1>1, <1>3, <1>9

\* A window of a later date, over fewer months, starts no earlier.
LEMMA WindowsFollow ==
  ASSUME NEW date \in Dates, NEW later \in Dates, date <= later,
         NEW months \in Int, NEW fewer \in Int, fewer <= months
  PROVE  /\ WindowStart(date, months) \in Int /\ WindowStart(later, fewer) \in Int
         /\ WindowStart(date, months) <= WindowStart(later, fewer)
<1>1. PICK i, j : i = Index(date) - months /\ j = Index(later) - fewer
  OBVIOUS
<1>2. /\ Index(date) \in Int /\ DayOf(date) \in Int /\ DayOf(date) >= 1
      /\ Index(later) \in Int /\ DayOf(later) \in Int /\ DayOf(later) >= 1
  BY IndexIs
<1>3. i \in Int /\ j \in Int
  BY <1>1, <1>2
<1>4. /\ FirstOf(i) \in Int /\ SizeOf(i) \in Nat /\ SizeOf(i) >= 28
      /\ FirstOf(j) \in Int /\ SizeOf(j) \in Nat /\ SizeOf(j) >= 28
  BY <1>3, MonthType
<1>5. /\ WindowStart(date, months)
           = FirstOf(i) + (IF DayOf(date) < SizeOf(i) THEN DayOf(date) ELSE SizeOf(i))
      /\ WindowStart(later, fewer)
           = FirstOf(j) + (IF DayOf(later) < SizeOf(j) THEN DayOf(later) ELSE SizeOf(j))
  BY <1>1, WindowIs
<1>6. Index(date) <= Index(later) /\ (Index(date) = Index(later) => DayOf(date) <= DayOf(later))
  BY LaterDate
<1>7. i <= j /\ (i = j => DayOf(date) <= DayOf(later))
  BY <1>1, <1>2, <1>6
<1>8. CASE i = j
  BY <1>2, <1>4, <1>5, <1>7, <1>8
<1>9. CASE i < j
  <2>1. FirstOf(i) + SizeOf(i) <= FirstOf(j)
    BY <1>3, <1>9, LaterMonth
  <2>2. QED
    BY <1>2, <1>4, <1>5, <2>1
<1>10. QED
  BY <1>3, <1>7, <1>8, <1>9

-----------------------------------------------------------------------------
(* Types *)

LEMMA SiblingsMatch ==
  ASSUME NEW item \in Item, NEW other \in Siblings(item)
  PROVE  other \in Item /\ item \in Siblings(other)
  BY DisjointAssumption DEF Siblings, Item

LEMMA InitType == Init => TypeOK
<1> SUFFICES ASSUME Init PROVE TypeOK
  OBVIOUS
<1>1. /\ name \in [Item -> Name \cup {None}] /\ active \in [Item -> BOOLEAN]
      /\ \A item \in Item : /\ Exists(item) <=> item \in Managed
                            /\ item \in Managed => name[item] = ManagedName[item]
  BY ManagedAssumption, DisjointAssumption DEF Init, TaxonomyInit, Exists
<1>2. ASSUME NEW item \in Item, Exists(item), item \in Subcategory
      PROVE  Exists(ParentOf[item])
  BY <1>1, <1>2, ManagedAssumption, ParentAssumption DEF Item
<1>3. ASSUME NEW item \in Item, Exists(item), NEW other \in Siblings(item) \ {item}
      PROVE  name[other] # name[item]
  <2>1. other \in Item
    BY SiblingsMatch
  <2>2. CASE Exists(other)
    BY <1>1, <1>3, <2>1, <2>2, ManagedAssumption
  <2>3. CASE ~Exists(other)
    BY <1>3, <2>3 DEF Exists
  <2>4. QED
    BY <2>2, <2>3
<1>4. QED
  BY <1>1, <1>2, <1>3 DEF TypeOK, TaxonomyTypeOK, Init

\* A name that no sibling has keeps the names of siblings apart.
LEMMA NamingType ==
  ASSUME TaxonomyTypeOK, NEW item \in Item, NEW n \in Name, ~Taken(item, n),
         name' = [name EXCEPT ![item] = n], active' \in [Item -> BOOLEAN],
         item \in Subcategory => Exists(ParentOf[item])
  PROVE  TaxonomyTypeOK'
<1>1. /\ name' \in [Item -> Name \cup {None}] /\ name'[item] = n
      /\ \A i \in Item : i # item => name'[i] = name[i]
  BY DEF TaxonomyTypeOK
<1>2. \A i \in Item : Exists(i) => Exists(i)'
  BY <1>1, DisjointAssumption DEF Exists
<1>3. ASSUME NEW i \in Item, Exists(i)', i \in Subcategory
      PROVE  Exists(ParentOf[i])'
  <2>1. Exists(ParentOf[i])
    BY <1>1, <1>3 DEF TaxonomyTypeOK, Exists
  <2>2. ParentOf[i] \in Item
    BY <1>3, ParentAssumption DEF Item
  <2>3. QED
    BY <1>2, <2>1, <2>2
<1>4. ASSUME NEW i \in Item, Exists(i)', NEW other \in Siblings(i) \ {i}
      PROVE  name'[other] # name'[i]
  <2>1. other \in Item /\ i \in Siblings(other)
    BY SiblingsMatch
  <2>2. CASE i = item
    BY <1>1, <1>4, <2>1, <2>2 DEF Taken
  <2>3. CASE other = item
    BY <1>1, <1>4, <2>1, <2>3 DEF Taken
  <2>4. CASE i # item /\ other # item
    BY <1>1, <1>4, <2>1, <2>4 DEF TaxonomyTypeOK, Exists
  <2>5. QED
    BY <2>2, <2>3, <2>4
<1>5. QED
  BY <1>1, <1>3, <1>4 DEF TaxonomyTypeOK

LEMMA NextType == TypeOK /\ [Next]_vars => TypeOK'
<1> SUFFICES ASSUME TypeOK, [Next]_vars PROVE TypeOK'
  OBVIOUS
<1>1. CASE UNCHANGED vars
  BY <1>1 DEF TypeOK, TaxonomyTypeOK, Exists, vars, taxonomy
<1>2. ASSUME UNCHANGED taxonomy, transactions' \in [Id -> Transaction \cup {None}]
      PROVE  TypeOK'
  BY <1>2 DEF TypeOK, TaxonomyTypeOK, Exists, taxonomy
<1>3. ASSUME NEW tag \in Labels, ValidActive(tag) PROVE tag \in Tag
  BY <1>3 DEF ValidActive, Tag
<1>4. ASSUME NEW t \in Id, NEW entry \in Entry, Book(t, entry) PROVE TypeOK'
  <2>1. entry \in Transaction
    BY <1>3, <1>4 DEF Book, Entry, Transaction
  <2>2. QED
    BY <1>2, <1>4, <2>1 DEF Book, TypeOK
<1>5. ASSUME NEW t \in Id, NEW amount \in Amount, NEW tag \in Labels,
             NEW standing \in {"included", "excluded"}, Correct(t, amount, tag, standing)
      PROVE  TypeOK'
  <2>1. tag \in Tag /\ transactions[t] \in Transaction
    BY <1>3, <1>5 DEF Correct, Booked, TypeOK
  <2>2. [transactions[t] EXCEPT !.amount = amount, !.tag = tag, !.standing = standing]
          \in Transaction
    BY <2>1 DEF Transaction, Standing
  <2>3. transactions' \in [Id -> Transaction \cup {None}]
    BY <1>5, <2>2 DEF Correct, TypeOK
  <2>4. QED
    BY <1>2, <1>5, <2>3 DEF Correct
<1>6. ASSUME NEW t \in Id, Delete(t) PROVE TypeOK'
  BY <1>2, <1>6 DEF Delete, TypeOK
<1>7. ASSUME NEW item \in Item, NEW n \in Name, UNCHANGED transactions,
             (\E isActive \in BOOLEAN : CreateItem(item, n, isActive)) \/ Rename(item, n)
      PROVE  TypeOK'
  <2>1. /\ ~Taken(item, n) /\ name' = [name EXCEPT ![item] = n]
        /\ active' \in [Item -> BOOLEAN]
        /\ item \in Subcategory => Exists(ParentOf[item])
    BY <1>7 DEF CreateItem, Rename, TypeOK, TaxonomyTypeOK
  <2>2. QED
    BY <1>7, <2>1, NamingType DEF TypeOK
<1>8. ASSUME NEW item \in Item, NEW isActive \in BOOLEAN, UNCHANGED transactions,
             SetActive(item, isActive)
      PROVE  TypeOK'
  BY <1>8 DEF SetActive, TypeOK, TaxonomyTypeOK, Exists
<1>9. QED
  BY <1>1, <1>4, <1>5, <1>6, <1>7, <1>8 DEF Next

\* Transactions carry a subcategory only of their own category, and no two
\* siblings of the taxonomy ever share a name (validate_active_taxonomy and the
\* unique names).
THEOREM TypeCorrect == Spec => []TypeOK
<1>1. QED
  BY InitType, NextType, PTL DEF Spec

-----------------------------------------------------------------------------
(* Rolling windows *)

\* What a report loads reaches back to the first day of every window it shows.
LEMMA WindowsAreLoaded ==
  ASSUME NEW range \in DateRange, NEW day \in range.from..range.to, NEW months \in {1, 3, 12}
  PROVE  /\ LoadedFrom(range) \in Int /\ WindowStart(day, months) \in Int
         /\ LoadedFrom(range) <= WindowStart(day, months)
<1>1. range.from \in Dates /\ range.to \in Dates /\ Dates \subseteq Int
  BY RangeAssumption DEF Dates
<1>2. day \in Dates /\ range.from <= day
  <2>1. /\ day \in Int /\ range.from <= day /\ day <= range.to
        /\ range.from \in Int /\ range.to \in Int
    <3>1. range.from \in Int /\ range.to \in Int
      BY <1>1
    <3>2. QED
      BY <3>1
  <2>2. PICK first, last : first = Date(FirstYear, 1, 1) /\ last = Date(LastYear, 12, 31)
    OBVIOUS
  <2>3. first \in Int /\ last \in Int
    BY <2>2, YearAssumption, DateType, YearEnds
  <2>4. first <= range.from /\ range.to <= last
    BY <1>1, <2>2, <2>3 DEF Dates
  <2>5. day \in first..last
    BY <2>1, <2>3, <2>4
  <2>6. QED
    BY <2>1, <2>2, <2>5 DEF Dates
<1>3. PICK a, b : a = Prior(range).from /\ b = WindowStart(range.from, 12)
  OBVIOUS
<1>4. b \in Int /\ WindowStart(day, months) \in Int /\ b <= WindowStart(day, months)
  <2>1. 12 \in Int /\ months \in Int /\ months <= 12
    OBVIOUS
  <2>2. PICK from \in Dates : from = range.from
    BY <1>1
  <2>3. /\ WindowStart(from, 12) \in Int /\ WindowStart(day, months) \in Int
        /\ WindowStart(from, 12) <= WindowStart(day, months)
    BY <1>2, <2>1, <2>2, WindowsFollow
  <2>4. QED
    BY <1>3, <2>2, <2>3
<1>5. a \in Int
  <2>1. range.from \in Int /\ range.to \in Int
    BY <1>1
  <2>2. QED
    BY <1>3, <2>1 DEF Prior
<1>6. Min({a, b}) \in Int /\ Min({a, b}) <= b
  <2>1. \E x \in {a, b} : \A y \in {a, b} : x <= y
    BY <1>4, <1>5
  <2>2. QED
    BY <1>4, <1>5, <2>1 DEF Min
<1>7. QED
  BY <1>3, <1>4, <1>6 DEF LoadedFrom

\* One query serves every rolling window of every day, for any dates and any
\* transactions (_load_transactions and _build_rolling_mean).
THEOREM WindowsHaveTheirRows == Spec => []RollingWindowsAreComplete
<1>1. ASSUME TypeOK, NEW range \in DateRange, NEW months \in {1, 3, 12},
             NEW day \in range.from..range.to
      PROVE  {t \in Loaded(range, Everything) : Within(t, WindowStart(day, months), day)}
               = {t \in Reported(Everything) : Within(t, WindowStart(day, months), day)}
  <2>1. PICK first, start : first = LoadedFrom(range) /\ start = WindowStart(day, months)
    OBVIOUS
  <2>2. /\ first \in Int /\ start \in Int /\ first <= start
        /\ day \in Int /\ day <= range.to /\ range.to \in Int
    BY <2>1, WindowsAreLoaded, RangeAssumption DEF Dates
  <2>3. ASSUME NEW t \in Reported(Everything), Within(t, start, day)
        PROVE  Within(t, first, range.to)
    <3>1. transactions[t].date \in Nat
      BY <1>1, DayAssumption DEF Reported, Booked, TypeOK, Transaction
    <3>2. QED
      BY <2>2, <2>3, <3>1 DEF Within
  <2>4. QED
    BY <2>1, <2>3 DEF Loaded
<1>2. ASSUME TypeOK, NEW range \in DateRange, NEW months \in {1, 3, 12}
      PROVE  RollingMean(months, range, Loaded(range, Everything))
               = RollingMean(months, range, Reported(Everything))
  BY <1>1, <1>2 DEF RollingMean
<1>3. TypeOK => RollingWindowsAreComplete
  BY <1>2 DEF RollingWindowsAreComplete
<1>4. QED
  BY <1>3, TypeCorrect, PTL

-----------------------------------------------------------------------------
(* Weeks, months and quarters *)

Charted == {"week", "month", "quarter"}

\* The days a period can be asked for: any for weeks
Datable(granularity) == IF granularity = "week" THEN Int ELSE Dates

\* The months of a quarter, by their numbers
Quarter(date) == Index(date) \div 3

LEMMA DatesAre ==
  /\ Date(FirstYear, 1, 1) \in Int /\ Date(LastYear, 12, 31) \in Int
  /\ \A date : date \in Dates <=> /\ date \in Int /\ Date(FirstYear, 1, 1) <= date
                                  /\ date <= Date(LastYear, 12, 31)
<1>1. FirstYear \in Int /\ LastYear \in Int /\ 1 \in 1..12
  BY YearAssumption
<1>2. Date(FirstYear, 1, 1) \in Int /\ Date(LastYear, 12, 31) \in Int
  BY <1>1, DateType, YearEnds
<1>3. QED
  BY <1>2 DEF Dates

\* Months begin in order.
LEMMA FirstsInOrder ==
  ASSUME NEW i \in Int, NEW j \in Int, i <= j
  PROVE  FirstOf(i) <= FirstOf(j)
<1>1. CASE i = j
  BY <1>1, MonthType
<1>2. CASE i < j
  BY <1>2, MonthType, LaterMonth
<1>3. QED
  BY <1>1, <1>2

\* A day from the first day of one month to the last of another is in a month
\* between them.
LEMMA IndexBetween ==
  ASSUME NEW date \in Dates, NEW i \in Int, NEW j \in Int,
         FirstOf(i) <= date, date < FirstOf(j)
  PROVE  i <= Index(date) /\ Index(date) < j
<1>1. PICK n : n = Index(date)
  OBVIOUS
<1>2. n \in Int /\ date \in Int /\ FirstOf(n) <= date /\ date < FirstOf(n) + SizeOf(n)
  BY <1>1, IndexIs
<1>3. FirstOf(i) \in Int /\ FirstOf(j) \in Int /\ FirstOf(n) \in Int /\ SizeOf(n) \in Nat
  BY <1>2, MonthType
<1>4. ~(n < i)
  BY <1>2, <1>3, LaterMonth
<1>5. ~(j <= n)
  BY <1>2, <1>3, FirstsInOrder
<1>6. QED
  BY <1>1, <1>2, <1>4, <1>5

LEMMA MonthBoundsIs ==
  ASSUME NEW date \in Dates
  PROVE  /\ MonthBounds(date).start = FirstOf(Index(date))
         /\ MonthBounds(date).end = FirstOf(Index(date)) + SizeOf(Index(date)) - 1
         /\ MonthBounds(date) = [start |-> MonthBounds(date).start, end |-> MonthBounds(date).end]
<1>1. PICK y, m : y = YearOf[date] /\ m = MonthOf[date]
  OBVIOUS
<1>2. y \in Int /\ m \in 1..12
  BY <1>1, MonthIs
<1>3. Index(date) \div 12 = y /\ (Index(date) % 12) + 1 = m
  BY <1>1, <1>2 DEF Index
<1>4. QED
  BY <1>1, <1>3 DEF MonthBounds, FirstOf, SizeOf

LEMMA QuarterBoundsIs ==
  ASSUME NEW date \in Dates
  PROVE  /\ QuarterBounds(date).start = FirstOf(3 * Quarter(date))
         /\ QuarterBounds(date).end = FirstOf(3 * Quarter(date) + 3) - 1
         /\ QuarterBounds(date) = [start |-> QuarterBounds(date).start,
                                   end |-> QuarterBounds(date).end]
<1>1. PICK y, m : y = YearOf[date] /\ m = MonthOf[date]
  OBVIOUS
<1>2. y \in Int /\ m \in 1..12
  BY <1>1, MonthIs
<1>3. PICK q : q = (m - 1) \div 3
  OBVIOUS
<1>4. q \in 0..3 /\ Quarter(date) = 4 * y + q
  BY <1>1, <1>2, <1>3 DEF Quarter, Index
<1>5. FirstOf(3 * Quarter(date)) = Date(y, q * 3 + 1, 1)
  <2>1. PICK i : i = 3 * Quarter(date)
    OBVIOUS
  <2>2. i \div 12 = y /\ (i % 12) + 1 = q * 3 + 1
    BY <1>2, <1>4, <2>1
  <2>3. QED
    BY <2>1, <2>2 DEF FirstOf
<1>6. FirstOf(3 * Quarter(date) + 3)
        = IF q = 3 THEN Date(y + 1, 1, 1) ELSE Date(y, q * 3 + 1 + 3, 1)
  <2>1. PICK i : i = 3 * Quarter(date) + 3
    OBVIOUS
  <2>2. CASE q = 3
    <3>1. i \div 12 = y + 1 /\ (i % 12) + 1 = 1
      BY <1>2, <1>4, <2>1, <2>2
    <3>2. QED
      BY <2>1, <2>2, <3>1 DEF FirstOf
  <2>3. CASE q # 3
    <3>1. i \div 12 = y /\ (i % 12) + 1 = q * 3 + 1 + 3
      BY <1>2, <1>4, <2>1, <2>3
    <3>2. QED
      BY <2>1, <2>3, <3>1 DEF FirstOf
  <2>4. QED
    BY <2>2, <2>3
<1>7. /\ QuarterBounds(date).start = Date(y, q * 3 + 1, 1)
      /\ QuarterBounds(date).end = IF q * 3 + 1 = 10 THEN Date(y + 1, 1, 1) - 1
                                   ELSE Date(y, q * 3 + 1 + 3, 1) - 1
      /\ QuarterBounds(date) = [start |-> QuarterBounds(date).start,
                                end |-> QuarterBounds(date).end]
  BY <1>1, <1>3 DEF QuarterBounds
<1>8. q * 3 + 1 = 10 <=> q = 3
  BY <1>4
<1>9. QED
  BY <1>5, <1>6, <1>7, <1>8

\* A date lies in its period, ...
LEMMA PeriodHolds ==
  ASSUME NEW g \in Charted, NEW date \in Datable(g)
  PROVE  /\ Bounds(g, date).start \in Int /\ Bounds(g, date).end \in Int /\ date \in Int
         /\ Bounds(g, date).start <= date /\ date <= Bounds(g, date).end
         /\ Bounds(g, date) = [start |-> Bounds(g, date).start, end |-> Bounds(g, date).end]
<1>1. CASE g = "week"
  BY <1>1 DEF Datable, Bounds, WeekBounds
<1>2. CASE g = "month"
  <2>1. date \in Dates /\ Bounds(g, date) = MonthBounds(date)
    BY <1>2 DEF Datable, Bounds
  <2>2. PICK n : n = Index(date)
    OBVIOUS
  <2>3. /\ n \in Int /\ date \in Int /\ FirstOf(n) <= date /\ date < FirstOf(n) + SizeOf(n)
        /\ FirstOf(n) \in Int /\ SizeOf(n) \in Nat
    BY <2>1, <2>2, IndexIs, MonthType
  <2>4. QED
    BY <2>1, <2>2, <2>3, MonthBoundsIs
<1>3. CASE g = "quarter"
  <2>1. date \in Dates /\ Bounds(g, date) = QuarterBounds(date)
    BY <1>3 DEF Datable, Bounds
  <2>2. PICK n, q : n = Index(date) /\ q = Quarter(date)
    OBVIOUS
  <2>3. /\ n \in Int /\ date \in Int /\ FirstOf(n) <= date /\ date < FirstOf(n) + SizeOf(n)
        /\ FirstOf(n) \in Int /\ SizeOf(n) \in Nat
    BY <2>1, <2>2, IndexIs, MonthType
  <2>4. q \in Int /\ 3 * q <= n /\ n < 3 * q + 3
    BY <2>2, <2>3 DEF Quarter
  <2>5. /\ FirstOf(3 * q) \in Int /\ FirstOf(3 * q + 3) \in Int
        /\ FirstOf(3 * q) <= FirstOf(n) /\ FirstOf(n) + SizeOf(n) <= FirstOf(3 * q + 3)
    <3>1. PICK i, j : i = 3 * q /\ j = 3 * q + 3
      OBVIOUS
    <3>2. i \in Int /\ j \in Int /\ i <= n /\ n < j
      BY <2>4, <3>1
    <3>3. QED
      BY <2>3, <3>1, <3>2, MonthType, FirstsInOrder, LaterMonth
  <2>6. QED
    BY <2>1, <2>2, <2>3, <2>5, QuarterBoundsIs
<1>4. QED
  BY <1>1, <1>2, <1>3 DEF Charted

\* ... and any other date within its bounds has the same period.
LEMMA PeriodSame ==
  ASSUME NEW g \in Charted, NEW date \in Datable(g), NEW other \in Datable(g),
         Bounds(g, date).start <= other, other <= Bounds(g, date).end
  PROVE  Bounds(g, other) = Bounds(g, date)
<1>1. CASE g = "week"
  <2>1. date \in Int /\ other \in Int
    BY <1>1 DEF Datable
  <2>2. date - ((date + 6) % 7) <= other /\ other <= date - ((date + 6) % 7) + 6
    BY <1>1 DEF Bounds, WeekBounds
  <2>3. other - ((other + 6) % 7) = date - ((date + 6) % 7)
    BY <2>1, <2>2
  <2>4. QED
    BY <1>1, <2>3 DEF Bounds, WeekBounds
<1>2. CASE g = "month"
  <2>1. /\ date \in Dates /\ Bounds(g, date) = MonthBounds(date)
        /\ other \in Dates /\ Bounds(g, other) = MonthBounds(other)
    BY <1>2 DEF Datable, Bounds
  <2>2. PICK n, m : n = Index(date) /\ m = n + 1
    OBVIOUS
  <2>3. /\ n \in Int /\ other \in Int /\ m \in Int /\ n < m
        /\ FirstOf(n) \in Int /\ SizeOf(n) \in Nat /\ FirstOf(m) \in Int
    BY <2>1, <2>2, IndexIs, MonthType
  <2>4. FirstOf(n) <= other /\ other < FirstOf(n) + SizeOf(n)
    BY <2>1, <2>2, <2>3, MonthBoundsIs
  <2>5. FirstOf(n) + SizeOf(n) <= FirstOf(m)
    BY <2>3, LaterMonth
  <2>6. n <= Index(other) /\ Index(other) < m /\ Index(other) \in Int
    BY <2>1, <2>3, <2>4, <2>5, IndexBetween, IndexIs
  <2>7. Index(other) = n
    BY <2>2, <2>3, <2>6
  <2>8. QED
    BY <2>1, <2>2, <2>7, MonthBoundsIs
<1>3. CASE g = "quarter"
  <2>1. /\ date \in Dates /\ Bounds(g, date) = QuarterBounds(date)
        /\ other \in Dates /\ Bounds(g, other) = QuarterBounds(other)
    BY <1>3 DEF Datable, Bounds
  <2>2. PICK q, i, j : q = Quarter(date) /\ i = 3 * q /\ j = 3 * q + 3
    OBVIOUS
  <2>3. q \in Int /\ i \in Int /\ j \in Int /\ FirstOf(j) \in Int /\ other \in Int
    BY <2>1, <2>2, IndexIs, MonthType DEF Quarter
  <2>4. FirstOf(i) <= other /\ other < FirstOf(j)
    BY <2>1, <2>2, <2>3, QuarterBoundsIs
  <2>5. i <= Index(other) /\ Index(other) < j /\ Index(other) \in Int
    BY <2>1, <2>3, <2>4, IndexBetween, IndexIs
  <2>6. Quarter(other) = q
    <3>1. PICK n : n = Index(other)
      OBVIOUS
    <3>2. n \in Int /\ q \in Int /\ 3 * q <= n /\ n < 3 * q + 3
      BY <2>2, <2>3, <2>5, <3>1
    <3>3. n \div 3 = q
      BY <3>2
    <3>4. QED
      BY <3>1, <3>3 DEF Quarter
  <2>7. QED
    BY <2>1, <2>2, <2>6, QuarterBoundsIs
<1>4. QED
  BY <1>1, <1>2, <1>3 DEF Charted

\* The period after one begins on the next day.
LEMMA PeriodFollows ==
  ASSUME NEW g \in Charted, NEW date \in Datable(g), NEW next \in Datable(g),
         next = Bounds(g, date).end + 1
  PROVE  Bounds(g, next).start = next
<1>1. PICK end : end = Bounds(g, date).end
  OBVIOUS
<1>2. /\ end \in Int /\ date \in Int /\ Bounds(g, date).start \in Int
      /\ Bounds(g, date).start <= date /\ date <= end
  BY <1>1, PeriodHolds
<1>3. /\ next \in Int /\ Bounds(g, next).start \in Int /\ Bounds(g, next).end \in Int
      /\ Bounds(g, next).start <= next /\ next <= Bounds(g, next).end
  BY PeriodHolds
<1>4. end \in Datable(g)
  BY <1>1, <1>2, <1>3, DatesAre DEF Datable
<1>5. SUFFICES ASSUME Bounds(g, next).start <= end PROVE FALSE
  BY <1>1, <1>2, <1>3
<1>6. Bounds(g, end) = Bounds(g, date)
  <2>1. Bounds(g, date).start <= end /\ end <= Bounds(g, date).end
    BY <1>1, <1>2
  <2>2. QED
    BY <1>4, <2>1, PeriodSame
<1>7. Bounds(g, end) = Bounds(g, next)
  <2>1. Bounds(g, next).start <= end /\ end <= Bounds(g, next).end
    BY <1>1, <1>2, <1>3, <1>5
  <2>2. QED
    BY <1>4, <2>1, PeriodSame
<1>8. QED
  BY <1>1, <1>2, <1>3, <1>6, <1>7

\* A period begins on a day of the calendar.
LEMMA StartDatable ==
  ASSUME NEW g \in Charted, NEW date \in Dates
  PROVE  date \in Datable(g) /\ Bounds(g, date).start \in Datable(g)
<1>1. date \in Datable(g)
  BY DatesAre DEF Datable
<1>2. CASE g = "week"
  BY <1>1, <1>2, PeriodHolds DEF Datable
<1>3. CASE g # "week"
  <2>1. PICK n, y, i : /\ n = Index(date) /\ y = 12 * FirstYear
                       /\ i = IF g = "month" THEN n ELSE 3 * (n \div 3)
    OBVIOUS
  <2>2. /\ n \in Int /\ y \in Int /\ y <= n /\ y % 3 = 0
    <3>1. PICK x, m : x = YearOf[date] /\ m = MonthOf[date]
      OBVIOUS
    <3>2. x \in FirstYear..LastYear /\ m \in 1..12 /\ FirstYear \in Int /\ LastYear \in Int
      BY <3>1, YearIs, MonthIs, YearAssumption
    <3>3. n = x * 12 + m - 1
      BY <2>1, <3>1 DEF Index
    <3>4. QED
      BY <2>1, <3>2, <3>3
  <2>3. i \in Int /\ y <= i
    BY <2>1, <2>2
  <2>4. FirstOf(y) <= FirstOf(i) /\ FirstOf(y) \in Int /\ FirstOf(i) \in Int
    BY <2>2, <2>3, FirstsInOrder, MonthType
  <2>5. FirstOf(y) = Date(FirstYear, 1, 1)
    <3>1. y \div 12 = FirstYear /\ (y % 12) + 1 = 1
      BY <2>1, YearAssumption
    <3>2. QED
      BY <3>1 DEF FirstOf
  <2>6. Bounds(g, date).start = FirstOf(i)
    BY <1>3, <2>1, MonthBoundsIs, QuarterBoundsIs DEF Charted, Bounds, Quarter
  <2>7. Bounds(g, date).start <= date /\ date \in Int
    BY <1>1, PeriodHolds
  <2>8. QED
    BY <1>1, <1>3, <2>4, <2>5, <2>6, <2>7, DatesAre DEF Datable
<1>4. QED
  BY <1>2, <1>3

-----------------------------------------------------------------------------
(* The loop over the periods of a range *)

LEMMA GreatestInteger ==
  ASSUME NEW S, S \subseteq Int, S # {}, NEW top \in Int, \A x \in S : x <= top
  PROVE  \E n \in S : \A m \in S : m <= n
<1> DEFINE below == {top - x : x \in S}
<1>1. below \subseteq Nat /\ below # {}
  <2>1. \A x \in S : top - x \in Nat
    OBVIOUS
  <2>2. QED
    BY <2>1
<1>2. \E n \in below : \A m \in below : n <= m
  <2> HIDE DEF below
  <2> QED
    BY <1>1, LeastNatural
<1>3. PICK x \in S : \A m \in below : top - x <= m
  BY <1>2
<1>4. \A m \in S : top - x <= top - m
  BY <1>3
<1>5. QED
  BY <1>4

\* The elements that a loop from n on collects, next being always further on
Loop(h, b, next, n, last, top) ==
  h = [s \in n..top |-> IF s > last THEN << >> ELSE <<b[s]>> \o h[next[s]]]

LEMMA LoopsExist ==
  ASSUME NEW first \in Int, NEW last \in Int, NEW top \in Int, first <= top, NEW b, NEW next,
         \A s \in first..top : s <= last => next[s] \in (s + 1)..top
  PROVE  \E h : Loop(h, b, next, first, last, top)
<1> DEFINE Bad == {n \in first..top : ~\E h : Loop(h, b, next, n, last, top)}
<1>1. SUFFICES ASSUME Bad # {} PROVE FALSE
  OBVIOUS
<1>2. PICK n \in Bad : \A m \in Bad : m <= n
  <2>1. Bad \subseteq Int /\ \A x \in Bad : x <= top
    OBVIOUS
  <2> HIDE DEF Bad
  <2>2. QED
    BY <1>1, <2>1, GreatestInteger
<1>3. n \in Int /\ first <= n /\ n <= top
  OBVIOUS
<1>4. CASE n = top
  <2> DEFINE h == [s \in n..top |-> << >>]
  <2>1. \A s \in n..top : s = n /\ s > last
    BY <1>3, <1>4
  <2>2. Loop(h, b, next, n, last, top)
    BY <2>1 DEF Loop
  <2>3. QED
    BY <2>2
<1>5. CASE n < top
  <2>1. n + 1 \in first..top /\ n + 1 \notin Bad
    BY <1>2, <1>3, <1>5
  <2>2. PICK k : Loop(k, b, next, n + 1, last, top)
    BY <2>1
  <2> DEFINE Value(f, s) == IF s > last THEN << >> ELSE <<b[s]>> \o f[next[s]]
             h == [s \in n..top |-> Value(k, s)]
  <2>3. \A s \in (n + 1)..top : k[s] = Value(k, s)
    BY <1>3, <2>2 DEF Loop
  <2>4. \A s \in n..top : h[s] = Value(k, s)
    OBVIOUS
  <2>5. \A s \in (n + 1)..top : h[s] = k[s]
    <3> HIDE DEF h, Value
    <3>1. \A s \in (n + 1)..top : s \in n..top
      BY <1>3
    <3>2. QED
      BY <2>3, <2>4, <3>1
  <2>6. \A s \in n..top : Value(h, s) = Value(k, s)
    <3> HIDE DEF h
    <3>1. ASSUME NEW s \in n..top, ~(s > last) PROVE h[next[s]] = k[next[s]]
      <4>1. s \in first..top /\ s <= last
        BY <1>3, <3>1
      <4>2. next[s] \in (s + 1)..top
        BY <4>1
      <4>3. next[s] \in (n + 1)..top
        BY <1>3, <4>2, <3>1
      <4>4. QED
        BY <2>5, <4>3
    <3>2. QED
      BY <3>1
  <2>7. Loop(h, b, next, n, last, top)
    <3>1. h = [s \in n..top |-> Value(h, s)]
      <4> HIDE DEF Value
      <4> QED
        BY <2>6
    <3> HIDE DEF h
    <3>2. QED
      BY <3>1 DEF Loop
  <2>8. QED
    BY <2>7
<1>6. QED
  BY <1>3, <1>4, <1>5

\* The loop stays between the period of the first day and that of the last.
LEMMA LoopFits ==
  ASSUME NEW g \in Charted, NEW from \in Dates, NEW to \in Dates, from <= to,
         NEW first, first = Bounds(g, from).start, NEW top, top = Bounds(g, to).end + 1
  PROVE  /\ first \in Int /\ top \in Int /\ from \in Int /\ to \in Int
         /\ first <= from /\ to < top /\ first \in Datable(g) /\ Bounds(g, first).start = first
         /\ \A s \in first..top : s <= to =>
              s \in Datable(g) /\ Bounds(g, s).end + 1 \in (s + 1)..top
<1>1. /\ first \in Datable(g) /\ from \in Datable(g) /\ to \in Datable(g)
  BY StartDatable
<1>2. /\ first \in Int /\ top \in Int /\ from \in Int /\ to \in Int /\ first <= from /\ to < top
      /\ from <= Bounds(g, from).end
  BY <1>1, PeriodHolds
<1>3. Bounds(g, first) = Bounds(g, from)
  <2>1. Bounds(g, from).start <= first /\ first <= Bounds(g, from).end
    BY <1>2, PeriodHolds, <1>1
  <2>2. QED
    BY <1>1, <2>1, PeriodSame
<1>4. ASSUME NEW s \in first..top, s <= to
      PROVE  s \in Datable(g) /\ Bounds(g, s).end + 1 \in (s + 1)..top
  <2>1. s \in Int /\ first <= s
    BY <1>2
  <2>2. s \in Datable(g)
    <3>1. CASE g = "week"
      BY <2>1, <3>1 DEF Datable
    <3>2. CASE g # "week"
      <4>1. first \in Dates /\ to \in Dates
        BY <1>1, <3>2 DEF Datable
      <4>2. s \in Dates
        BY <1>2, <1>4, <2>1, <4>1, DatesAre
      <4>3. QED
        BY <3>2, <4>2 DEF Datable
    <3>3. QED
      BY <3>1, <3>2
  <2>3. PICK end : end = Bounds(g, s).end
    OBVIOUS
  <2>4. end \in Int /\ s <= end /\ Bounds(g, s).start <= s /\ Bounds(g, s).start \in Int
    BY <2>2, <2>3, PeriodHolds
  <2>5. end <= Bounds(g, to).end
    <3>1. CASE to <= end
      <4>1. Bounds(g, s).start <= to /\ to <= Bounds(g, s).end
        BY <1>2, <1>4, <2>1, <2>3, <2>4, <3>1
      <4>2. Bounds(g, to) = Bounds(g, s)
        BY <1>1, <2>2, <4>1, PeriodSame
      <4>3. QED
        BY <2>3, <2>4, <4>2
    <3>2. CASE end < to
      <4>1. to <= Bounds(g, to).end /\ Bounds(g, to).end \in Int
        BY <1>1, PeriodHolds
      <4>2. QED
        BY <1>2, <2>4, <3>2, <4>1
    <3>3. QED
      BY <1>2, <2>4, <3>1, <3>2
  <2>6. Bounds(g, to).end \in Int
    BY <1>1, PeriodHolds
  <2>7. end + 1 \in (s + 1)..top
    BY <1>2, <2>1, <2>4, <2>5, <2>6
  <2>8. QED
    BY <2>2, <2>3, <2>7
<1>5. QED
  BY <1>1, <1>2, <1>3, <1>4

\* p are the periods from start on, in order, of all days up to the last one.
Tiled(p, g, start, to) ==
  /\ p \in Seq([start : Int, end : Int])
  /\ Len(p) >= 1 /\ p[1].start = start
  /\ \A i \in 1..Len(p) :
       /\ \E d \in Datable(g) : p[i] = Bounds(g, d)
       /\ p[i].start <= to /\ p[i].start <= p[i].end
  /\ \A i, j \in 1..Len(p) : i < j => p[i].end < p[j].start
  /\ \A d \in Datable(g) : start <= d /\ d <= to => \E i \in 1..Len(p) : p[i] = Bounds(g, d)

LEMMA ElementsIn == \A S : \A s \in Seq(S) : \A i \in 1..Len(s) : s[i] \in S
  OBVIOUS

LEMMA TiledGrows ==
  ASSUME NEW g \in Charted, NEW start \in Datable(g), Bounds(g, start).start = start,
         NEW to \in Int, start <= to, NEW next, next = Bounds(g, start).end + 1,
         NEW rest, IF next <= to THEN Tiled(rest, g, next, to) ELSE rest = << >>
  PROVE  Tiled(<<Bounds(g, start)>> \o rest, g, start, to)
<1>1. PICK b : b = Bounds(g, start)
  OBVIOUS
<1>2. /\ b \in [start : Int, end : Int] /\ b.start = start /\ start \in Int /\ b.start <= b.end
      /\ next = b.end + 1 /\ next \in Int
  BY <1>1, PeriodHolds
<1>3. rest \in Seq([start : Int, end : Int])
  <2>1. CASE next <= to
    BY <2>1 DEF Tiled
  <2>2. CASE ~(next <= to)
    BY <2>2
  <2>3. QED
    BY <2>1, <2>2
<1>4. PICK p : p = <<b>> \o rest
  OBVIOUS
<1>5. /\ p \in Seq([start : Int, end : Int]) /\ Len(p) = Len(rest) + 1 /\ Len(rest) \in Nat
      /\ p[1] = b /\ \A i \in 1..Len(rest) : p[i + 1] = rest[i]
  BY <1>2, <1>3, <1>4
<1>6. ASSUME NEW i \in 1..Len(p), i # 1
      PROVE  /\ \E k \in 1..Len(rest) : i = k + 1 /\ p[i] = rest[k]
             /\ Tiled(rest, g, next, to)
  <2>1. PICK k \in 1..Len(rest) : i = k + 1
    <3>1. i - 1 \in 1..Len(rest) /\ i = (i - 1) + 1
      BY <1>5, <1>6
    <3>2. QED
      BY <3>1
  <2>2. p[k + 1] = rest[k]
    BY <1>5, <2>1
  <2>3. rest # << >>
    BY <2>1
  <2>4. QED
    BY <2>1, <2>2, <2>3
<1>7. ASSUME NEW i \in 1..Len(p)
      PROVE  /\ \E d \in Datable(g) : p[i] = Bounds(g, d)
             /\ p[i].start <= to /\ p[i].start <= p[i].end
             /\ i # 1 => b.end < p[i].start
  <2>1. CASE i = 1
    BY <1>1, <1>2, <1>5, <2>1
  <2>2. CASE i # 1
    <3>1. PICK k \in 1..Len(rest) : i = k + 1 /\ p[i] = rest[k]
      BY <1>6, <2>2
    <3>2. Tiled(rest, g, next, to)
      BY <1>6, <2>2
    <3>3. /\ \E d \in Datable(g) : rest[k] = Bounds(g, d)
          /\ rest[k].start <= to /\ rest[k].start <= rest[k].end
      BY <3>1, <3>2 DEF Tiled
    <3>4. b.end < rest[k].start
      <4>1. 1 \in 1..Len(rest) /\ k \in 1..Len(rest)
        BY <3>2 DEF Tiled
      <4>2. /\ rest[1].start = next /\ rest[1].start <= rest[1].end
            /\ 1 < k => rest[1].end < rest[k].start
        BY <3>2, <4>1 DEF Tiled
      <4>3. rest[1] \in [start : Int, end : Int] /\ rest[k] \in [start : Int, end : Int]
        BY <1>3, <4>1, ElementsIn
      <4>4. PICK e, x, y, z : e = b.end /\ x = rest[1].start /\ y = rest[1].end /\ z = rest[k].start
        OBVIOUS
      <4>5. e \in Int /\ x \in Int /\ y \in Int /\ z \in Int
        BY <1>2, <4>3, <4>4
      <4>6. x = e + 1 /\ x <= y /\ (1 < k => y < z) /\ (k = 1 => z = x)
        <5>1. x = e + 1
          BY <1>2, <4>2, <4>4
        <5>2. x <= y /\ (1 < k => y < z)
          BY <4>2, <4>4
        <5>3. k = 1 => z = x
          BY <4>4
        <5>4. QED
          BY <5>1, <5>2, <5>3
      <4>7. k = 1 \/ 1 < k
        BY <4>1
      <4>8. e < z
        BY <4>5, <4>6, <4>7
      <4>9. QED
        BY <4>4, <4>8
    <3>5. QED
      BY <3>1, <3>3, <3>4
  <2>3. QED
    BY <2>1, <2>2
<1>8. ASSUME NEW i \in 1..Len(p), NEW j \in 1..Len(p), i < j PROVE p[i].end < p[j].start
  <2>1. CASE i = 1
    BY <1>5, <1>7, <1>8, <2>1
  <2>2. CASE i # 1
    <3>1. PICK k \in 1..Len(rest) : i = k + 1 /\ p[i] = rest[k]
      BY <1>6, <2>2
    <3>2. j # 1
      BY <1>8, <3>1
    <3>3. PICK l \in 1..Len(rest) : j = l + 1 /\ p[j] = rest[l]
      BY <1>6, <3>2
    <3>4. Tiled(rest, g, next, to) /\ k < l
      BY <1>6, <1>8, <2>2, <3>1, <3>3
    <3>5. QED
      BY <3>1, <3>3, <3>4 DEF Tiled
  <2>3. QED
    BY <2>1, <2>2
<1>9. ASSUME NEW d \in Datable(g), start <= d, d <= to
      PROVE  \E i \in 1..Len(p) : p[i] = Bounds(g, d)
  <2>1. d \in Int
    BY PeriodHolds
  <2>2. CASE d <= b.end
    <3>1. Bounds(g, d) = Bounds(g, start)
      BY <1>1, <1>2, <1>9, <2>2, PeriodSame
    <3>2. 1 \in 1..Len(p)
      BY <1>5
    <3>3. QED
      BY <1>1, <1>5, <3>1, <3>2
  <2>3. CASE b.end < d
    <3>1. next <= d /\ next <= to
      BY <1>2, <1>9, <2>1, <2>3
    <3>2. PICK i \in 1..Len(rest) : rest[i] = Bounds(g, d)
      BY <1>9, <3>1 DEF Tiled
    <3>3. i + 1 \in 1..Len(p)
      BY <1>5
    <3>4. p[i + 1] = rest[i]
      BY <1>5
    <3>5. QED
      BY <3>2, <3>3, <3>4
  <2>4. QED
    BY <1>2, <2>1, <2>2, <2>3
<1>10. QED
  <2>1. Len(p) >= 1 /\ p[1].start = start
    BY <1>2, <1>5
  <2>2. Tiled(p, g, start, to)
    BY <1>5, <1>7, <1>8, <1>9, <2>1 DEF Tiled
  <2>3. QED
    BY <1>1, <1>4, <2>2

\* The periods of a range are the periods of its days, in order, without gaps.
LEMMA PeriodsTile ==
  ASSUME NEW g \in Charted, NEW range \in DateRange
  PROVE  /\ range.from \in Dates /\ range.to \in Dates
         /\ range.from \in Int /\ range.to \in Int /\ range.from <= range.to
         /\ Bounds(g, range.from).start \in Int /\ Bounds(g, range.from).start <= range.from
         /\ Tiled(PeriodsOf(g, range), g, Bounds(g, range.from).start, range.to)
<1>1. PICK from, to : from = range.from /\ to = range.to
  OBVIOUS
<1>2. from \in Dates /\ to \in Dates /\ from <= to
  BY <1>1, RangeAssumption
<1>3. PICK first, top : first = Bounds(g, from).start /\ top = Bounds(g, to).end + 1
  OBVIOUS
<1>4. /\ first \in Int /\ top \in Int /\ from \in Int /\ to \in Int
      /\ first <= from /\ to < top /\ first \in Datable(g) /\ Bounds(g, first).start = first
      /\ \A s \in first..top : s <= to =>
           s \in Datable(g) /\ Bounds(g, s).end + 1 \in (s + 1)..top
  BY <1>2, <1>3, LoopFits
<1> DEFINE b == [s \in first..top |-> Bounds(g, s)]
           next == [s \in first..top |-> Bounds(g, s).end + 1]
           Step(f) == [s \in first..top |-> IF s > to THEN << >>
                         ELSE <<Bounds(g, s)>> \o f[Bounds(g, s).end + 1]]
<1>5. \A f : f = Step(f) <=> Loop(f, b, next, first, to, top)
  <2>1. ASSUME NEW f
        PROVE  Step(f) = [s \in first..top |-> IF s > to THEN << >> ELSE <<b[s]>> \o f[next[s]]]
    OBVIOUS
  <2> HIDE DEF b, next, Step
  <2>2. QED
    BY <2>1 DEF Loop
<1>6. \E f : Loop(f, b, next, first, to, top)
  <2>1. \A s \in first..top : s <= to => next[s] \in (s + 1)..top
    BY <1>4
  <2>2. first <= top
    BY <1>2, <1>4
  <2> HIDE DEF b, next
  <2>3. QED
    BY <1>4, <2>1, <2>2, LoopsExist
<1>7. PeriodsOf(g, range) = (CHOOSE f : f = Step(f))[first]
  BY <1>1, <1>3 DEF PeriodsOf
<1>8. PICK f : f = Step(f) /\ PeriodsOf(g, range) = f[first]
  <2> HIDE DEF b, next, Step
  <2>1. \E f : f = Step(f)
    BY <1>5, <1>6
  <2>2. QED
    BY <1>7, <2>1
<1>9. \A s \in first..top :
        f[s] = IF s > to THEN << >> ELSE <<Bounds(g, s)>> \o f[Bounds(g, s).end + 1]
  BY <1>8, Zenon
<1> HIDE DEF b, next, Step
<1> DEFINE Bad == {s \in first..top : /\ s <= to /\ Bounds(g, s).start = s
                                      /\ ~Tiled(f[s], g, s, to)}
<1>10. Bad = {}
  <2>1. SUFFICES ASSUME Bad # {} PROVE FALSE
    OBVIOUS
  <2>2. PICK s \in Bad : \A r \in Bad : r <= s
    <3>1. Bad \subseteq Int /\ \A r \in Bad : r <= top
      BY <1>4
    <3> HIDE DEF Bad
    <3>2. QED
      BY <1>4, <2>1, <3>1, GreatestInteger
  <2>3. /\ s \in first..top /\ s <= to /\ Bounds(g, s).start = s /\ ~Tiled(f[s], g, s, to)
        /\ s \in Datable(g) /\ s \in Int
    BY <1>4
  <2>4. PICK next1 : next1 = Bounds(g, s).end + 1
    OBVIOUS
  <2>5. next1 \in (s + 1)..top /\ next1 \in first..top /\ next1 \in Int /\ s < next1
    BY <1>4, <2>3, <2>4
  <2>6. f[s] = <<Bounds(g, s)>> \o f[next1]
    <3>1. ~(s > to)
      BY <1>4, <2>3
    <3>2. QED
      BY <1>9, <2>3, <2>4, <3>1
  <2>7. IF next1 <= to THEN Tiled(f[next1], g, next1, to) ELSE f[next1] = << >>
    <3>1. CASE next1 <= to
      <4>1. next1 \in Datable(g)
        BY <1>4, <2>5, <3>1
      <4>2. Bounds(g, next1).start = next1
        BY <2>3, <2>4, <4>1, PeriodFollows
      <4>3. next1 \notin Bad
        BY <2>2, <2>3, <2>5
      <4>4. QED
        BY <2>5, <3>1, <4>2, <4>3
    <3>2. CASE ~(next1 <= to)
      <4>1. next1 > to
        BY <1>4, <2>5, <3>2
      <4>2. QED
        BY <1>9, <2>5, <3>2, <4>1
    <3>3. QED
      BY <3>1, <3>2
  <2>8. Tiled(<<Bounds(g, s)>> \o f[next1], g, s, to)
    BY <1>4, <2>3, <2>4, <2>7, TiledGrows
  <2>9. QED
    BY <2>3, <2>6, <2>8
<1>11. first \in first..top /\ first <= to
  BY <1>2, <1>4
<1>12. Tiled(f[first], g, first, to)
  BY <1>4, <1>10, <1>11
<1>13. QED
  BY <1>1, <1>2, <1>3, <1>4, <1>8, <1>12

-----------------------------------------------------------------------------
(* The rows of a report and their totals *)

Field == {"income", "spending", "net"}

\* What a transaction adds to a total
Part(field, t) ==
  CASE field = "income" -> Positive(transactions[t].amount)
    [] field = "spending" -> Positive(-transactions[t].amount)
    [] OTHER -> transactions[t].amount

Parts(field) == [t \in Id |-> Part(field, t)]

LEMMA IncomeIs ==
  ASSUME NEW S, S \subseteq Id
  PROVE  Totals(S).income = Total(Parts("income"), S)
<1> DEFINE F(h) == [s \in SUBSET S |-> IF s = {} THEN 0
                      ELSE Positive(transactions[CHOOSE x \in s : TRUE].amount)
                             + h[s \ {CHOOSE x \in s : TRUE}]]
           f == Parts("income")
<1>1. ASSUME NEW h PROVE h = F(h) <=> Sums(f, S, h)
  <2>1. \A s \in SUBSET S : s # {} =>
          f[Some(s)] = Positive(transactions[CHOOSE x \in s : TRUE].amount)
    BY SomeIs DEF Parts, Part, Some
  <2> HIDE DEF f
  <2>2. F(h) = [s \in SUBSET S |-> IF s = {} THEN 0 ELSE f[Some(s)] + h[s \ {Some(s)}]]
    BY <2>1 DEF Some
  <2>3. QED
    BY <2>2 DEF Sums
<1>2. Totals(S).income = (CHOOSE h : h = F(h))[S]
  BY DEF Totals, MapThenSumSet, MapThenFoldSet
<1> HIDE DEF F, f
<1>3. (CHOOSE h : h = F(h)) = (CHOOSE h : Sums(f, S, h))
  BY <1>1, Zenon
<1>4. QED
  BY <1>2, <1>3, TotalIs DEF f

LEMMA SpendingIs ==
  ASSUME NEW S, S \subseteq Id
  PROVE  Totals(S).spending = Total(Parts("spending"), S)
<1> DEFINE F(h) == [s \in SUBSET S |-> IF s = {} THEN 0
                      ELSE Positive(-transactions[CHOOSE x \in s : TRUE].amount)
                             + h[s \ {CHOOSE x \in s : TRUE}]]
           f == Parts("spending")
<1>1. ASSUME NEW h PROVE h = F(h) <=> Sums(f, S, h)
  <2>1. \A s \in SUBSET S : s # {} =>
          f[Some(s)] = Positive(-transactions[CHOOSE x \in s : TRUE].amount)
    BY SomeIs DEF Parts, Part, Some
  <2> HIDE DEF f
  <2>2. F(h) = [s \in SUBSET S |-> IF s = {} THEN 0 ELSE f[Some(s)] + h[s \ {Some(s)}]]
    BY <2>1 DEF Some
  <2>3. QED
    BY <2>2 DEF Sums
<1>2. Totals(S).spending = (CHOOSE h : h = F(h))[S]
  BY DEF Totals, MapThenSumSet, MapThenFoldSet
<1> HIDE DEF F, f
<1>3. (CHOOSE h : h = F(h)) = (CHOOSE h : Sums(f, S, h))
  BY <1>1, Zenon
<1>4. QED
  BY <1>2, <1>3, TotalIs DEF f

LEMMA NetIs ==
  ASSUME NEW S, S \subseteq Id
  PROVE  Totals(S).net = Total(Parts("net"), S)
<1> DEFINE F(h) == [s \in SUBSET S |-> IF s = {} THEN 0
                      ELSE transactions[CHOOSE x \in s : TRUE].amount
                             + h[s \ {CHOOSE x \in s : TRUE}]]
           f == Parts("net")
<1>1. ASSUME NEW h PROVE h = F(h) <=> Sums(f, S, h)
  <2>1. \A s \in SUBSET S : s # {} =>
          f[Some(s)] = transactions[CHOOSE x \in s : TRUE].amount
    BY SomeIs DEF Parts, Part, Some
  <2> HIDE DEF f
  <2>2. F(h) = [s \in SUBSET S |-> IF s = {} THEN 0 ELSE f[Some(s)] + h[s \ {Some(s)}]]
    BY <2>1 DEF Some
  <2>3. QED
    BY <2>2 DEF Sums
<1>2. Totals(S).net = (CHOOSE h : h = F(h))[S]
  BY DEF Totals, MapThenSumSet, MapThenFoldSet
<1> HIDE DEF F, f
<1>3. (CHOOSE h : h = F(h)) = (CHOOSE h : Sums(f, S, h))
  BY <1>1, Zenon
<1>4. QED
  BY <1>2, <1>3, TotalIs DEF f

LEMMA TotalsAre ==
  ASSUME NEW S, S \subseteq Id, NEW field \in Field
  PROVE  Totals(S)[field] = Total(Parts(field), S)
  BY IncomeIs, SpendingIs, NetIs DEF Field

\* Finitely many transactions are booked at any time.
FiniteLedger == IsFiniteSet({t \in Id : Booked(t)})

LEMMA LedgerIsFinite == Spec => []FiniteLedger
<1>1. Init => FiniteLedger
  <2>1. Init => {t \in Id : Booked(t)} = {}
    BY DEF Init, Booked
  <2>2. QED
    BY <2>1, FS_EmptySet DEF FiniteLedger
<1>2. TypeOK /\ FiniteLedger /\ [Next]_vars => FiniteLedger'
  <2> SUFFICES ASSUME TypeOK, FiniteLedger, [Next]_vars PROVE FiniteLedger'
    OBVIOUS
  <2> DEFINE S == {t \in Id : Booked(t)}
             T == {t \in Id : Booked(t)'}
  <2>1. \E t : T \subseteq S \cup {t}
    BY DEF Next, Book, Correct, Delete, Booked, TypeOK, vars
  <2>2. PICK t : T \subseteq S \cup {t}
    BY <2>1
  <2> HIDE DEF S, T
  <2>3. IsFiniteSet(S \cup {t})
    BY FS_AddElement DEF FiniteLedger, S
  <2>4. IsFiniteSet(T)
    BY <2>2, <2>3, FS_Subset
  <2>5. QED
    BY <2>4 DEF FiniteLedger, T, Booked
<1>3. QED
  BY <1>1, <1>2, TypeCorrect, PTL DEF Spec

\* Rows a report of this range may add up
Listing(rows, range) ==
  /\ rows \subseteq Id /\ IsFiniteSet(rows)
  /\ \A t \in rows : /\ transactions[t].amount \in Int \ {0}
                     /\ transactions[t].tag \in Tag
                     /\ transactions[t].date \in Dates /\ transactions[t].date \in Int
                     /\ range.from <= transactions[t].date /\ transactions[t].date <= range.to

LEMMA DateBetween ==
  ASSUME NEW from \in Dates, NEW to \in Dates, NEW date \in Int, from <= date, date <= to
  PROVE  date \in Dates
<1>1. from \in Int /\ to \in Int
  BY DatesAre
<1>2. PICK a, b : a = Date(FirstYear, 1, 1) /\ b = Date(LastYear, 12, 31)
  OBVIOUS
<1>3. a \in Int /\ b \in Int /\ a <= from /\ to <= b
  BY <1>2, DatesAre
<1>4. a <= date /\ date <= b
  BY <1>1, <1>3
<1>5. QED
  BY <1>2, <1>4, DatesAre

LEMMA RowsAre ==
  ASSUME TypeOK, FiniteLedger, NEW range \in DateRange, NEW filter
  PROVE  Listing(CurrentRows(range, filter), range)
<1> DEFINE rows == CurrentRows(range, filter)
<1>1. rows \subseteq {t \in Id : Booked(t)}
  BY DEF CurrentRows, Loaded, Reported
<1>2. rows \subseteq Id /\ IsFiniteSet(rows)
  BY <1>1, FS_Subset DEF FiniteLedger
<1>3. range.from \in Dates /\ range.to \in Dates /\ range.from \in Int
  BY RangeAssumption, DatesAre
<1>4. ASSUME NEW t \in rows
      PROVE  /\ transactions[t].amount \in Int \ {0}
             /\ transactions[t].tag \in Tag
             /\ transactions[t].date \in Dates /\ transactions[t].date \in Int
             /\ range.from <= transactions[t].date /\ transactions[t].date <= range.to
  <2>1. transactions[t] \in Transaction
    BY <1>1, <1>4 DEF Booked, TypeOK
  <2>2. /\ transactions[t].amount \in Int \ {0} /\ transactions[t].tag \in Tag
        /\ transactions[t].date \in Int
    <3>1. /\ transactions[t].amount \in Amount /\ transactions[t].tag \in Tag
          /\ transactions[t].date \in Day
      BY <2>1 DEF Transaction
    <3>2. transactions[t].amount \in Int \ {0}
      BY <3>1, AmountAssumption
    <3>3. transactions[t].date \in Int
      <4>1. transactions[t].date \in Nat
        BY <3>1, DayAssumption
      <4>2. QED
        BY <4>1
    <3>4. QED
      BY <3>1, <3>2, <3>3
  <2>3. transactions[t].date >= range.from /\ transactions[t].date <= range.to
    BY <1>4 DEF CurrentRows, Loaded, Within
  <2>4. range.from <= transactions[t].date
    BY <1>3, <2>2, <2>3
  <2>5. QED
    <3>1. transactions[t].date \in Dates
      BY <1>3, <2>2, <2>3, <2>4, DateBetween
    <3>2. QED
      BY <2>2, <2>3, <2>4, <3>1
<1> HIDE DEF rows
<1>5. QED
  BY <1>2, <1>4 DEF Listing, rows

LEMMA ListingPart ==
  ASSUME NEW range, NEW rows, Listing(rows, range), NEW part, part \subseteq rows
  PROVE  Listing(part, range)
  BY FS_Subset DEF Listing

LEMMA PartType ==
  ASSUME NEW range, NEW rows, Listing(rows, range), NEW field \in Field
  PROVE  \A t \in rows : Parts(field)[t] \in Int
  BY DEF Listing, Parts, Part, Positive

\* The totals of rows are shared out by any key.
LEMMA TotalsShared ==
  ASSUME NEW range, NEW rows, Listing(rows, range), NEW field \in Field,
         NEW K, IsFiniteSet(K), NEW kind, \A t \in rows : kind[t] \in K,
         NEW g, DOMAIN g = K, \A k \in K : g[k] = Totals({t \in rows : kind[t] = k})[field]
  PROVE  SumFunction(g) = Totals(rows)[field]
<1>1. /\ rows \subseteq Id /\ IsFiniteSet(rows)
      /\ \A t \in rows : Parts(field)[t] \in Int
  BY PartType DEF Listing
<1>2. ASSUME NEW k \in K PROVE g[k] = Total(Parts(field), OfGroup(kind, rows, k))
  <2>1. OfGroup(kind, rows, k) = {t \in rows : kind[t] = k} /\ OfGroup(kind, rows, k) \subseteq Id
    BY <1>1 DEF OfGroup
  <2>2. QED
    BY <2>1, TotalsAre
<1>3. Total(g, K) = Total(Parts(field), rows)
  BY <1>1, <1>2, TotalShared
<1>4. QED
  BY <1>1, <1>3, SumIs, TotalsAre

-----------------------------------------------------------------------------
(* Series *)

LEMMA GreatestOf ==
  ASSUME NEW a \in Int, NEW b \in Int
  PROVE  Max({a, b}) = (IF a < b THEN b ELSE a) /\ Min({a, b}) = (IF a < b THEN a ELSE b)
<1>1. PICK m \in {a, b} : \A y \in {a, b} : m >= y
  OBVIOUS
<1>2. Max({a, b}) \in {a, b} /\ \A y \in {a, b} : Max({a, b}) >= y
  BY <1>1 DEF Max
<1>3. PICK n \in {a, b} : \A y \in {a, b} : n =< y
  OBVIOUS
<1>4. Min({a, b}) \in {a, b} /\ \A y \in {a, b} : Min({a, b}) =< y
  BY <1>3 DEF Min
<1>5. QED
  BY <1>2, <1>4

\* No two periods begin on the same day.
LEMMA TilesApart ==
  ASSUME NEW g \in Charted, NEW start \in Int, NEW to \in Int, NEW p, Tiled(p, g, start, to),
         NEW i \in 1..Len(p), NEW j \in 1..Len(p), p[i].start = p[j].start
  PROVE  i = j
<1>1. p[i] \in [start : Int, end : Int] /\ p[j] \in [start : Int, end : Int]
  BY ElementsIn DEF Tiled
<1>2. p[i].start <= p[i].end /\ p[j].start <= p[j].end
  BY DEF Tiled
<1>3. (i < j => p[i].end < p[j].start) /\ (j < i => p[j].end < p[i].start)
  BY DEF Tiled
<1>4. i \in Int /\ j \in Int
  BY DEF Tiled
<1>5. PICK a \in Int, b \in Int, c \in Int, d \in Int :
        a = p[i].start /\ b = p[i].end /\ c = p[j].start /\ d = p[j].end
  BY <1>1
<1>6. ~(i < j) /\ ~(j < i)
  BY <1>2, <1>3, <1>5
<1>7. QED
  BY <1>4, <1>6

\* The period of a date, among those of a range
TileOf(p, g, d) == CHOOSE i \in 1..Len(p) : p[i] = Bounds(g, d)

\* Each date of a range is in exactly one of its periods.
LEMMA TileIs ==
  ASSUME NEW g \in Charted, NEW range \in DateRange, NEW p, p = PeriodsOf(g, range),
         NEW d \in Dates, range.from <= d, d <= range.to
  PROVE  /\ d \in Int /\ TileOf(p, g, d) \in 1..Len(p) /\ p[TileOf(p, g, d)] = Bounds(g, d)
         /\ p[TileOf(p, g, d)].start <= d /\ d <= p[TileOf(p, g, d)].end
         /\ \A i \in 1..Len(p) : p[i].start = Bounds(g, d).start => i = TileOf(p, g, d)
<1>1. PICK start, to : start = Bounds(g, range.from).start /\ to = range.to
  OBVIOUS
<1>2. /\ Tiled(p, g, start, to) /\ start \in Int /\ to \in Int /\ start <= range.from
      /\ range.from \in Int
  BY <1>1, PeriodsTile
<1>3. d \in Datable(g) /\ d \in Int
  BY StartDatable, DatesAre
<1>4. start <= d /\ d <= to
  BY <1>1, <1>2, <1>3
<1>5. \E i \in 1..Len(p) : p[i] = Bounds(g, d)
  BY <1>2, <1>3, <1>4 DEF Tiled
<1>6. TileOf(p, g, d) \in 1..Len(p) /\ p[TileOf(p, g, d)] = Bounds(g, d)
  BY <1>5 DEF TileOf
<1>7. \A i \in 1..Len(p) : p[i].start = Bounds(g, d).start => i = TileOf(p, g, d)
  BY <1>2, <1>6, TilesApart
<1>8. Bounds(g, d).start <= d /\ d <= Bounds(g, d).end
  BY <1>3, PeriodHolds
<1>9. QED
  BY <1>3, <1>6, <1>7, <1>8

\* The first period holds the first date, the last one the last.
LEMMA EndTiles ==
  ASSUME NEW g \in Charted, NEW range \in DateRange, NEW p, p = PeriodsOf(g, range)
  PROVE  /\ Len(p) \in Nat /\ Len(p) >= 1
         /\ p[1] = Bounds(g, range.from) /\ p[Len(p)] = Bounds(g, range.to)
         /\ \A i \in 1..Len(p) : /\ p[i] \in [start : Int, end : Int]
                                 /\ p[i].start <= range.to /\ range.from <= p[i].end
                                 /\ \E d \in Datable(g) : p[i] = Bounds(g, d)
<1>1. PICK from, to : from = range.from /\ to = range.to
  OBVIOUS
<1>2. /\ Tiled(p, g, Bounds(g, from).start, to) /\ from \in Int /\ to \in Int /\ from <= to
      /\ from \in Dates /\ to \in Dates
  BY <1>1, PeriodsTile
<1>3. PICK n : n = Len(p)
  OBVIOUS
<1>4. n \in Nat /\ n >= 1 /\ 1 \in 1..n /\ n \in 1..n
  BY <1>2, <1>3 DEF Tiled
<1>5. \A i \in 1..n : p[i] \in [start : Int, end : Int]
  BY <1>2, <1>3, ElementsIn DEF Tiled
<1>6. p[1] = Bounds(g, from)
  <2>1. p[1].start = Bounds(g, from).start
    BY <1>2 DEF Tiled
  <2>2. TileOf(p, g, from) = 1 /\ p[TileOf(p, g, from)] = Bounds(g, from)
    BY <1>1, <1>2, <1>3, <1>4, <2>1, TileIs
  <2>3. QED
    BY <2>2
<1>7. p[n] = Bounds(g, to)
  <2>1. PICK i \in 1..n : p[i] = Bounds(g, to) /\ to <= p[i].end
    BY <1>1, <1>2, <1>3, TileIs
  <2>2. /\ p[n].start <= to /\ (i < n => p[i].end < p[n].start)
    BY <1>2, <1>3, <1>4, <2>1 DEF Tiled
  <2>3. PICK x \in Int, y \in Int : x = p[i].end /\ y = p[n].start
    BY <1>4, <1>5, <2>1
  <2>4. ~(i < n)
    BY <1>2, <2>1, <2>2, <2>3
  <2>5. i = n
    BY <1>4, <2>4
  <2>6. QED
    BY <2>1, <2>5
<1>8. ASSUME NEW i \in 1..n PROVE from <= p[i].end
  <2>1. /\ p[i].start <= p[i].end /\ (1 < i => p[1].end < p[i].start)
    BY <1>2, <1>3, <1>4, <1>8 DEF Tiled
  <2>2. from <= p[1].end
    BY <1>2, <1>6, StartDatable, PeriodHolds
  <2>3. PICK x \in Int, y \in Int, z \in Int : x = p[1].end /\ y = p[i].start /\ z = p[i].end
    BY <1>4, <1>5, <1>8
  <2>4. CASE i = 1
    BY <2>2, <2>4
  <2>5. CASE i # 1
    <3>1. 1 < i
      BY <1>4, <1>8, <2>5
    <3>2. from <= x /\ x < y /\ y <= z
      BY <2>1, <2>2, <2>3, <3>1
    <3>3. QED
      BY <1>2, <2>3, <3>2
  <2>6. QED
    BY <2>4, <2>5
<1>9. \A i \in 1..n : p[i].start <= to /\ \E d \in Datable(g) : p[i] = Bounds(g, d)
  BY <1>2, <1>3 DEF Tiled
<1>10. QED
  BY <1>1, <1>3, <1>4, <1>5, <1>6, <1>7, <1>8, <1>9

LEMMA SeriesShape ==
  ASSUME NEW g \in Charted, NEW range \in DateRange, NEW rows, NEW p, p = PeriodsOf(g, range),
         NEW points, points = Series(g, range, rows)
  PROVE  /\ DOMAIN points = 1..Len(p) /\ Len(points) = Len(p)
         /\ \A i \in 1..Len(p) : points[i] = Point(g, p[i], range, rows)
<1>1. PICK n \in Nat : n = Len(p)
  BY EndTiles
<1>2. p \in Seq([start : Int, end : Int])
  BY PeriodsTile DEF Tiled
<1>3. DOMAIN p = 1..n
  BY <1>1, <1>2
<1>4. points = [i \in 1..n |-> Point(g, p[i], range, rows)]
  BY <1>3 DEF Series
<1>5. DOMAIN points = 1..n /\ \A i \in 1..n : points[i] = Point(g, p[i], range, rows)
  BY <1>4
<1>6. Len(points) = n
  BY <1>4
<1>7. QED
  BY <1>1, <1>5, <1>6

\* Rows are shared out by period, ...
LEMMA RowsByPeriod ==
  ASSUME NEW g \in Charted, NEW range \in DateRange, NEW rows, Listing(rows, range),
         NEW points, points = Series(g, range, rows), NEW field \in Field
  PROVE  SumFunction([i \in DOMAIN points |-> points[i].totals[field]]) = Totals(rows)[field]
<1>1. PICK p : p = PeriodsOf(g, range)
  OBVIOUS
<1>2. /\ DOMAIN points = 1..Len(p)
      /\ \A i \in 1..Len(p) : points[i] = Point(g, p[i], range, rows)
  BY <1>1, SeriesShape
<1> DEFINE K == 1..Len(p)
           kind == [t \in rows |-> TileOf(p, g, transactions[t].date)]
           sums == [i \in DOMAIN points |-> points[i].totals[field]]
<1>3. IsFiniteSet(K)
  BY <1>1, EndTiles, FS_Interval
<1>4. ASSUME NEW t \in rows
      PROVE  /\ TileOf(p, g, transactions[t].date) \in K
             /\ p[TileOf(p, g, transactions[t].date)] = Bounds(g, transactions[t].date)
             /\ \A i \in K : p[i].start = Bounds(g, transactions[t].date).start =>
                            i = TileOf(p, g, transactions[t].date)
  BY <1>1, TileIs DEF Listing
<1>5. ASSUME NEW i \in K PROVE sums[i] = Totals({t \in rows : kind[t] = i})[field]
  <2>1. {t \in rows : Bounds(g, transactions[t].date).start = p[i].start}
          = {t \in rows : kind[t] = i}
    BY <1>4
  <2>2. sums[i] = Totals({t \in rows : Bounds(g, transactions[t].date).start = p[i].start})[field]
    <3>1. points[i] = Point(g, p[i], range, rows) /\ sums[i] = points[i].totals[field]
      BY <1>2
    <3>2. points[i].totals
            = Totals({t \in rows : Bounds(g, transactions[t].date).start = p[i].start})
      BY <3>1 DEF Point
    <3>3. QED
      BY <3>1, <3>2
  <2>3. QED
    BY <2>1, <2>2
<1>6. DOMAIN sums = K /\ \A t \in rows : kind[t] \in K
  BY <1>2, <1>4
<1> HIDE DEF K, kind, sums
<1>7. SumFunction(sums) = Totals(rows)[field]
  BY <1>3, <1>5, <1>6, TotalsShared
<1>8. QED
  BY <1>7 DEF sums

\* ... and so are the days of the range.
LEMMA DaysByPeriod ==
  ASSUME NEW g \in Charted, NEW range \in DateRange, NEW rows,
         NEW points, points = Series(g, range, rows)
  PROVE  SumFunction([i \in DOMAIN points |-> points[i].days]) = range.to - range.from + 1
<1>1. PICK p, from, to : p = PeriodsOf(g, range) /\ from = range.from /\ to = range.to
  OBVIOUS
<1>2. /\ DOMAIN points = 1..Len(p)
      /\ \A i \in 1..Len(p) : points[i] = Point(g, p[i], range, rows)
  BY <1>1, SeriesShape
<1>3. from \in Dates /\ to \in Dates /\ from \in Int /\ to \in Int /\ from <= to
  BY <1>1, PeriodsTile
<1> DEFINE K == 1..Len(p)
           D == from..to
           kind == [d \in D |-> TileOf(p, g, d)]
           one == [d \in D |-> 1]
           sums == [i \in DOMAIN points |-> points[i].days]
<1>4. IsFiniteSet(K) /\ IsFiniteSet(D) /\ Cardinality(D) = to - from + 1
  BY <1>1, <1>3, EndTiles, FS_Interval
<1>5. ASSUME NEW d \in D
      PROVE  /\ d \in Dates /\ d \in Int /\ TileOf(p, g, d) \in K
             /\ p[TileOf(p, g, d)] = Bounds(g, d)
             /\ \A i \in K : p[i].start = Bounds(g, d).start => i = TileOf(p, g, d)
             /\ p[TileOf(p, g, d)].start <= d /\ d <= p[TileOf(p, g, d)].end
  <2>1. d \in Int /\ from <= d /\ d <= to
    BY <1>3, <1>5
  <2>2. d \in Dates
    BY <1>3, <2>1, DateBetween
  <2>3. QED
    BY <1>1, <2>1, <2>2, TileIs
<1>6. ASSUME NEW i \in K PROVE sums[i] = Total(one, OfGroup(kind, D, i))
  <2>1. PICK start \in Int, end \in Int : start = p[i].start /\ end = p[i].end
    BY <1>1, EndTiles
  <2>2. start <= to /\ from <= end /\ start <= end
    <3>1. start <= to /\ from <= end
      BY <1>1, <2>1, EndTiles
    <3>2. p[i].start <= p[i].end
      BY <1>1, PeriodsTile DEF Tiled
    <3>3. QED
      BY <2>1, <3>1, <3>2
  <2>3. PICK first, last : /\ first = IF start < from THEN from ELSE start
                           /\ last = IF end < to THEN end ELSE to
    OBVIOUS
  <2>4. sums[i] = last - first + 1
    <3>1. Max({p[i].start, range.from}) = first /\ Min({p[i].end, range.to}) = last
      BY <1>1, <1>3, <2>1, <2>3, GreatestOf
    <3>2. points[i] = Point(g, p[i], range, rows) /\ sums[i] = points[i].days
      BY <1>2
    <3>3. points[i].days = Min({p[i].end, range.to}) - Max({p[i].start, range.from}) + 1
      BY <3>2 DEF Point
    <3>4. QED
      BY <3>1, <3>2, <3>3
  <2>5. OfGroup(kind, D, i) = first..last
    <3>1. ASSUME NEW d \in OfGroup(kind, D, i) PROVE d \in first..last
      <4>1. d \in D /\ TileOf(p, g, d) = i
        BY <3>1 DEF OfGroup
      <4>2. d \in Int /\ start <= d /\ d <= end /\ from <= d /\ d <= to
        BY <1>3, <1>5, <2>1, <4>1
      <4>3. QED
        BY <1>3, <2>1, <2>3, <4>2
    <3>2. ASSUME NEW d \in first..last PROVE d \in OfGroup(kind, D, i)
      <4>1. d \in D /\ start <= d /\ d <= end
        BY <1>3, <2>1, <2>3, <3>2
      <4>2. PICK x \in Datable(g) : p[i] = Bounds(g, x)
        BY <1>1, EndTiles
      <4>3. d \in Datable(g) /\ Bounds(g, x).start <= d /\ d <= Bounds(g, x).end
        BY <1>5, <2>1, <4>1, <4>2, StartDatable
      <4>4. Bounds(g, d) = p[i]
        BY <4>2, <4>3, PeriodSame
      <4>5. TileOf(p, g, d) = i
        BY <1>5, <4>1, <4>4
      <4>6. QED
        BY <4>1, <4>5 DEF OfGroup
    <3>3. QED
      BY <3>1, <3>2
  <2>6. first \in Int /\ last \in Int /\ first <= last
    BY <1>3, <2>1, <2>2, <2>3
  <2>7. IsFiniteSet(first..last) /\ Cardinality(first..last) = last - first + 1
    BY <2>6, FS_Interval
  <2>8. \A d \in first..last : one[d] = 1
    BY <2>5 DEF OfGroup
  <2> HIDE DEF one
  <2>9. QED
    BY <2>4, <2>5, <2>7, <2>8, TotalOfOnes
<1>7. DOMAIN sums = K /\ (\A d \in D : kind[d] \in K) /\ \A d \in D : one[d] = 1
  BY <1>2, <1>5
<1> HIDE DEF K, D, kind, one, sums
<1>8. Total(sums, K) = Total(one, D)
  <2>1. \A d \in D : one[d] \in Int
    BY <1>7
  <2>2. QED
    BY <1>4, <1>6, <1>7, <2>1, TotalShared
<1>9. SumFunction(sums) = to - from + 1
  BY <1>4, <1>7, <1>8, SumIs, TotalOfOnes
<1>10. QED
  BY <1>1, <1>9 DEF sums

\* A series begins or ends with part of a period when the range does.
LEMMA PartsAtTheEnds ==
  ASSUME NEW g \in Charted, NEW range \in DateRange, NEW rows,
         NEW points, points = Series(g, range, rows)
  PROVE  points[1].partial \/ points[Len(points)].partial <=>
           BoundaryPartials(g, range).first \/ BoundaryPartials(g, range).last
<1>1. PICK p, from, to, n : /\ p = PeriodsOf(g, range) /\ from = range.from /\ to = range.to
                           /\ n = Len(p)
  OBVIOUS
<1>2. from \in Dates /\ to \in Dates /\ from \in Int /\ to \in Int /\ from <= to
  BY <1>1, PeriodsTile
<1>3. /\ n \in Nat /\ 1 \in 1..n /\ n \in 1..n
      /\ p[1] = Bounds(g, from) /\ p[n] = Bounds(g, to)
  BY <1>1, EndTiles
<1>4. Len(points) = n /\ points[1] = Point(g, p[1], range, rows)
      /\ points[n] = Point(g, p[n], range, rows)
  BY <1>1, <1>3, SeriesShape
<1>5. PICK a, b, c, d : a = p[1].start /\ b = p[1].end /\ c = p[n].start /\ d = p[n].end
  OBVIOUS
<1>6. from \in Datable(g) /\ to \in Datable(g)
  BY <1>2, StartDatable
<1>7. /\ a \in Int /\ b \in Int /\ a <= from /\ from <= b
      /\ c \in Int /\ d \in Int /\ c <= to /\ to <= d
  BY <1>3, <1>5, <1>6, PeriodHolds
<1>8. /\ to <= b => b = d
      /\ c <= from => a = c
  <2>1. to <= b => p[1] = p[n]
    <3>1. SUFFICES ASSUME to <= b PROVE p[1] = p[n]
      OBVIOUS
    <3>2. Bounds(g, from).start <= to /\ to <= Bounds(g, from).end
      BY <1>2, <1>3, <1>5, <1>7, <3>1
    <3>3. QED
      BY <1>3, <1>6, <3>2, PeriodSame
  <2>2. c <= from => p[1] = p[n]
    <3>1. SUFFICES ASSUME c <= from PROVE p[1] = p[n]
      OBVIOUS
    <3>2. Bounds(g, to).start <= from /\ from <= Bounds(g, to).end
      BY <1>2, <1>3, <1>5, <1>7, <3>1
    <3>3. QED
      BY <1>3, <1>6, <3>2, PeriodSame
  <2>3. QED
    BY <1>5, <2>1, <2>2
<1>9. points[1].partial <=> from # a \/ to < b
  <2>1. Max({a, from}) = from /\ Min({b, to}) = IF b < to THEN b ELSE to
    BY <1>2, <1>7, GreatestOf
  <2>2. points[1].partial = (\/ Max({p[1].start, range.from}) # p[1].start
                             \/ Min({p[1].end, range.to}) # p[1].end)
    <3>1. Point(g, p[1], range, rows).partial
            = (\/ Max({p[1].start, range.from}) # p[1].start
               \/ Min({p[1].end, range.to}) # p[1].end)
      BY DEF Point
    <3>2. QED
      BY <1>4, <3>1, Zenon
  <2>3. points[1].partial = (Max({a, from}) # a \/ Min({b, to}) # b)
    BY <1>1, <1>5, <2>2
  <2>4. (Max({a, from}) # a \/ Min({b, to}) # b) <=> from # a \/ to < b
    BY <1>2, <1>7, <2>1
  <2>5. QED
    BY <2>3, <2>4, Zenon
<1>10. points[n].partial <=> c < from \/ to # d
  <2>1. Max({c, from}) = (IF c < from THEN from ELSE c) /\ Min({d, to}) = to
    BY <1>2, <1>7, GreatestOf
  <2>2. points[n].partial = (\/ Max({p[n].start, range.from}) # p[n].start
                             \/ Min({p[n].end, range.to}) # p[n].end)
    <3>1. Point(g, p[n], range, rows).partial
            = (\/ Max({p[n].start, range.from}) # p[n].start
               \/ Min({p[n].end, range.to}) # p[n].end)
      BY DEF Point
    <3>2. QED
      BY <1>4, <3>1, Zenon
  <2>3. points[n].partial = (Max({c, from}) # c \/ Min({d, to}) # d)
    BY <1>1, <1>5, <2>2
  <2>4. (Max({c, from}) # c \/ Min({d, to}) # d) <=> c < from \/ to # d
    BY <1>2, <1>7, <2>1
  <2>5. QED
    BY <2>3, <2>4, Zenon
<1>11. /\ BoundaryPartials(g, range).first <=> from # a
       /\ BoundaryPartials(g, range).last <=> to # d
  BY <1>1, <1>3, <1>5 DEF BoundaryPartials
<1>12. (from # a \/ to < b) \/ (c < from \/ to # d) <=> from # a \/ to # d
  BY <1>2, <1>7, <1>8
<1>13. QED
  BY <1>4, <1>9, <1>10, <1>11, <1>12

LEMMA SeriesFit ==
  ASSUME NEW range \in DateRange, NEW rows, Listing(rows, range)
  PROVE  SeriesAddUp(range, rows)
<1>1. ASSUME NEW g \in Charted, NEW points, points = Series(g, range, rows)
      PROVE  /\ \A field \in Field :
                  SumFunction([i \in DOMAIN points |-> points[i].totals[field]])
                    = Totals(rows)[field]
             /\ SumFunction([i \in DOMAIN points |-> points[i].days]) = range.to - range.from + 1
             /\ points[1].partial \/ points[Len(points)].partial <=>
                  BoundaryPartials(g, range).first \/ BoundaryPartials(g, range).last
  BY <1>1, RowsByPeriod, DaysByPeriod, PartsAtTheEnds
<1>2. QED
  BY <1>1, Zenon DEF SeriesAddUp, Charted, Field

-----------------------------------------------------------------------------
(* Years and days *)

LEMMA YearBetween ==
  ASSUME NEW range \in DateRange, NEW rows, Listing(rows, range), NEW t \in rows
  PROVE  /\ YearOf[range.from] \in Int /\ YearOf[range.to] \in Int
         /\ YearOf[transactions[t].date] \in YearOf[range.from]..YearOf[range.to]
         /\ MonthOf[transactions[t].date] \in MonthsOfYear
<1>1. ASSUME NEW date \in Dates, NEW later \in Dates, date <= later
      PROVE  /\ YearOf[date] \in Int /\ YearOf[later] \in Int /\ YearOf[date] <= YearOf[later]
             /\ MonthOf[date] \in 1..12
  <2>1. /\ YearOf[date] \in Int /\ MonthOf[date] \in 1..12
        /\ YearOf[later] \in Int /\ MonthOf[later] \in 1..12
    BY MonthIs
  <2>2. Index(date) <= Index(later)
    BY <1>1, LaterDate
  <2>3. QED
    BY <2>1, <2>2 DEF Index
<1>2. PICK date : date = transactions[t].date
  OBVIOUS
<1>3. /\ range.from \in Dates /\ range.to \in Dates /\ date \in Dates
      /\ range.from <= date /\ date <= range.to
  BY <1>2, RangeAssumption DEF Listing
<1>4. /\ YearOf[range.from] \in Int /\ YearOf[date] \in Int /\ YearOf[range.to] \in Int
      /\ YearOf[range.from] <= YearOf[date] /\ YearOf[date] <= YearOf[range.to]
      /\ MonthOf[date] \in 1..12
  BY <1>1, <1>3
<1>5. QED
  BY <1>2, <1>4 DEF MonthsOfYear

LEMMA YearsFit ==
  ASSUME NEW range \in DateRange, NEW rows, Listing(rows, range), NEW field \in Field,
         NEW annual, annual = Annual(range, rows)
  PROVE  SumFunction([year \in DOMAIN annual |-> annual[year][field]]) = Totals(rows)[field]
<1>1. PICK K : K = YearOf[range.from]..YearOf[range.to]
  OBVIOUS
<1>2. DOMAIN annual = K
  BY <1>1 DEF Annual
<1>3. IsFiniteSet(MonthsOfYear)
  <2>1. PICK a \in Int, b \in Int : a = 1 /\ b = 12
    OBVIOUS
  <2>2. IsFiniteSet(a..b)
    BY FS_Interval
  <2>3. QED
    BY <2>1, <2>2 DEF MonthsOfYear
<1>4. IsFiniteSet(K)
  <2>1. YearOf[range.from] \in Int /\ YearOf[range.to] \in Int
    BY RangeAssumption, MonthIs
  <2>2. QED
    BY <1>1, <2>1, FS_Interval
<1> DEFINE year == [t \in rows |-> YearOf[transactions[t].date]]
           month == [t \in rows |-> MonthOf[transactions[t].date]]
           sums == [y \in DOMAIN annual |-> annual[y][field]]
<1>5. \A t \in rows : year[t] \in K /\ month[t] \in MonthsOfYear
  BY <1>1, YearBetween
<1>6. ASSUME NEW y \in K PROVE sums[y] = Totals({t \in rows : year[t] = y})[field]
  <2> DEFINE part == {t \in rows : year[t] = y}
             parts == [m \in MonthsOfYear |-> MonthTotals(y, m, rows)[field]]
  <2>1. Listing(part, range) /\ \A t \in part : month[t] \in MonthsOfYear
    BY <1>5, ListingPart
  <2>2. ASSUME NEW m \in MonthsOfYear
        PROVE  parts[m] = Totals({t \in part : month[t] = m})[field]
    <3>1. {t \in rows : YearOf[transactions[t].date] = y /\ MonthOf[transactions[t].date] = m}
            = {t \in part : month[t] = m}
      OBVIOUS
    <3>2. QED
      BY <3>1 DEF MonthTotals
  <2>3. DOMAIN parts = MonthsOfYear
    OBVIOUS
  <2>4. annual[y][field] = SumFunction(parts)
    <3>1. CASE field = "income"
      BY <1>1, <3>1 DEF Annual
    <3>2. CASE field = "spending"
      BY <1>1, <3>2 DEF Annual
    <3>3. CASE field = "net"
      BY <1>1, <3>3 DEF Annual
    <3>4. QED
      BY <3>1, <3>2, <3>3 DEF Field
  <2>5. sums[y] = SumFunction(parts)
    BY <1>2, <2>4
  <2> HIDE DEF part, parts, month
  <2>6. SumFunction(parts) = Totals(part)[field]
    BY <1>3, <2>1, <2>2, <2>3, TotalsShared
  <2>7. QED
    BY <2>5, <2>6 DEF part
<1>7. DOMAIN sums = K
  BY <1>2
<1> HIDE DEF year, sums
<1>8. SumFunction(sums) = Totals(rows)[field]
  BY <1>4, <1>5, <1>6, <1>7, TotalsShared
<1>9. QED
  BY <1>8 DEF sums

\* The running sum of a day holds the rows up to that day.
LEMMA CumulativeIs ==
  ASSUME NEW range \in DateRange, NEW rows, Listing(rows, range)
  PROVE  Cumulative(range, rows)[range.to] = Totals(rows).net
<1>1. PICK from, to : from = range.from /\ to = range.to
  OBVIOUS
<1>2. from \in Int /\ to \in Int /\ from <= to
  BY <1>1, RangeAssumption, DatesAre
<1> DEFINE D == (from - 1)..to
           UpTo(day) == {t \in rows : transactions[t].date <= day}
           On(day) == {t \in rows : transactions[t].date = day}
           Step(f) == [day \in D |-> IF day < from THEN 0
                                     ELSE f[day - 1] + Totals(On(day)).net]
           h == [day \in D |-> Totals(UpTo(day)).net]
<1>3. \A day : /\ Listing(UpTo(day), range) /\ UpTo(day) \subseteq Id
               /\ Listing(On(day), range) /\ On(day) \subseteq Id
  <2>1. \A day : Listing(UpTo(day), range) /\ Listing(On(day), range)
    BY ListingPart
  <2>2. QED
    BY <2>1 DEF Listing
<1>4. ASSUME NEW day \in Int
      PROVE  /\ Totals(UpTo(day)).net \in Int /\ Totals(On(day)).net \in Int
             /\ Totals(UpTo(day)).net = Totals(UpTo(day - 1)).net + Totals(On(day)).net
  <2> DEFINE S == UpTo(day)
             U == UpTo(day - 1)
  <2>1. U \subseteq S /\ S \ U = On(day)
    BY DEF Listing
  <2>2. IsFiniteSet(S) /\ \A t \in S : Parts("net")[t] \in Int
    BY <1>3, PartType DEF Listing, Field
  <2>3. /\ Totals(S).net = Total(Parts("net"), S) /\ Totals(U).net = Total(Parts("net"), U)
        /\ Totals(On(day)).net = Total(Parts("net"), On(day))
    BY <1>3, NetIs
  <2> HIDE DEF S, U, UpTo, On
  <2>4. /\ Total(Parts("net"), S) = Total(Parts("net"), U) + Total(Parts("net"), S \ U)
        /\ Total(Parts("net"), U) \in Int /\ Total(Parts("net"), S \ U) \in Int
    BY <2>1, <2>2, TotalSplit
  <2>5. Totals(S).net = Totals(U).net + Totals(On(day)).net
        /\ Totals(U).net \in Int /\ Totals(On(day)).net \in Int
    BY <2>1, <2>3, <2>4
  <2>6. QED
    BY <2>5 DEF S, U
<1>5. UpTo(from - 1) = {} /\ UpTo(to) = rows
  BY <1>1, <1>2 DEF Listing
<1>6. Totals(UpTo(from - 1)).net = 0
  <2>1. Totals({}).net = Total(Parts("net"), {})
    BY NetIs
  <2>2. QED
    BY <1>5, <2>1, TotalOfNothing
<1>7. \A day \in D : day \in Int /\ (day < from => day = from - 1) /\ (~(day < from) => day - 1 \in D)
  BY <1>2
<1> HIDE DEF UpTo, On
<1>8. h = Step(h)
  <2>1. ASSUME NEW day \in D
        PROVE  h[day] = IF day < from THEN 0 ELSE h[day - 1] + Totals(On(day)).net
    <3>1. CASE day < from
      BY <1>6, <1>7, <3>1
    <3>2. CASE ~(day < from)
      <4>1. day \in Int /\ day - 1 \in D
        BY <1>7, <3>2
      <4>2. h[day - 1] = Totals(UpTo(day - 1)).net /\ h[day] = Totals(UpTo(day)).net
        BY <4>1
      <4>3. h[day] = h[day - 1] + Totals(On(day)).net
        BY <1>4, <4>1, <4>2
      <4>4. QED
        BY <3>2, <4>3
    <3>3. QED
      BY <3>1, <3>2
  <2>2. h = [day \in D |-> h[day]]
    OBVIOUS
  <2> HIDE DEF h, D
  <2>3. QED
    BY <2>1, <2>2
<1>9. Cumulative(range, rows) = CHOOSE f : f = Step(f)
  BY <1>1, Zenon DEF Cumulative, On
<1>10. PICK f : f = Step(f) /\ Cumulative(range, rows) = f
  <2> HIDE DEF h, Step
  <2>1. QED
    BY <1>8, <1>9
<1>11. \A day \in D : f[day] = IF day < from THEN 0 ELSE f[day - 1] + Totals(On(day)).net
  BY <1>10, Zenon
<1>12. \A day \in D : h[day] = IF day < from THEN 0 ELSE h[day - 1] + Totals(On(day)).net
  BY <1>8, Zenon
<1> DEFINE Bad == {n \in 0..(to - (from - 1)) : f[from - 1 + n] # h[from - 1 + n]}
<1>13. Bad = {}
  <2>1. SUFFICES ASSUME Bad # {} PROVE FALSE
    OBVIOUS
  <2>2. PICK n \in Bad : \A m \in Bad : n <= m
    <3>1. Bad \subseteq Nat
      OBVIOUS
    <3> HIDE DEF Bad
    <3>2. QED
      BY <2>1, <3>1, LeastNatural
  <2>3. PICK day : day = from - 1 + n
    OBVIOUS
  <2>4. n \in Int /\ day \in D /\ f[day] # h[day] /\ n >= 0 /\ n <= to - (from - 1)
    BY <1>2, <2>3
  <2> HIDE DEF h
  <2>5. ~(day < from)
    BY <1>11, <1>12, <2>4
  <2>6. n - 1 \in 0..(to - (from - 1)) /\ from - 1 + (n - 1) = day - 1 /\ n - 1 \notin Bad
    BY <1>2, <2>2, <2>3, <2>4, <2>5
  <2>7. f[day - 1] = h[day - 1]
    BY <2>6
  <2>8. QED
    BY <1>11, <1>12, <2>4, <2>5, <2>7
<1>14. f[to] = h[to]
  <2>1. PICK n : n = to - (from - 1)
    OBVIOUS
  <2>2. n \in 0..(to - (from - 1)) /\ from - 1 + n = to
    BY <1>2, <2>1
  <2>3. n \notin Bad
    BY <1>13
  <2> HIDE DEF h
  <2>4. f[from - 1 + n] = h[from - 1 + n]
    BY <2>2, <2>3
  <2>5. QED
    BY <2>2, <2>4
<1>15. h[to] = Totals(rows).net
  BY <1>2, <1>5
<1>16. QED
  BY <1>1, <1>10, <1>14, <1>15

LEMMA YearsAndDaysFit ==
  ASSUME NEW range \in DateRange, NEW rows, Listing(rows, range)
  PROVE  YearsAndDaysAddUp(range, rows)
<1>1. ASSUME NEW annual, annual = Annual(range, rows), NEW field \in Field
      PROVE  SumFunction([year \in DOMAIN annual |-> annual[year][field]]) = Totals(rows)[field]
  BY <1>1, YearsFit
<1>2. QED
  BY <1>1, CumulativeIs, Zenon DEF YearsAndDaysAddUp, Field

-----------------------------------------------------------------------------
(* Compositions *)

LEMMA MeasuredIs ==
  ASSUME NEW range, NEW rows, Listing(rows, range), NEW measure \in Measure
  PROVE  /\ measure \in Field /\ Measured(measure, rows) \subseteq rows
         /\ Listing(Measured(measure, rows), range)
         /\ Totals(Measured(measure, rows))[measure] = Totals(rows)[measure]
<1>1. measure \in Field
  BY DEF Measure, Field
<1>2. PICK taken : taken = Measured(measure, rows)
  OBVIOUS
<1>3. taken \subseteq rows
  BY <1>2 DEF Measured
<1>4. Listing(taken, range)
  BY <1>3, ListingPart
<1>5. \A t \in rows \ taken : Parts(measure)[t] = 0
  BY <1>2 DEF Measured, Measure, Parts, Part, Positive, Listing
<1>6. Total(Parts(measure), rows) = Total(Parts(measure), taken)
  BY <1>1, <1>3, <1>5, PartType, TotalWithoutZeros DEF Listing
<1>7. QED
  BY <1>1, <1>2, <1>3, <1>4, <1>6, TotalsAre DEF Listing

\* The entries of a composition add up, ...
LEMMA EntriesAddUp ==
  ASSUME NEW range, NEW rows, Listing(rows, range), NEW measure \in Measure,
         NEW taken, taken = Measured(measure, rows),
         NEW kind, NEW part, DOMAIN part = Groups(kind, taken),
         \A k \in DOMAIN part : part[k].amount = Totals(OfGroup(kind, taken, k))[measure]
  PROVE  SumFunction([k \in DOMAIN part |-> part[k].amount]) = Totals(rows)[measure]
<1>1. /\ measure \in Field /\ Listing(taken, range) /\ IsFiniteSet(taken)
      /\ Totals(taken)[measure] = Totals(rows)[measure]
  BY MeasuredIs DEF Listing
<1> DEFINE K == DOMAIN part
           sums == [k \in K |-> part[k].amount]
<1>2. IsFiniteSet(K) /\ \A t \in taken : kind[t] \in K
  BY <1>1, GroupsAreFinite DEF Groups
<1>3. DOMAIN sums = K /\ \A k \in K : sums[k] = Totals({t \in taken : kind[t] = k})[measure]
  BY DEF OfGroup
<1> HIDE DEF K, sums
<1>4. SumFunction(sums) = Totals(taken)[measure]
  BY <1>1, <1>2, <1>3, TotalsShared
<1>5. QED
  BY <1>1, <1>4 DEF sums, K

CountOf(part, identities) ==
  SumFunction([k \in {k \in DOMAIN part : k[1] \in identities} |-> part[k].count])

\* The rows with such keys
Named(kind, rows, identities) == {t \in rows : kind[t][1] \in identities}

\* ... and so do their counts, for some kinds of keys or for all.
LEMMA EntriesCount ==
  ASSUME NEW range, NEW rows, Listing(rows, range), NEW measure \in Measure,
         NEW all, all = Measured(measure, rows),
         NEW kind, NEW part, DOMAIN part = Groups(kind, all),
         \A k \in DOMAIN part : part[k].count = Cardinality(OfGroup(kind, all, k)),
         NEW identities
  PROVE  CountOf(part, identities) = Cardinality(Named(kind, all, identities))
<1> DEFINE taken == {t \in all : kind[t][1] \in identities}
           K == {k \in DOMAIN part : k[1] \in identities}
           one == [t \in taken |-> 1]
           sums == [k \in K |-> part[k].count]
<1>1. IsFiniteSet(taken)
  BY MeasuredIs, FS_Subset DEF Listing
<1>2. IsFiniteSet(K)
  <2>1. IsFiniteSet(all)
    BY MeasuredIs DEF Listing
  <2>2. IsFiniteSet(DOMAIN part)
    BY <2>1, GroupsAreFinite
  <2>3. QED
    BY <2>2, FS_Subset
<1>3. \A t \in taken : kind[t] \in K /\ one[t] = 1
  BY DEF Groups
<1>4. ASSUME NEW k \in K PROVE sums[k] = Total(one, OfGroup(kind, taken, k))
  <2>1. OfGroup(kind, taken, k) = OfGroup(kind, all, k)
    BY DEF OfGroup
  <2>2. sums[k] = Cardinality(OfGroup(kind, taken, k))
    BY <2>1
  <2>3. /\ IsFiniteSet(OfGroup(kind, taken, k))
        /\ \A t \in OfGroup(kind, taken, k) : one[t] = 1
    BY <1>1, FS_Subset DEF OfGroup
  <2> HIDE DEF one, taken, sums
  <2>4. QED
    BY <2>2, <2>3, TotalOfOnes
<1>5. DOMAIN sums = K
  OBVIOUS
<1> HIDE DEF taken, K, one, sums
<1>6. Total(sums, K) = Total(one, taken)
  <2>1. \A t \in taken : one[t] \in Int
    BY <1>3
  <2>2. QED
    BY <1>1, <1>2, <1>3, <1>4, <2>1, TotalShared
<1>7. SumFunction(sums) = Cardinality(taken)
  BY <1>1, <1>3, <1>5, <1>6, SumIs, TotalOfOnes
<1>8. QED
  BY <1>7 DEF sums, taken, K, CountOf, Named

LEMMA AmountsFit ==
  ASSUME NEW range, NEW rows, Listing(rows, range), NEW measure \in Measure,
         NEW part, part \in {CategoryRanked(measure, rows), SubcategoryRanked(measure, rows),
                             CategoryMonthly(measure, rows), SubcategoryMonthly(measure, rows)}
  PROVE  SumFunction([k \in DOMAIN part |-> part[k].amount]) = Totals(rows)[measure]
<1>1. PICK taken : taken = Measured(measure, rows)
  OBVIOUS
<1>2. CASE part = CategoryRanked(measure, rows)
  <2> DEFINE kind == [t \in taken |-> CategoryIdentity(t)]
  <2>1. DOMAIN part = Groups(kind, taken)
    BY <1>1, <1>2 DEF CategoryRanked, Collected, Groups
  <2>2. \A k \in DOMAIN part : part[k].amount = Totals(OfGroup(kind, taken, k))[measure]
    <3>1. ASSUME NEW k \in DOMAIN part
          PROVE  part[k].amount = Totals({t \in taken : CategoryIdentity(t) = k})[measure]
      BY <1>1, <1>2 DEF CategoryRanked, Collected
    <3>2. \A k : {t \in taken : CategoryIdentity(t) = k} = OfGroup(kind, taken, k)
      BY DEF OfGroup
    <3>3. QED
      BY <3>1, <3>2
  <2> HIDE DEF kind
  <2>3. QED
    BY <1>1, <2>1, <2>2, EntriesAddUp
<1>3. CASE part = SubcategoryRanked(measure, rows)
  <2> DEFINE kind == [t \in taken |-> SubcategoryIdentity(t)]
  <2>1. DOMAIN part = Groups(kind, taken)
    BY <1>1, <1>3 DEF SubcategoryRanked, Collected, Groups
  <2>2. \A k \in DOMAIN part : part[k].amount = Totals(OfGroup(kind, taken, k))[measure]
    <3>1. ASSUME NEW k \in DOMAIN part
          PROVE  part[k].amount = Totals({t \in taken : SubcategoryIdentity(t) = k})[measure]
      BY <1>1, <1>3 DEF SubcategoryRanked, Collected
    <3>2. \A k : {t \in taken : SubcategoryIdentity(t) = k} = OfGroup(kind, taken, k)
      BY DEF OfGroup
    <3>3. QED
      BY <3>1, <3>2
  <2> HIDE DEF kind
  <2>3. QED
    BY <1>1, <2>1, <2>2, EntriesAddUp
<1>4. CASE part = CategoryMonthly(measure, rows)
  <2> DEFINE kind == [t \in taken |-> <<Month(t), CategoryIdentity(t)>>]
  <2>1. DOMAIN part = Groups(kind, taken)
    BY <1>1, <1>4 DEF CategoryMonthly, Collected, Groups
  <2>2. \A k \in DOMAIN part : part[k].amount = Totals(OfGroup(kind, taken, k))[measure]
    <3>1. ASSUME NEW k \in DOMAIN part
          PROVE  part[k].amount
                   = Totals({t \in taken : <<Month(t), CategoryIdentity(t)>> = k})[measure]
      BY <1>1, <1>4 DEF CategoryMonthly, Collected
    <3>2. \A k : {t \in taken : <<Month(t), CategoryIdentity(t)>> = k} = OfGroup(kind, taken, k)
      BY DEF OfGroup
    <3>3. QED
      BY <3>1, <3>2
  <2> HIDE DEF kind
  <2>3. QED
    BY <1>1, <2>1, <2>2, EntriesAddUp
<1>5. CASE part = SubcategoryMonthly(measure, rows)
  <2> DEFINE kind == [t \in taken |-> <<Month(t), SubcategoryIdentity(t)>>]
  <2>1. DOMAIN part = Groups(kind, taken)
    BY <1>1, <1>5 DEF SubcategoryMonthly, Collected, Groups
  <2>2. \A k \in DOMAIN part : part[k].amount = Totals(OfGroup(kind, taken, k))[measure]
    <3>1. ASSUME NEW k \in DOMAIN part
          PROVE  part[k].amount
                   = Totals({t \in taken : <<Month(t), SubcategoryIdentity(t)>> = k})[measure]
      BY <1>1, <1>5 DEF SubcategoryMonthly, Collected
    <3>2. \A k : {t \in taken : <<Month(t), SubcategoryIdentity(t)>> = k} = OfGroup(kind, taken, k)
      BY DEF OfGroup
    <3>3. QED
      BY <3>1, <3>2
  <2> HIDE DEF kind
  <2>3. QED
    BY <1>1, <2>1, <2>2, EntriesAddUp
<1>6. QED
  BY <1>2, <1>3, <1>4, <1>5

LEMMA CountFits ==
  ASSUME NEW range, NEW rows, Listing(rows, range), NEW measure \in Measure, NEW identities,
         NEW ranked, ranked = SubcategoryRanked(measure, rows)
  PROVE  CountOf(ranked, identities)
           = Cardinality({t \in Measured(measure, rows) : SubcategoryIdentity(t)[1] \in identities})
<1>1. PICK taken : taken = Measured(measure, rows)
  OBVIOUS
<1> DEFINE kind == [t \in taken |-> SubcategoryIdentity(t)]
<1>2. DOMAIN ranked = Groups(kind, taken)
  BY <1>1 DEF SubcategoryRanked, Collected, Groups
<1>3. \A k \in DOMAIN ranked : ranked[k].count = Cardinality(OfGroup(kind, taken, k))
  <2>1. ASSUME NEW k \in DOMAIN ranked
        PROVE  ranked[k].count = Cardinality({t \in taken : SubcategoryIdentity(t) = k})
    BY <1>1 DEF SubcategoryRanked, Collected
  <2>2. \A k : {t \in taken : SubcategoryIdentity(t) = k} = OfGroup(kind, taken, k)
    BY DEF OfGroup
  <2>3. QED
    BY <2>1, <2>2
<1>4. Named(kind, taken, identities)
        = {t \in taken : SubcategoryIdentity(t)[1] \in identities}
  BY DEF Named
<1> HIDE DEF kind
<1>5. CountOf(ranked, identities) = Cardinality(Named(kind, taken, identities))
  BY <1>1, <1>2, <1>3, EntriesCount
<1>6. QED
  BY <1>1, <1>4, <1>5

\* A row is counted as income or as spending.
LEMMA RowsSplit ==
  ASSUME NEW range, NEW rows, Listing(rows, range), NEW S, S \subseteq rows
  PROVE  Cardinality({t \in Measured("income", rows) : t \in S})
           + Cardinality({t \in Measured("spending", rows) : t \in S}) = Cardinality(S)
<1> DEFINE A == {t \in Measured("income", rows) : t \in S}
           B == {t \in Measured("spending", rows) : t \in S}
           one == [t \in S |-> 1]
<1>1. B = S \ A /\ A \subseteq S
  BY DEF Measured, Listing
<1>2. IsFiniteSet(S)
  BY FS_Subset DEF Listing
<1>3. IsFiniteSet(A) /\ IsFiniteSet(B)
  <2> HIDE DEF A, B
  <2>1. QED
    BY <1>1, <1>2, FS_Subset
<1>4. \A t \in S : one[t] = 1 /\ one[t] \in Int
  OBVIOUS
<1> HIDE DEF A, B, one
<1>5. Total(one, S) = Total(one, A) + Total(one, B)
  BY <1>1, <1>2, <1>4, TotalSplit
<1>6. Total(one, S) = Cardinality(S)
  BY <1>2, <1>4, TotalOfOnes
<1>7. Total(one, A) = Cardinality(A) /\ Total(one, B) = Cardinality(B)
  <2>1. (\A t \in A : one[t] = 1) /\ \A t \in B : one[t] = 1
    BY <1>1, <1>4
  <2>2. QED
    BY <1>3, <2>1, TotalOfOnes
<1>8. QED
  BY <1>5, <1>6, <1>7 DEF A, B

LEMMA CompositionFits ==
  ASSUME NEW range, NEW rows, Listing(rows, range)
  PROVE  CompositionAddsUp(rows)
<1> DEFINE counted(identities) ==
             CountOf(SubcategoryRanked("income", rows), identities)
               + CountOf(SubcategoryRanked("spending", rows), identities)
           Of(identities) == {t \in rows : SubcategoryIdentity(t)[1] \in identities}
<1>1. ASSUME NEW identities PROVE counted(identities) = Cardinality(Of(identities))
  <2> DEFINE A == {t \in Measured("income", rows) : SubcategoryIdentity(t)[1] \in identities}
             B == {t \in Measured("spending", rows) : SubcategoryIdentity(t)[1] \in identities}
  <2>1. /\ CountOf(SubcategoryRanked("income", rows), identities) = Cardinality(A)
        /\ CountOf(SubcategoryRanked("spending", rows), identities) = Cardinality(B)
    <3>1. "income" \in Measure /\ "spending" \in Measure
      BY DEF Measure
    <3>2. QED
      BY <3>1, CountFits
  <2>2. /\ A = {t \in Measured("income", rows) : t \in Of(identities)}
        /\ B = {t \in Measured("spending", rows) : t \in Of(identities)}
    BY DEF Measured
  <2>3. Of(identities) \subseteq rows
    OBVIOUS
  <2> HIDE DEF A, B, Of
  <2>4. Cardinality(A) + Cardinality(B) = Cardinality(Of(identities))
    BY <2>2, <2>3, RowsSplit
  <2>5. QED
    BY <2>1, <2>4
<1>2. Of({"uncategorized"}) = {t \in rows : transactions[t].tag.category = None}
  BY DEF SubcategoryIdentity
<1>3. Of({"category-only"}) = {t \in rows : /\ transactions[t].tag.category # None
                                           /\ transactions[t].tag.subcategory = None}
  BY DEF SubcategoryIdentity
<1>4. Of({"uncategorized", "category-only", "subcategory"}) = rows
  BY DEF SubcategoryIdentity
<1>5. /\ counted({"uncategorized"}) = Quality(rows).uncategorized
      /\ counted({"category-only"}) = Quality(rows).categoryOnly
      /\ counted({"uncategorized", "category-only", "subcategory"}) = Quality(rows).transactions
  <2> HIDE DEF counted, Of
  <2>1. QED
    BY <1>1, <1>2, <1>3, <1>4 DEF Quality
<1>6. ASSUME NEW measure \in Measure,
             NEW part, part \in {CategoryRanked(measure, rows), SubcategoryRanked(measure, rows),
                                 CategoryMonthly(measure, rows), SubcategoryMonthly(measure, rows)}
      PROVE  SumFunction([k \in DOMAIN part |-> part[k].amount]) = Totals(rows)[measure]
  BY <1>6, AmountsFit
<1>7. QED
  BY <1>5, <1>6, Zenon DEF CompositionAddsUp, CountOf

\* Each part of a report adds up to its totals, for any transactions, any range
\* of dates and any taxonomy (build_dashboard).
THEOREM FiguresFit == Spec => []FiguresAddUp
<1>1. ASSUME TypeOK, FiniteLedger, NEW range \in DateRange,
             NEW rows, rows = CurrentRows(range, Everything)
      PROVE  SeriesAddUp(range, rows) /\ YearsAndDaysAddUp(range, rows) /\ CompositionAddsUp(rows)
  <2>1. Listing(rows, range)
    BY <1>1, RowsAre
  <2>2. QED
    BY <2>1, SeriesFit, YearsAndDaysFit, CompositionFits
<1>2. TypeOK /\ FiniteLedger => FiguresAddUp
  BY <1>1 DEF FiguresAddUp
<1>3. QED
  BY <1>2, TypeCorrect, LedgerIsFinite, PTL

-----------------------------------------------------------------------------
(* Figures in several reports *)

\* The rows of a range are those the report would find by their dates alone.
LEMMA CurrentIs ==
  ASSUME TypeOK, NEW range, range.from \in Dates, range.to \in Dates, range.from <= range.to,
         NEW filter
  PROVE  /\ CurrentRows(range, filter) = {t \in Reported(filter) : Within(t, range.from, range.to)}
         /\ PriorRows(range, filter)
              = {t \in Reported(filter) : Within(t, Prior(range).from, Prior(range).to)}
         /\ Prior(range).from \in Int /\ Prior(range).to \in Int
         /\ Prior(range).from <= Prior(range).to /\ Prior(range).to < range.from
<1>1. PICK from, to, a, b, w :
        /\ from = range.from /\ to = range.to /\ a = Prior(range).from /\ b = Prior(range).to
        /\ w = WindowStart(from, 12)
  OBVIOUS
<1>2. from \in Int /\ to \in Int /\ from <= to
  BY <1>1, DatesAre
<1>3. a = from - 1 - (to - from) /\ b = from - 1
  BY <1>1 DEF Prior
<1>4. a \in Int /\ b \in Int /\ a <= b /\ b < from
  BY <1>2, <1>3
<1>5. w \in Int
  <2>1. from \in Dates /\ 12 \in Int /\ 12 <= 12
    BY <1>1
  <2>2. QED
    BY <1>1, <1>2, <2>1, WindowsFollow
<1>6. PICK first : first = LoadedFrom(range)
  OBVIOUS
<1>7. first \in Int /\ first <= a
  <2>1. Min({a, w}) = IF a < w THEN a ELSE w
    BY <1>4, <1>5, GreatestOf
  <2>2. first = Min({a, w})
    BY <1>1, <1>6 DEF LoadedFrom
  <2>3. QED
    BY <1>4, <1>5, <2>1, <2>2
<1>8. ASSUME NEW t \in Reported(filter) PROVE transactions[t].date \in Int
  <2>1. transactions[t].date \in Nat
    BY <1>8, DayAssumption DEF Reported, Booked, TypeOK, Transaction
  <2>2. QED
    BY <2>1
<1>9. CurrentRows(range, filter) = {t \in Reported(filter) : Within(t, from, to)}
  <2>1. ASSUME NEW t \in Reported(filter)
        PROVE  Within(t, first, to) /\ transactions[t].date >= from <=> Within(t, from, to)
    BY <1>2, <1>4, <1>7, <1>8 DEF Within
  <2>2. QED
    BY <1>1, <1>6, <2>1 DEF CurrentRows, Loaded
<1>10. PriorRows(range, filter) = {t \in Reported(filter) : Within(t, a, b)}
  <2>1. ASSUME NEW t \in Reported(filter)
        PROVE  Within(t, first, to) /\ Within(t, a, b) <=> Within(t, a, b)
    BY <1>2, <1>4, <1>7, <1>8 DEF Within
  <2>2. QED
    BY <1>1, <1>6, <2>1 DEF PriorRows, Loaded
<1>11. QED
  BY <1>1, <1>4, <1>9, <1>10

\* The comparison shows the report of the range before.
LEMMA PriorAgrees ==
  ASSUME TypeOK, NEW range \in DateRange, NEW filter
  PROVE  PriorRows(range, filter) = CurrentRows(Prior(range), filter)
<1>1. range.from \in Dates /\ range.to \in Dates /\ range.from <= range.to
  BY RangeAssumption
<1>2. /\ PriorRows(range, filter)
           = {t \in Reported(filter) : Within(t, Prior(range).from, Prior(range).to)}
      /\ Prior(range).from \in Int /\ Prior(range).to \in Int
      /\ Prior(range).from <= Prior(range).to /\ Prior(range).to < range.from
  BY <1>1, CurrentIs
<1>3. PICK before : before = Prior(range)
  OBVIOUS
<1>4. before.from \in Dates
  BY <1>3, PriorAssumption
<1>5. before.to \in Dates
  <2>1. before.from <= before.to /\ before.to <= range.from /\ before.to \in Int
    BY <1>1, <1>2, <1>3, DatesAre
  <2>2. QED
    BY <1>1, <1>4, <2>1, DateBetween
<1>6. CurrentRows(before, filter)
        = {t \in Reported(filter) : Within(t, before.from, before.to)}
  BY <1>2, <1>3, <1>4, <1>5, CurrentIs
<1>7. QED
  BY <1>2, <1>3, <1>6

\* The older reports and the list of transactions find the same rows.
LEMMA ReportsFindTheRows ==
  ASSUME TypeOK, NEW range \in DateRange, NEW rows, rows = CurrentRows(range, Everything)
  PROVE  /\ ReportRows(Euro, range) = rows
         /\ ListedTotal(Euro, range) = Cardinality(rows)
         /\ \A filter : CurrentRows(range, filter)
                         = {t \in rows : Selected(transactions[t].tag, filter)}
<1>1. range.from \in Dates /\ range.to \in Dates /\ range.from <= range.to
  BY RangeAssumption
<1>2. \A filter : CurrentRows(range, filter)
                    = {t \in Reported(filter) : Within(t, range.from, range.to)}
  BY <1>1, CurrentIs
<1>3. \A tag : Selected(tag, Everything)
  BY DEF Selected, Everything
<1>4. ReportRows(Euro, range) = rows
  BY <1>2, <1>3 DEF ReportRows, Conditions, Reported
<1>5. {t \in Id : /\ Booked(t)
                  /\ transactions[t].standing = "included"
                  /\ transactions[t].currency = Euro
                  /\ Within(t, range.from, range.to)} = rows
  BY <1>2, <1>3 DEF Reported
<1>6. \A filter : CurrentRows(range, filter)
                    = {t \in rows : Selected(transactions[t].tag, filter)}
  BY <1>2, <1>3 DEF Reported
<1>7. QED
  BY <1>4, <1>5, <1>6 DEF ListedTotal

\* An identity of the composition stands for the labels of its rows.
LEMMA LabelsOf ==
  ASSUME NEW t, transactions[t].tag \in Tag
  PROVE  /\ Labelled(SubcategoryIdentity(t)).category = transactions[t].tag.category
         /\ Labelled(SubcategoryIdentity(t)).subcategory = transactions[t].tag.subcategory
<1>1. PICK tag : tag = transactions[t].tag
  OBVIOUS
<1>2. /\ tag.category \in Category \cup {None} /\ tag.subcategory \in Subcategory \cup {None}
      /\ tag.subcategory # None => tag.category = ParentOf[tag.subcategory] /\ tag.category # None
  <2>1. /\ tag.category \in Category \cup {None} /\ tag.subcategory \in Subcategory \cup {None}
        /\ tag.subcategory # None => tag.category = ParentOf[tag.subcategory]
    BY <1>1 DEF Tag, Labels
  <2>2. tag.subcategory # None => ParentOf[tag.subcategory] \in Category
    BY <2>1, ParentAssumption
  <2>3. None \notin Category
    BY DisjointAssumption DEF Item
  <2>4. QED
    BY <2>1, <2>2, <2>3
<1>3. CASE tag.category = None
  <2>1. SubcategoryIdentity(t) = <<"uncategorized">>
    BY <1>1, <1>3 DEF SubcategoryIdentity
  <2>2. QED
    BY <1>1, <1>2, <1>3, <2>1 DEF Labelled
<1>4. CASE tag.category # None /\ tag.subcategory = None
  <2>1. SubcategoryIdentity(t) = <<"category-only", tag.category>>
    BY <1>1, <1>4 DEF SubcategoryIdentity
  <2>2. QED
    BY <1>1, <1>4, <2>1 DEF Labelled
<1>5. CASE tag.category # None /\ tag.subcategory # None
  <2>1. SubcategoryIdentity(t) = <<"subcategory", tag.subcategory>>
    BY <1>1, <1>5 DEF SubcategoryIdentity
  <2>2. QED
    BY <1>1, <1>2, <1>5, <2>1 DEF Labelled
<1>6. QED
  BY <1>3, <1>4, <1>5

\* The composition of all rows shows what a filtered report would.
LEMMA FiltersAgree ==
  ASSUME TypeOK, NEW range \in DateRange, NEW rows, rows = CurrentRows(range, Everything),
         Listing(rows, range), NEW measure \in Measure, NEW filter,
         NEW ranked, ranked = SubcategoryRanked(measure, rows)
  PROVE  Totals(CurrentRows(range, filter))[measure]
           = SumFunction([k \in {k \in DOMAIN ranked : Selected(Labelled(k), filter)} |->
                            ranked[k].amount])
<1>1. PICK taken, mine, some :
        /\ taken = Measured(measure, rows) /\ mine = CurrentRows(range, filter)
        /\ some = Measured(measure, mine)
  OBVIOUS
<1>2. mine = {t \in rows : Selected(transactions[t].tag, filter)}
  BY <1>1, ReportsFindTheRows
<1>3. Listing(mine, range)
  BY <1>2, ListingPart
<1>4. /\ measure \in Field /\ Listing(some, range)
      /\ Totals(some)[measure] = Totals(mine)[measure] /\ taken \subseteq rows
      /\ IsFiniteSet(taken)
  BY <1>1, <1>3, MeasuredIs DEF Listing
<1>5. \A t \in rows : Selected(Labelled(SubcategoryIdentity(t)), filter)
                       <=> Selected(transactions[t].tag, filter)
  BY LabelsOf DEF Selected, Listing
<1>6. some = {t \in taken : Selected(Labelled(SubcategoryIdentity(t)), filter)}
  BY <1>1, <1>2, <1>5 DEF Measured
<1> DEFINE kind == [t \in taken |-> SubcategoryIdentity(t)]
           K == {k \in DOMAIN ranked : Selected(Labelled(k), filter)}
           sums == [k \in K |-> ranked[k].amount]
<1>7. DOMAIN ranked = Groups(kind, taken)
  BY <1>1 DEF SubcategoryRanked, Collected, Groups
<1>8. IsFiniteSet(K)
  <2>1. IsFiniteSet(Groups(kind, taken))
    <3> HIDE DEF kind
    <3>1. QED
      BY <1>4, GroupsAreFinite
  <2>2. QED
    BY <1>7, <2>1, FS_Subset
<1>9. \A t \in some : kind[t] \in K
  BY <1>6, <1>7 DEF Groups
<1>10. ASSUME NEW k \in K PROVE sums[k] = Totals({t \in some : kind[t] = k})[measure]
  <2>1. sums[k] = Totals({t \in taken : SubcategoryIdentity(t) = k})[measure]
    BY <1>1 DEF SubcategoryRanked, Collected
  <2>2. {t \in taken : SubcategoryIdentity(t) = k} = {t \in some : kind[t] = k}
    BY <1>6
  <2>3. QED
    BY <2>1, <2>2
<1>11. DOMAIN sums = K
  OBVIOUS
<1> HIDE DEF kind, K, sums
<1>12. SumFunction(sums) = Totals(some)[measure]
  BY <1>4, <1>8, <1>9, <1>10, <1>11, TotalsShared
<1>13. QED
  BY <1>1, <1>4, <1>12 DEF sums, K

\* The months of the series are those of the older trend, and are partial like
\* those of the composition.
LEMMA MonthsAgree ==
  ASSUME NEW range \in DateRange, NEW rows, Listing(rows, range),
         NEW months, months = Series("month", range, rows), NEW i \in DOMAIN months
  PROVE  /\ months[i].partial = MonthIsPartial(months[i].period, range)
         /\ months[i].totals.net
              = IF months[i].period \in {Month(t) : t \in rows}
                THEN Totals({t \in rows : Month(t) = months[i].period}).net ELSE 0
<1>1. PICK p, q : p = PeriodsOf("month", range) /\ q = p[i]
  OBVIOUS
<1>2. "month" \in Charted
  BY DEF Charted
<1>3. i \in 1..Len(p) /\ months[i] = Point("month", q, range, rows)
  BY <1>1, <1>2, SeriesShape
<1>4. q.start \in Int /\ q.end \in Int /\ range.from \in Int /\ range.to \in Int
  <2>1. q \in [start : Int, end : Int]
    BY <1>1, <1>2, <1>3, EndTiles
  <2>2. range.from \in Int /\ range.to \in Int
    BY <1>2, PeriodsTile
  <2>3. QED
    BY <2>1, <2>2
<1>5. months[i].period = q
  BY <1>3 DEF Point
<1>6. months[i].partial = MonthIsPartial(q, range)
  <2>1. Point("month", q, range, rows).partial
          = (Max({q.start, range.from}) # q.start \/ Min({q.end, range.to}) # q.end)
    BY DEF Point
  <2>2. PICK a \in Int, b \in Int, c \in Int, d \in Int :
          a = q.start /\ b = q.end /\ c = range.from /\ d = range.to
    BY <1>4
  <2>3. (Max({a, c}) # a \/ Min({b, d}) # b) <=> (c > a \/ d < b)
    <3>1. /\ Max({a, c}) = (IF a < c THEN c ELSE a)
          /\ Min({b, d}) = (IF b < d THEN b ELSE d)
      BY GreatestOf
    <3>2. QED
      BY <3>1
  <2>4. (Max({q.start, range.from}) # q.start \/ Min({q.end, range.to}) # q.end)
          = (range.from > q.start \/ range.to < q.end)
    BY <2>2, <2>3
  <2>5. QED
    BY <1>3, <2>1, <2>4, Zenon DEF MonthIsPartial
<1>7. months[i].totals.net = Totals({t \in rows : Month(t) = q}).net
  <2>1. ASSUME NEW t \in rows
        PROVE  Bounds("month", transactions[t].date).start = q.start <=> Month(t) = q
    <3>1. Month(t) = Bounds("month", transactions[t].date)
      BY DEF Month, Bounds
    <3>2. \A j \in 1..Len(p) : p[j].start = Bounds("month", transactions[t].date).start =>
                               p[j] = Bounds("month", transactions[t].date)
      BY <1>1, <1>2, TileIs DEF Listing
    <3>3. QED
      BY <1>1, <1>3, <3>1, <3>2
  <2>2. {t \in rows : Bounds("month", transactions[t].date).start = q.start}
          = {t \in rows : Month(t) = q}
    BY <2>1
  <2>3. months[i].totals
          = Totals({t \in rows : Bounds("month", transactions[t].date).start = q.start})
    BY <1>3 DEF Point
  <2>4. QED
    BY <2>2, <2>3
<1>8. CASE q \notin {Month(t) : t \in rows}
  <2>1. {t \in rows : Month(t) = q} = {}
    BY <1>8
  <2>2. Totals({}).net = 0
    BY NetIs, TotalOfNothing
  <2>3. QED
    BY <1>5, <1>6, <1>7, <1>8, <2>1, <2>2
<1>9. QED
  BY <1>5, <1>6, <1>7, <1>8

LEMMA CategoriesAgree ==
  ASSUME NEW range, NEW rows, Listing(rows, range), ReportRows(Euro, range) = rows,
         NEW c \in DOMAIN ReportCategories(Euro, range)
  PROVE  ReportCategories(Euro, range)[c]
           = CategoryRanked("spending", rows)[<<"category", c>>].amount
<1> DEFINE spent == {t \in rows : transactions[t].amount < 0 /\ transactions[t].tag.category # None}
           taken == Measured("spending", rows)
           key == <<"category", c>>
<1>1. /\ c \in {transactions[t].tag.category : t \in spent}
      /\ ReportCategories(Euro, range)[c]
           = Totals({t \in spent : transactions[t].tag.category = c}).spending
  BY DEF ReportCategories
<1>2. c # None
  BY <1>1
<1>3. {t \in taken : CategoryIdentity(t) = key} = {t \in spent : transactions[t].tag.category = c}
  BY <1>2 DEF Measured, CategoryIdentity
<1>4. key \in {CategoryIdentity(t) : t \in taken}
  BY <1>1, <1>3
<1>5. CategoryRanked("spending", rows)[key].amount
        = Totals({t \in taken : CategoryIdentity(t) = key})["spending"]
  <2> HIDE DEF key
  <2>1. QED
    BY <1>4 DEF CategoryRanked, Collected
<1>6. \A S : Totals(S)["spending"] = Totals(S).spending
  OBVIOUS
<1> HIDE DEF spent, taken
<1>7. QED
  BY <1>1, <1>3, <1>5

\* A figure does not depend on the report it is read in, for any transactions,
\* any range of dates and any taxonomy (build_dashboard and api/reporting.py).
THEOREM AllReportsAgree == Spec => []ReportsAgree
<1>1. ASSUME TypeOK, FiniteLedger, NEW range \in DateRange,
             NEW rows, rows = CurrentRows(range, Everything),
             NEW months, months = Series("month", range, rows),
             NEW trend, trend = ReportTrend(Euro, range)
      PROVE  /\ Totals(PriorRows(range, Everything)) = Totals(CurrentRows(Prior(range), Everything))
             /\ \A measure \in Measure :
                  LET ranked == SubcategoryRanked(measure, rows)
                  IN \A filter \in Selection :
                       Totals(CurrentRows(range, filter))[measure]
                         = SumFunction([k \in {k \in DOMAIN ranked : Selected(Labelled(k), filter)} |->
                                          ranked[k].amount])
             /\ \A i \in DOMAIN months :
                  /\ months[i].partial = MonthIsPartial(months[i].period, range)
                  /\ months[i].totals.net =
                       IF months[i].period \in DOMAIN trend THEN trend[months[i].period] ELSE 0
             /\ ReportSummary(Euro, range) = Summary(range, rows).totals
             /\ \A c \in DOMAIN ReportCategories(Euro, range) :
                  ReportCategories(Euro, range)[c]
                    = CategoryRanked("spending", rows)[<<"category", c>>].amount
             /\ ListedTotal(Euro, range) = Quality(rows).transactions
  <2>1. Listing(rows, range)
    BY <1>1, RowsAre
  <2>2. ReportRows(Euro, range) = rows /\ ListedTotal(Euro, range) = Cardinality(rows)
    BY <1>1, ReportsFindTheRows
  <2>3. Totals(PriorRows(range, Everything)) = Totals(CurrentRows(Prior(range), Everything))
    BY <1>1, PriorAgrees
  <2>4. ASSUME NEW measure \in Measure, NEW filter, NEW ranked, ranked = SubcategoryRanked(measure, rows)
        PROVE  Totals(CurrentRows(range, filter))[measure]
                 = SumFunction([k \in {k \in DOMAIN ranked : Selected(Labelled(k), filter)} |->
                                  ranked[k].amount])
    BY <1>1, <2>1, <2>4, FiltersAgree
  <2>5. ASSUME NEW i \in DOMAIN months
        PROVE  /\ months[i].partial = MonthIsPartial(months[i].period, range)
               /\ months[i].totals.net =
                    IF months[i].period \in DOMAIN trend THEN trend[months[i].period] ELSE 0
    <3>1. /\ months[i].partial = MonthIsPartial(months[i].period, range)
          /\ months[i].totals.net
               = IF months[i].period \in {Month(t) : t \in rows}
                 THEN Totals({t \in rows : Month(t) = months[i].period}).net ELSE 0
      BY <1>1, <2>1, MonthsAgree
    <3>2. trend = [month \in {Month(t) : t \in rows} |-> Totals({t \in rows : Month(t) = month}).net]
      BY <1>1, <2>2 DEF ReportTrend
    <3>3. QED
      BY <3>1, <3>2
  <2>6. ReportSummary(Euro, range) = Summary(range, rows).totals
    BY <2>2 DEF ReportSummary, Summary
  <2>7. \A c \in DOMAIN ReportCategories(Euro, range) :
          ReportCategories(Euro, range)[c]
            = CategoryRanked("spending", rows)[<<"category", c>>].amount
    BY <2>1, <2>2, CategoriesAgree
  <2>8. ListedTotal(Euro, range) = Quality(rows).transactions
    BY <2>2 DEF Quality
  <2>9. QED
    BY <2>3, <2>4, <2>5, <2>6, <2>7, <2>8
<1>2. TypeOK /\ FiniteLedger => ReportsAgree
  BY <1>1, Zenon DEF ReportsAgree
<1>3. QED
  BY <1>2, TypeCorrect, LedgerIsFinite, PTL

=============================================================================
