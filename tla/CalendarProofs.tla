--------------------------- MODULE CalendarProofs ---------------------------
(* Proofs about the calendar's arithmetic, for every date: a date's month and *)
(* year can be told from the number of its month, whose first and last day it *)
(* therefore has in common with every other date of that number; and every    *)
(* month has a day on which the market is open.                               *)
EXTENDS MarketCalendar, TLAPS

(* Days w of a four-year run, the last of them a leap year: the quotient that *)
(* MarchYear takes is the year v of the run, and w is one of its 366 days. x  *)
(* is by how much the days before the run exceed the multiples of 1460.       *)
LEMMA FourYears ==
  ASSUME NEW w \in Int, 0 <= w, w <= 1460, NEW x \in Int, 0 <= x, x <= 96
  PROVE  \E v \in Int : /\ 0 <= v /\ v <= 3 /\ (w - ((x + w) \div 1460)) \div 365 = v
                        /\ 0 <= w - 365 * v /\ w - 365 * v <= 365
                        /\ w - 365 * v = 365 => v = 3 /\ w = 1460
<1> DEFINE k == (x + w) \div 1460
<1>1. k \in Int /\ 0 <= k /\ k <= 1 /\ (w < 1364 => k = 0) /\ (w = 1460 => k = 1)
  OBVIOUS
<1> HIDE DEF k
<1>2. CASE w < 365
  <2>1. (w - k) \div 365 = 0
    BY <1>1, <1>2
  <2>q. QED BY <1>2, <2>1 DEF k
<1>3. CASE 365 <= w /\ w <= 729
  <2>1. (w - k) \div 365 = 1
    BY <1>1, <1>3
  <2>q. QED BY <1>3, <2>1 DEF k
<1>4. CASE 730 <= w /\ w <= 1094
  <2>1. (w - k) \div 365 = 2
    BY <1>1, <1>4
  <2>q. QED BY <1>4, <2>1 DEF k
<1>5. CASE 1095 <= w
  <2>1. (w - k) \div 365 = 3
    BY <1>1, <1>5
  <2>q. QED BY <1>5, <2>1 DEF k
<1>q. QED BY <1>2, <1>3, <1>4, <1>5

(* The same of the days r of a century, the q-th of its era.                  *)
LEMMA Century ==
  ASSUME NEW q \in Int, 0 <= q, q <= 3, NEW r \in Int, 0 <= r, r <= 36523
  PROVE  \E z \in Int : /\ 0 <= z /\ z <= 99
                        /\ (r - ((24 * q + r) \div 1460)) \div 365 = z
                        /\ 0 <= r - 365 * z - (z \div 4) /\ r - 365 * z - (z \div 4) <= 365
                        /\ r - 365 * z - (z \div 4) = 365 => z % 4 = 3 /\ z # 99
<1> DEFINE s == r \div 1461
           w == r - 1461 * s
           x == 24 * q + s
           k == (x + w) \div 1460
<1>1. s \in Int /\ w \in Int /\ 0 <= s /\ s <= 24 /\ 0 <= w /\ w <= 1460 /\ r = 1461 * s + w
  OBVIOUS
<1>2. x \in Int /\ 0 <= x /\ x <= 96 /\ (s = 24 => w <= 1459)
  BY <1>1
<1>3. 24 * q + r = 1460 * s + (x + w)
  BY <1>1
<1> HIDE DEF s, w, x
<1>4. (24 * q + r) \div 1460 = s + k
  BY <1>1, <1>2, <1>3
<1>5. PICK v \in Int : /\ 0 <= v /\ v <= 3 /\ (w - k) \div 365 = v
                       /\ 0 <= w - 365 * v /\ w - 365 * v <= 365
                       /\ w - 365 * v = 365 => v = 3 /\ w = 1460
  BY <1>1, <1>2, FourYears
<1>6. k \in Int
  BY <1>1, <1>2
<1> HIDE DEF k
<1>7. r - (s + k) = 365 * (4 * s) + (w - k)
  BY <1>1, <1>6
<1>8. (r - (s + k)) \div 365 = 4 * s + v
  BY <1>1, <1>5, <1>6, <1>7
<1>9. (4 * s + v) \div 4 = s /\ (4 * s + v) % 4 = v
  BY <1>1, <1>5
<1>10. 4 * s + v \in Int /\ 0 <= 4 * s + v /\ 4 * s + v <= 99
       /\ r - 365 * (4 * s + v) - s = w - 365 * v
  BY <1>1, <1>5
<1> DEFINE z == 4 * s + v
<1>11. r - 365 * z - s = 365 => z % 4 = 3 /\ z # 99
  BY <1>1, <1>2, <1>5, <1>9, <1>10
<1>12. r - 365 * z - s = w - 365 * v /\ z \div 4 = s /\ (r - (s + k)) \div 365 = z
       /\ z \in Int /\ 0 <= z /\ z <= 99
  BY <1>8, <1>9, <1>10
<1> HIDE DEF z
<1>q. QED BY <1>4, <1>5, <1>11, <1>12

(* The same of the days of an era of 400 years, with its last leap day.       *)
LEMMA Era ==
  ASSUME NEW e \in Int, 0 <= e, e <= 146096
  PROVE  \E y \in Int :
           /\ 0 <= y /\ y <= 399
           /\ (e - (e \div 1460) + (e \div 36524) - (e \div 146096)) \div 365 = y
           /\ 0 <= e - (365 * y + (y \div 4) - (y \div 100))
           /\ e - (365 * y + (y \div 4) - (y \div 100)) <= 365
           /\ e - (365 * y + (y \div 4) - (y \div 100)) = 365 =>
                y % 4 = 3 /\ (y % 100 # 99 \/ y = 399)
<1>1. CASE e = 146096
  <2>1. e \div 1460 = 100 /\ e \div 36524 = 4 /\ e \div 146096 = 1
    BY <1>1
  <2>2. (e - 100 + 4 - 1) \div 365 = 399
    BY <1>1
  <2>3. 399 \div 4 = 99 /\ 399 \div 100 = 3 /\ 399 % 4 = 3
    OBVIOUS
  <2>4. 0 <= e - (365 * 399 + 99 - 3) /\ e - (365 * 399 + 99 - 3) <= 365
    BY <1>1
  <2>q. QED BY <2>1, <2>2, <2>3, <2>4
<1>2. CASE e < 146096
  <2> DEFINE q == e \div 36524
             r == e - 36524 * q
             k == (24 * q + r) \div 1460
  <2>1. q \in Int /\ 0 <= q /\ q <= 3 /\ r \in Int /\ 0 <= r /\ r <= 36523
        /\ e = 36524 * q + r /\ e \div 146096 = 0
    BY <1>2
  <2>2. PICK z \in Int : /\ 0 <= z /\ z <= 99 /\ (r - k) \div 365 = z
                         /\ 0 <= r - 365 * z - (z \div 4) /\ r - 365 * z - (z \div 4) <= 365
    BY <2>1, Century
  <2> HIDE DEF r
  <2>3. e \div 36524 = q /\ k \in Int
    BY <2>1
  <2> HIDE DEF q
  <2>4. e = 1460 * (25 * q) + (24 * q + r)
    BY <2>1
  <2>5. e \div 1460 = 25 * q + k
    BY <2>1, <2>4
  <2> HIDE DEF k
  <2>6. e - (25 * q + k) + q - 0 = 365 * (100 * q) + (r - k)
    BY <2>1, <2>3
  <2>7. (e - (25 * q + k) + q - 0) \div 365 = 100 * q + z
    BY <2>1, <2>2, <2>3, <2>6
  <2>8. (100 * q + z) \div 100 = q /\ (100 * q + z) % 100 = z
    BY <2>1, <2>2
  <2>9. (100 * q + z) \div 4 = 25 * q + (z \div 4) /\ (100 * q + z) % 4 = z % 4
    BY <2>1, <2>2
  <2>10. z \div 4 \in Int
    BY <2>2
  <2> DEFINE y == 100 * q + z
  <2>11. e - (365 * y + (25 * q + (z \div 4)) - q) = r - 365 * z - (z \div 4)
    BY <2>1, <2>2, <2>10
  <2>12. y \in Int /\ 0 <= y /\ y <= 399
    BY <2>1, <2>2
  <2>q. QED BY <2>1, <2>2, <2>3, <2>5, <2>7, <2>8, <2>9, <2>11, <2>12
<1>q. QED BY <1>1, <1>2

(* A date comes after the first of March that MarchYear puts it behind, and   *)
(* before the next.                                                           *)
LEMMA DayOfMarchYear ==
  ASSUME NEW d \in Int
  PROVE  LET n == d - Date(MarchYear(d), 3, 1)
         IN /\ MarchYear(d) \in Int /\ n \in Int /\ 0 <= n /\ n <= 365
            /\ d < Date(MarchYear(d) + 1, 3, 1)
<1> DEFINE c == d \div 146097
           e == d % 146097
<1>1. c \in Int /\ e \in Int /\ 0 <= e /\ e <= 146096 /\ d = 146097 * c + e
  OBVIOUS
<1>2. MarchYear(d) = 400 * c + ((e - (e \div 1460) + (e \div 36524) - (e \div 146096)) \div 365)
  BY DEF MarchYear
<1> HIDE DEF c, e
<1>3. PICK y \in Int :
           /\ 0 <= y /\ y <= 399
           /\ (e - (e \div 1460) + (e \div 36524) - (e \div 146096)) \div 365 = y
           /\ 0 <= e - (365 * y + (y \div 4) - (y \div 100))
           /\ e - (365 * y + (y \div 4) - (y \div 100)) <= 365
           /\ e - (365 * y + (y \div 4) - (y \div 100)) = 365 =>
                y % 4 = 3 /\ (y % 100 # 99 \/ y = 399)
  BY <1>1, Era
<1>4. MarchYear(d) = 400 * c + y
  BY <1>2, <1>3
<1> DEFINE EraYears == {x \in Int : 0 <= x /\ x <= 399}
           March(x) == 146097 * c + 365 * x + (x \div 4) - (x \div 100)
<1>5. ASSUME NEW x \in EraYears
      PROVE  Date(400 * c + x, 3, 1) = March(x)
  <2>1. (400 * c + x) \div 4 = 100 * c + (x \div 4) /\ (400 * c + x) \div 100 = 4 * c + (x \div 100)
        /\ (400 * c + x) \div 400 = c
    BY <1>1, <1>5
  <2>2. x \div 4 \in Int /\ x \div 100 \in Int
    BY <1>5
  <2>q. QED BY <1>1, <1>5, <2>1, <2>2 DEF Date
<1>6. Date(400 * c + 400, 3, 1) = 146097 * (c + 1)
  <2>1. (400 * c + 400) \div 4 = 100 * (c + 1) /\ (400 * c + 400) \div 100 = 4 * (c + 1)
        /\ (400 * c + 400) \div 400 = c + 1
    BY <1>1
  <2>q. QED BY <1>1, <2>1 DEF Date
<1>7. y \div 4 \in Int /\ y \div 100 \in Int
  BY <1>3
<1>8. Date(400 * c + y, 3, 1) = 146097 * c + 365 * y + (y \div 4) - (y \div 100)
  <2>1. y \in EraYears
    BY <1>3
  <2>2. Date(400 * c + y, 3, 1) = March(y)
    <3> HIDE DEF March, EraYears
    <3>q. QED BY <1>5, <2>1
  <2>q. QED BY <2>2
<1>9. d < Date(400 * c + y + 1, 3, 1)
  <2>1. CASE y = 399
    <3>1. 400 * c + y + 1 = 400 * c + 400
      BY <1>1, <2>1
    <3>2. d < 146097 * (c + 1)
      BY <1>1
    <3>q. QED BY <1>6, <3>1, <3>2
  <2>2. CASE y < 399
    <3>1. y + 1 \in Int /\ 0 <= y + 1 /\ y + 1 <= 399 /\ 400 * c + y + 1 = 400 * c + (y + 1)
      BY <1>1, <1>3, <2>2
    <3>2. Date(400 * c + (y + 1), 3, 1)
            = 146097 * c + 365 * (y + 1) + ((y + 1) \div 4) - ((y + 1) \div 100)
      <4>1. y + 1 \in EraYears
        BY <3>1
      <4>2. Date(400 * c + (y + 1), 3, 1) = March(y + 1)
        <5> HIDE DEF March, EraYears
        <5>q. QED BY <1>5, <4>1
      <4>q. QED BY <4>2
    <3>3. /\ (y + 1) \div 4 = (y \div 4) + (IF y % 4 = 3 THEN 1 ELSE 0)
          /\ (y + 1) \div 100 = (y \div 100) + (IF y % 100 = 99 THEN 1 ELSE 0)
          /\ y % 100 = 99 => y % 4 = 3
      BY <1>3
    <3>4. e < 365 * (y + 1) + ((y + 1) \div 4) - ((y + 1) \div 100)
      BY <1>1, <1>3, <1>7, <2>2, <3>3
    <3>5. (y + 1) \div 4 \in Int /\ (y + 1) \div 100 \in Int
      BY <1>3
    <3>q. QED BY ONLY <1>1, <1>3, <3>1, <3>2, <3>4, <3>5
  <2>q. QED BY <1>3, <2>1, <2>2
<1>q. QED BY ONLY <1>1, <1>3, <1>4, <1>7, <1>8, <1>9

(* Every date has one of twelve months.                                       *)
LEMMA MonthsAreTwelve ==
  ASSUME NEW d \in Int
  PROVE  MonthOf(d) \in 1 .. 12
<1> DEFINE n == d - Date(MarchYear(d), 3, 1)
           m == (5 * n + 2) \div 153
<1>1. n \in Int /\ 0 <= n /\ n <= 365
  BY DayOfMarchYear
<1> HIDE DEF n
<1>2. m \in Int /\ 0 <= m /\ m <= 11
  BY <1>1
<1>3. MonthOf(d) = IF m < 10 THEN m + 3 ELSE m - 9
  BY DEF MonthOf, n
<1> HIDE DEF m
<1>q. QED BY <1>2, <1>3

(* The month of a date is the m-th of a year that begins in March, and ends   *)
(* where the next one begins.                                                 *)
LEMMA MonthOfMarchYear ==
  ASSUME NEW d \in Int
  PROVE  \E y, m \in Int :
           LET Start(k) == Date(y, 3, 1) + ((153 * k + 2) \div 5)
           IN /\ 0 <= m /\ m <= 11 /\ Start(m) <= d
              /\ FirstOfMonth(d) = Start(m)
              /\ FirstOfNext(YearOf(d), MonthOf(d))
                   = IF m < 11 THEN Start(m + 1) ELSE Date(y + 1, 3, 1)
              /\ d < FirstOfNext(YearOf(d), MonthOf(d))
<1> DEFINE y == MarchYear(d)
           n == d - Date(y, 3, 1)
           m == (5 * n + 2) \div 153
<1>1. y \in Int /\ n \in Int /\ 0 <= n /\ n <= 365 /\ d < Date(y + 1, 3, 1)
  BY DayOfMarchYear
<1>2. Date(y, 3, 1) \in Int /\ d = Date(y, 3, 1) + n
  BY <1>1 DEF Date
<1>3. MonthOf(d) = IF m < 10 THEN m + 3 ELSE m - 9
  BY DEF MonthOf
<1> HIDE DEF n
<1>4. m \in Int /\ 0 <= m /\ m <= 11
      /\ (153 * m + 2) \div 5 <= n /\ n < (153 * (m + 1) + 2) \div 5
  BY <1>1
<1> HIDE DEF m, y
<1>5. YearOf(d) = IF m < 10 THEN y ELSE y + 1
  BY <1>1, <1>3, <1>4 DEF YearOf, y
<1>6. ASSUME NEW k \in Int, 0 <= k, k <= 9
      PROVE  Date(y, k + 3, 1) = Date(y, 3, 1) + ((153 * k + 2) \div 5)
  <2>1. (k + 3 + 9) % 12 = k /\ (3 + 9) % 12 = 0 /\ ~(k + 3 <= 2)
    BY <1>6
  <2>2. (153 * k + 2) \div 5 \in Int /\ (153 * 0 + 2) \div 5 = 0
    BY <1>6
  <2>q. QED BY <1>1, <1>6, <2>1, <2>2 DEF Date
<1>7. ASSUME NEW k \in Int, 10 <= k, k <= 11
      PROVE  Date(y + 1, k - 9, 1) = Date(y, 3, 1) + ((153 * k + 2) \div 5)
  <2>1. (k - 9 + 9) % 12 = k /\ (3 + 9) % 12 = 0 /\ k - 9 <= 2
    BY <1>7
  <2>2. (153 * k + 2) \div 5 \in Int /\ (153 * 0 + 2) \div 5 = 0
    BY <1>7
  <2>q. QED BY <1>1, <1>7, <2>1, <2>2 DEF Date
<1>8. FirstOfMonth(d) = Date(y, 3, 1) + ((153 * m + 2) \div 5)
  <2>1. CASE m < 10
    BY <1>3, <1>4, <1>5, <1>6, <2>1 DEF FirstOfMonth
  <2>2. CASE 10 <= m
    BY <1>3, <1>4, <1>5, <1>7, <2>2 DEF FirstOfMonth
  <2>q. QED BY <1>4, <2>1, <2>2
<1>9. FirstOfNext(YearOf(d), MonthOf(d))
        = IF m < 11 THEN Date(y, 3, 1) + ((153 * (m + 1) + 2) \div 5) ELSE Date(y + 1, 3, 1)
  <2>1. CASE m < 9
    <3>1. Date(y, m + 1 + 3, 1) = Date(y, 3, 1) + ((153 * (m + 1) + 2) \div 5)
      BY <1>4, <1>6, <2>1
    <3>2. YearOf(d) = y /\ MonthOf(d) # 12 /\ MonthOf(d) + 1 = m + 1 + 3
      BY <1>3, <1>4, <1>5, <2>1
    <3>3. FirstOfNext(YearOf(d), MonthOf(d)) = Date(y, 3, 1) + ((153 * (m + 1) + 2) \div 5)
      BY <3>1, <3>2 DEF FirstOfNext
    <3>q. QED BY <1>4, <2>1, <3>3
  <2>2. CASE m = 9
    <3>1. Date(y + 1, 10 - 9, 1) = Date(y, 3, 1) + ((153 * 10 + 2) \div 5)
      BY <1>7
    <3>2. FirstOfNext(YearOf(d), MonthOf(d)) = Date(y + 1, 1, 1)
      BY <1>3, <1>5, <2>2 DEF FirstOfNext
    <3>q. QED BY <2>2, <3>1, <3>2
  <2>3. CASE m = 10
    <3>1. Date(y + 1, 11 - 9, 1) = Date(y, 3, 1) + ((153 * 11 + 2) \div 5)
      BY <1>7
    <3>2. FirstOfNext(YearOf(d), MonthOf(d)) = Date(y + 1, 2, 1)
      BY <1>3, <1>5, <2>3 DEF FirstOfNext
    <3>q. QED BY <2>3, <3>1, <3>2
  <2>4. CASE m = 11
    BY <1>3, <1>5, <2>4 DEF FirstOfNext
  <2>q. QED BY <1>4, <2>1, <2>2, <2>3, <2>4
<1>10. d < FirstOfNext(YearOf(d), MonthOf(d))
  BY <1>1, <1>2, <1>4, <1>9
<1>q. QED BY <1>1, <1>2, <1>4, <1>8, <1>9, <1>10

(* A date lies between the first and the last day of its month, in any year,  *)
(* leap or not: what the counts of days and sessions left are taken from.     *)
THEOREM DatesAreInTheirMonths ==
  ASSUME NEW d \in Int
  PROVE  FirstOfMonth(d) <= d /\ d <= LastOfMonth(d)
<1>1. PICK y, m \in Int :
        LET Start(k) == Date(y, 3, 1) + ((153 * k + 2) \div 5)
        IN /\ 0 <= m /\ m <= 11 /\ Start(m) <= d
           /\ FirstOfMonth(d) = Start(m)
           /\ FirstOfNext(YearOf(d), MonthOf(d))
                = IF m < 11 THEN Start(m + 1) ELSE Date(y + 1, 3, 1)
           /\ d < FirstOfNext(YearOf(d), MonthOf(d))
  BY MonthOfMarchYear
<1>2. Date(y, 3, 1) \in Int /\ Date(y + 1, 3, 1) \in Int
  BY DEF Date
<1>3. FirstOfNext(YearOf(d), MonthOf(d)) \in Int
  BY <1>1, <1>2
<1>q. QED BY <1>1, <1>3 DEF LastOfMonth

(* Two dates with one YYYY-MM are of one year and one month, which begins and *)
(* ends for both on the same days.                                            *)
LEMMA SameMonth ==
  ASSUME NEW d \in Int, NEW e \in Int, YearMonth(d) = YearMonth(e)
  PROVE  /\ YearOf(d) = YearOf(e) /\ MonthOf(d) = MonthOf(e)
         /\ FirstOfMonth(d) = FirstOfMonth(e) /\ LastOfMonth(d) = LastOfMonth(e)
<1>1. MonthOf(d) \in 1 .. 12 /\ MonthOf(e) \in 1 .. 12
  BY MonthsAreTwelve
<1>2. \A c \in Int : YearOf(c) \in Int
  <2>1. \A c \in Int : MarchYear(c) \in Int
    BY DEF MarchYear
  <2>q. QED BY <2>1 DEF YearOf
<1>3. 12 * YearOf(d) + MonthOf(d) = 12 * YearOf(e) + MonthOf(e)
  BY DEF YearMonth
<1>4. YearOf(d) \in Int /\ YearOf(e) \in Int /\ MonthOf(d) \in Int /\ MonthOf(e) \in Int
      /\ 1 <= MonthOf(d) /\ MonthOf(d) <= 12 /\ 1 <= MonthOf(e) /\ MonthOf(e) <= 12
  BY <1>1, <1>2
<1>5. YearOf(d) = YearOf(e) /\ MonthOf(d) = MonthOf(e)
  BY ONLY <1>3, <1>4
<1>q. QED BY <1>5 DEF FirstOfMonth, LastOfMonth

(* --- the sessions of a month ------------------------------------------------ *)

(* From one March to another is a year at least.                              *)
LEMMA MarchesApart ==
  ASSUME NEW a \in Int, NEW b \in Int, a < b
  PROVE  Date(a, 3, 1) + 365 <= Date(b, 3, 1)
<1> DEFINE q == a \div 400
           r == a % 400
           s == b \div 400
           t == b % 400
<1>1. /\ q \in Int /\ r \in Int /\ 0 <= r /\ r <= 399 /\ a = 400 * q + r
      /\ s \in Int /\ t \in Int /\ 0 <= t /\ t <= 399 /\ b = 400 * s + t
  OBVIOUS
<1> HIDE DEF q, r, s, t
<1>2. ASSUME NEW c \in Int, NEW x \in Int, 0 <= x, x <= 399
      PROVE  /\ Date(400 * c + x, 3, 1) = 146097 * c + 365 * x + ((x \div 4) - (x \div 100))
             /\ x \div 4 \in Int /\ x \div 100 \in Int
             /\ 0 <= (x \div 4) - (x \div 100) /\ (x \div 4) - (x \div 100) <= 96
  <2>1. (400 * c + x) \div 4 = 100 * c + (x \div 4) /\ (400 * c + x) \div 100 = 4 * c + (x \div 100)
        /\ (400 * c + x) \div 400 = c
    BY <1>2
  <2>2. x \div 4 \in Int /\ x \div 100 \in Int
    BY <1>2
  <2>3. Date(400 * c + x, 3, 1) = 146097 * c + 365 * x + ((x \div 4) - (x \div 100))
    BY <1>2, <2>1, <2>2 DEF Date
  <2>4. 0 <= (x \div 4) - (x \div 100) /\ (x \div 4) - (x \div 100) <= 96
    BY <1>2
  <2>q. QED BY <2>2, <2>3, <2>4
<1> DEFINE g(x) == (x \div 4) - (x \div 100)
<1>3. /\ Date(a, 3, 1) = 146097 * q + 365 * r + g(r) /\ Date(b, 3, 1) = 146097 * s + 365 * t + g(t)
      /\ g(r) \in Int /\ g(t) \in Int /\ 0 <= g(r) /\ g(r) <= 96 /\ 0 <= g(t) /\ g(t) <= 96
  BY <1>1, <1>2
<1>4. q < s \/ (q = s /\ r < t)
  BY <1>1
<1>5. r <= t => g(r) <= g(t)
  BY <1>1
<1> HIDE DEF g
<1>6. CASE q < s
  BY <1>1, <1>3, <1>6
<1>7. CASE q = s /\ r < t
  BY <1>1, <1>3, <1>5, <1>7
<1>q. QED BY <1>4, <1>6, <1>7

(* The weekday that is asked for is the weekday that is found.                *)
LEMMA WeekdayIsFound ==
  ASSUME NEW first \in Int, NEW w \in Int, 0 <= w, w <= 6
  PROVE  /\ Weekday(first + ((w - Weekday(first)) % 7)) = w
         /\ Weekday(first - ((Weekday(first) - w) % 7)) = w
         /\ \A k \in Int : Weekday(first + 7 * k) = Weekday(first)
         /\ (w - Weekday(first)) % 7 \in Int
         /\ 0 <= (w - Weekday(first)) % 7 /\ (w - Weekday(first)) % 7 <= 6
BY DEF Weekday

(* Easter is in the 62 days that begin with March.                            *)
LEMMA EasterInSpring ==
  ASSUME NEW year \in Int
  PROVE  \E n \in Int : 0 <= n /\ n <= 61 /\ EasterSunday(year) = Date(year, 3, 1) + n
<1> DEFINE a == year % 19
      b == year \div 100
      c == year % 100
      d == b \div 4
      e == b % 4
      f == (b + 8) \div 25
      g == (b - f + 1) \div 3
      h == (19 * a + b - d - g + 15) % 30
      i == c \div 4
      k == c % 4
      l == (32 + 2 * e + 2 * i - h - k) % 7
      m == (a + 11 * h + 22 * l) \div 451
      n == h + l - 7 * m + 114
<1>1. a \in Int /\ 0 <= a /\ a <= 18
  OBVIOUS
<1>2. b \in Int /\ d \in Int /\ g \in Int /\ e \in Int /\ i \in Int /\ k \in Int
  OBVIOUS
<1> HIDE DEF a, b, d, g, e, i, k
<1>3. h \in Int /\ 0 <= h /\ h <= 29
  BY <1>1, <1>2
<1> HIDE DEF h
<1>4. l \in Int /\ 0 <= l /\ l <= 6
  BY <1>2, <1>3
<1> HIDE DEF l
<1>5. n \in Int /\ 93 <= n /\ n <= 154
  BY <1>1, <1>3, <1>4
<1>6. EasterSunday(year) = Date(year, n \div 31, (n % 31) + 1)
  BY DEF EasterSunday, a, b, d, g, e, i, k, h, l
<1> HIDE DEF n
<1>7. n \div 31 \in {3, 4} /\ n % 31 \in Int /\ 0 <= n % 31 /\ n % 31 <= 30
  BY <1>5
<1>8. ASSUME NEW x \in Int
      PROVE  /\ Date(year, 3, x + 1) = Date(year, 3, 1) + x
             /\ Date(year, 4, x + 1) = Date(year, 3, 1) + 31 + x
  BY DEF Date
<1> DEFINE x == n % 31
<1>9. CASE n \div 31 = 3
  <2>1. EasterSunday(year) = Date(year, 3, 1) + x /\ x \in Int /\ 0 <= x /\ x <= 61
    BY <1>6, <1>7, <1>8, <1>9
  <2>q. QED BY <2>1
<1>10. CASE n \div 31 = 4
  <2>1. EasterSunday(year) = Date(year, 3, 1) + (31 + x) /\ 31 + x \in Int
        /\ 0 <= 31 + x /\ 31 + x <= 61
    <3>1. EasterSunday(year) = Date(year, 4, x + 1) /\ x \in Int /\ 0 <= x /\ x <= 30
      BY <1>6, <1>7, <1>10
    <3>2. Date(year, 3, 1) \in Int
      BY DEF Date
    <3> HIDE DEF x
    <3>3. Date(year, 4, x + 1) = Date(year, 3, 1) + 31 + x
      BY <1>8, <3>1
    <3>q. QED BY <3>1, <3>2, <3>3
  <2>q. QED BY <2>1
<1>q. QED BY <1>7, <1>9, <1>10

(* A Tuesday or Wednesday between the 8th and the 15th of a month, the m-th   *)
(* from March, is a holiday of no year but for Good Friday's date.            *)
LEMMA MidMonthIsOpen ==
  ASSUME NEW y \in Int, NEW m \in Int, 0 <= m, m <= 11, NEW n \in Int,
         LET start == (153 * m + 2) \div 5 IN start + 7 <= n /\ n <= start + 14,
         NEW t, t = Date(y, 3, 1) + n, Weekday(t) \in {1, 2},
         NEW z \in Int, t \in HolidaysOf(z)
  PROVE  z = y /\ t = EasterSunday(y) - 2
<1> DEFINE March(x) == Date(x, 3, 1)
<1>1. /\ 7 <= n /\ n <= 351
      /\ n < 109 \/ n > 111
      /\ n < 124 \/ n > 126
      /\ n < 298 \/ n > 300
      /\ n < 305 \/ n > 307
  OBVIOUS
<1>2. \A x \in Int : March(x) \in Int
  BY DEF Date
<1>3. ASSUME NEW x \in Int
      PROVE  /\ (x < y => March(x) + 365 <= March(y))
             /\ (y < x => March(y) + 365 <= March(x))
  BY <1>3, MarchesApart
<1>4. /\ Date(z, 7, 4) = March(z) + 125 /\ Date(z, 6, 19) = March(z) + 110
      /\ Date(z, 12, 25) = March(z) + 299 /\ Date(z, 1, 1) = March(z - 1) + 306
  BY DEF Date
<1> HIDE DEF March
<1>5. ASSUME NEW x \in Int, NEW o \in {110, 125, 299, 306}, NEW k \in {-1, 0, 1}
      PROVE  t # March(x) + o + k
  <2>1. March(x) \in Int /\ March(y) \in Int /\ t = March(y) + n
    BY <1>2 DEF March
  <2>2. /\ x < y => March(x) + 365 <= March(y)
        /\ y < x => March(y) + 365 <= March(x)
    BY <1>3
  <2>3. CASE x = y
    BY <1>1, <2>1, <2>3
  <2>q. QED BY <1>1, <2>1, <2>2, <2>3
<1>6. ASSUME NEW d, t \in Observed(d),
             d \in {Date(z, 1, 1), Date(z, 7, 4), Date(z, 12, 25), Date(z, 6, 19)}
      PROVE  FALSE
  <2>1. PICK x \in Int, o \in {110, 125, 299, 306} : d = March(x) + o
    BY <1>4, <1>6
  <2>2. PICK k \in {-1, 0, 1} : t = d + k
    <3>1. d \in Int
      BY <1>2, <2>1
    <3>2. t \in {d - 1, d, d + 1}
      BY <1>6 DEF Observed
    <3>q. QED BY <3>1, <3>2
  <2>3. t = March(x) + o + k
    BY <2>1, <2>2
  <2>q. QED BY <1>5, <2>3
<1>7. ASSUME NEW q \in Int, NEW month \in Int, NEW w \in {0, 3}
      PROVE  t # NthWeekday(z, month, w, q)
  <2>1. PICK first \in Int : first = Date(z, month, 1)
    BY DEF Date
  <2> DEFINE s == first + ((w - Weekday(first)) % 7)
  <2>2. s \in Int /\ Weekday(s) = w
    <3>1. w \in Int /\ 0 <= w /\ w <= 6
      OBVIOUS
    <3>2. PICK v \in Int : v = w /\ 0 <= v /\ v <= 6
      BY <3>1
    <3>3. /\ Weekday(first + ((v - Weekday(first)) % 7)) = v
          /\ (v - Weekday(first)) % 7 \in Int
      BY <3>2, WeekdayIsFound
    <3>q. QED BY <3>2, <3>3
  <2>3. NthWeekday(z, month, w, q) = s + 7 * (q - 1)
    BY <2>1 DEF NthWeekday
  <2> HIDE DEF s
  <2>4. Weekday(s + 7 * (q - 1)) = w
    <3>1. q - 1 \in Int /\ w \in Int /\ 0 <= w /\ w <= 6
      OBVIOUS
    <3>q. QED BY <2>2, <3>1, WeekdayIsFound
  <2>5. w \notin {1, 2}
    OBVIOUS
  <2>q. QED BY <2>3, <2>4, <2>5
<1>8. t # LastWeekday(z, 5, 0)
  <2>1. PICK last \in Int : last = FirstOfNext(z, 5) - 1
    BY DEF FirstOfNext, Date
  <2>2. LastWeekday(z, 5, 0) = last - ((Weekday(last) - 0) % 7)
    BY <2>1 DEF LastWeekday
  <2>3. Weekday(last - ((Weekday(last) - 0) % 7)) = 0
    BY WeekdayIsFound
  <2>q. QED BY <2>2, <2>3
<1>9. t = EasterSunday(z) - 2
  <2> DEFINE fixed == {Date(z, 1, 1), Date(z, 7, 4), Date(z, 12, 25)}
                        \cup (IF z >= 2022 THEN {Date(z, 6, 19)} ELSE {})
             moving == {NthWeekday(z, 1, 0, 3), NthWeekday(z, 2, 0, 3),
                        EasterSunday(z) - 2, LastWeekday(z, 5, 0),
                        NthWeekday(z, 9, 0, 1), NthWeekday(z, 11, 3, 4)}
  <2> DEFINE observed == {Observed(d) : d \in fixed}
  <2>1. t \in UNION observed \/ t \in moving
    <3>1. HolidaysOf(z) = (UNION observed) \cup moving
      BY DEF HolidaysOf
    <3>2. t \in HolidaysOf(z)
      OBVIOUS
    <3> HIDE DEF fixed, observed, moving
    <3>q. QED BY ONLY <3>1, <3>2
  <2>2. \A d \in fixed : t \notin Observed(d)
    BY <1>6
  <2>3. t \in moving
    <3> HIDE DEF fixed, moving
    <3>q. QED BY <2>1, <2>2
  <2>q. QED BY <1>7, <1>8, <2>3
<1>10. PICK e \in Int : 0 <= e /\ e <= 61 /\ EasterSunday(z) = March(z) + e
  BY EasterInSpring DEF March
<1>11. z = y
  <2>1. March(z) \in Int /\ March(y) \in Int /\ t = March(y) + n
    BY <1>2 DEF March
  <2>2. /\ z < y => March(z) + 365 <= March(y)
        /\ y < z => March(y) + 365 <= March(z)
    BY <1>3
  <2>q. QED BY <1>1, <1>9, <1>10, <2>1, <2>2
<1>q. QED BY <1>9, <1>11

(* In every month, of any year, the market is open on some day: the search    *)
(* backwards from a month's last day for its last session ends in that month  *)
(* (last_trading_day_of_month), whatever the years whose holidays are listed. *)
THEOREM EveryMonthHasASession ==
  ASSUME NEW date \in Int
  PROVE  \E d \in FirstOfMonth(date) .. LastOfMonth(date) : IsTradingDay(d)
<1>1. PICK y, m \in Int :
        LET Start(k) == Date(y, 3, 1) + ((153 * k + 2) \div 5)
        IN /\ 0 <= m /\ m <= 11 /\ Start(m) <= date
           /\ FirstOfMonth(date) = Start(m)
           /\ FirstOfNext(YearOf(date), MonthOf(date))
                = IF m < 11 THEN Start(m + 1) ELSE Date(y + 1, 3, 1)
           /\ date < FirstOfNext(YearOf(date), MonthOf(date))
  BY MonthOfMarchYear
<1> DEFINE start == (153 * m + 2) \div 5
           first == Date(y, 3, 1) + start
<1>2. Date(y, 3, 1) \in Int /\ Date(y, 3, 1) + 365 <= Date(y + 1, 3, 1) /\ Date(y + 1, 3, 1) \in Int
  <2>1. \A x \in Int : Date(x, 3, 1) \in Int
    BY DEF Date
  <2>q. QED BY <2>1, MarchesApart
<1>3. start \in Int /\ (m < 11 => start + 28 <= (153 * (m + 1) + 2) \div 5) /\ start <= 337
  BY <1>1
<1>4. FirstOfMonth(date) = first /\ first + 27 <= LastOfMonth(date) /\ first \in Int
      /\ LastOfMonth(date) \in Int
  BY <1>1, <1>2, <1>3 DEF LastOfMonth
<1> DEFINE shift == (1 - Weekday(first + 7)) % 7
           t == first + 7 + shift
<1>5. shift \in Int /\ 0 <= shift /\ shift <= 6 /\ Weekday(t) = 1
  <2>1. first + 7 \in Int
    BY <1>4
  <2>q. QED BY <2>1, WeekdayIsFound
<1>6. t \in Int /\ Weekday(t + 1) = 2
  <2>1. t \in Int
    BY <1>4, <1>5
  <2> HIDE DEF t
  <2>q. QED BY <1>5, <2>1 DEF Weekday
<1> DEFINE n == start + 7 + shift
<1>7. t = Date(y, 3, 1) + n /\ t + 1 = Date(y, 3, 1) + (n + 1)
  BY <1>2, <1>3, <1>5
<1>8. n \in Int /\ start + 7 <= n /\ n + 1 <= start + 14
  BY <1>3, <1>5
<1>9. ASSUME NEW z \in Int, t \in HolidaysOf(z) PROVE t = EasterSunday(y) - 2
  <2> HIDE DEF t, n
  <2>1. start + 7 <= n /\ n <= start + 14
    BY <1>3, <1>8
  <2>q. QED BY <1>1, <1>5, <1>7, <1>8, <1>9, <2>1, MidMonthIsOpen
<1>10. ASSUME NEW z \in Int, t + 1 \in HolidaysOf(z) PROVE t + 1 = EasterSunday(y) - 2
  <2> HIDE DEF t, n
  <2>1. start + 7 <= n + 1 /\ n + 1 <= start + 14 /\ n + 1 \in Int
    BY <1>3, <1>8
  <2>2. PICK u, k : u = t + 1 /\ k = n + 1
    OBVIOUS
  <2>q. QED BY <1>1, <1>6, <1>7, <1>10, <2>1, <2>2, MidMonthIsOpen
<1>11. \A d : d \in Closures => \E z \in Int : d \in HolidaysOf(z)
  BY ClocksBehindUtc DEF Closures, NyseHolidays
<1>12. t \notin Closures \/ t + 1 \notin Closures
  <2> HIDE DEF t
  <2>q. QED BY <1>6, <1>9, <1>10, <1>11
<1>13. t \in FirstOfMonth(date) .. LastOfMonth(date) /\ t + 1 \in FirstOfMonth(date) .. LastOfMonth(date)
  BY <1>4, <1>5
<1> HIDE DEF t
<1>q. QED BY <1>5, <1>6, <1>12, <1>13 DEF IsTradingDay


=============================================================================
