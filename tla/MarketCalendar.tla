--------------------------- MODULE MarketCalendar ---------------------------
(* src/market_calendar.py, with the counts guardrails.py takes from it: when  *)
(* a US market is open, and what falls past a month's last opportunity. A     *)
(* date is a day number, a moment an hour, both counted from 1 March of year  *)
(* 0, a Wednesday; a time of day is in minutes. Moments are UTC.              *)
EXTENDS Integers, FiniteSets

CONSTANTS
  Years,            \* the years dates may fall in
  ProjectOffset,    \* hours America/Chicago is behind UTC
  ExchangeOffset    \* hours America/New_York is behind UTC

ASSUME ClocksBehindUtc ==
  /\ Years \subseteq Nat
  /\ ProjectOffset \in 0 .. 12 /\ ExchangeOffset \in 0 .. 12

(* --- dates, as the standard library has them ------------------------------ *)

Date(year, month, day) ==
  LET y == IF month <= 2 THEN year - 1 ELSE year
      m == (month + 9) % 12
  IN 365 * y + y \div 4 - y \div 100 + y \div 400 + (153 * m + 2) \div 5 + day - 1

(* Years that begin in March, in eras of 400.                                 *)
MarchYear(date) ==
  LET e == date % 146097
  IN 400 * (date \div 146097) + (e - e \div 1460 + e \div 36524 - e \div 146096) \div 365
MonthOf(date) ==
  LET m == (5 * (date - Date(MarchYear(date), 3, 1)) + 2) \div 153
  IN IF m < 10 THEN m + 3 ELSE m - 9
YearOf(date) == MarchYear(date) + IF MonthOf(date) <= 2 THEN 1 ELSE 0
FirstOfNext(year, month) ==
  IF month = 12 THEN Date(year + 1, 1, 1) ELSE Date(year, month + 1, 1)
Weekday(date) == (date + 2) % 7
LastOfMonth(date) == FirstOfNext(YearOf(date), MonthOf(date)) - 1
FirstOfMonth(date) == Date(YearOf(date), MonthOf(date), 1)
DayOf(date) == date - FirstOfMonth(date) + 1
(* YYYY-MM, in an order-preserving number. *)
YearMonth(date) == 12 * YearOf(date) + MonthOf(date)

(* --- three clocks --------------------------------------------------------- *)

UtcDate(now) == now \div 24
ProjectDate(now) == (now - ProjectOffset) \div 24
ExchangeDate(now) == (now - ExchangeOffset) \div 24
ProjectMonth(now) == YearMonth(ProjectDate(now))

(* --- holidays ------------------------------------------------------------- *)

EasterSunday(year) ==
  LET a == year % 19
      b == year \div 100
      c == year % 100
      d == b \div 4
      e == b % 4
      f == (b + 8) \div 25
      g == (b - f + 1) \div 3
      h == (19 * a + b - d - g + 15) % 30
      i == c \div 4
      k == c % 4
      l == (32 + 2 * e + 2 * i - h - k) % 7
      m == (a + 11 * h + 22 * l) \div 451
      n == h + l - 7 * m + 114
  IN Date(year, n \div 31, (n % 31) + 1)

NthWeekday(year, month, weekday, n) ==
  LET first == Date(year, month, 1)
  IN first + ((weekday - Weekday(first)) % 7) + 7 * (n - 1)
LastWeekday(year, month, weekday) ==
  LET last == FirstOfNext(year, month) - 1 IN last - ((Weekday(last) - weekday) % 7)

(* Saturday holidays move to Friday, Sunday ones to Monday; a Saturday New    *)
(* Year's Day moves nowhere. *)
Observed(date) ==
  CASE Weekday(date) = 5 /\ date = Date(YearOf(date), 1, 1) -> {}
    [] Weekday(date) = 5 /\ date # Date(YearOf(date), 1, 1) -> {date - 1}
    [] Weekday(date) = 6 -> {date + 1}
    [] OTHER -> {date}

HolidaysOf(year) ==
  LET fixed == {Date(year, 1, 1), Date(year, 7, 4), Date(year, 12, 25)}
                 \cup (IF year >= 2022 THEN {Date(year, 6, 19)} ELSE {})
      moving == {NthWeekday(year, 1, 0, 3), NthWeekday(year, 2, 0, 3),
                 EasterSunday(year) - 2, LastWeekday(year, 5, 0),
                 NthWeekday(year, 9, 0, 1), NthWeekday(year, 11, 3, 4)}
  IN (UNION {Observed(d) : d \in fixed}) \cup moving
NyseHolidays == [year \in Years |-> HolidaysOf(year)]

EarlyClosesOf(year) ==
  {d \in {NthWeekday(year, 11, 3, 4) + 1, Date(year, 12, 24)}
           \cup (IF Weekday(Date(year, 7, 4)) < 5 THEN {Date(year, 7, 3)} ELSE {}) :
     Weekday(d) < 5 /\ d \notin NyseHolidays[year]}
NyseEarlyCloses == [year \in Years |-> EarlyClosesOf(year)]

(* A holiday falls, and is observed, in its own year. *)
Closures == UNION {NyseHolidays[year] : year \in Years}
IsTradingDay(date) == Weekday(date) < 5 /\ date \notin Closures
MarketClose(date) == IF date \in NyseEarlyCloses[YearOf(date)] THEN 13 * 60 ELSE 16 * 60
RegularOpen == 9 * 60 + 30

(* The search goes backwards, respectively forwards, a day at a time. *)
LastTradingDayOfMonth(date) ==
  CHOOSE d \in FirstOfMonth(date) .. LastOfMonth(date) :
    /\ IsTradingDay(d)
    /\ \A later \in d + 1 .. LastOfMonth(date) : ~IsTradingDay(later)
NextTradingDay(date) ==
  CHOOSE d \in date + 1 .. date + 7 :
    /\ IsTradingDay(d)
    /\ \A sooner \in date + 1 .. d - 1 : ~IsTradingDay(sooner)

(* --- the month boundary; a moment here is a pair <<date, seconds>> -------- *)

LateNight == 24 * 3600 - 1
After(p, q) == p[1] > q[1] \/ (p[1] = q[1] /\ p[2] > q[2])

(* The last moment of the month of `date` at which its budget could be used. *)
FinalOpportunity(date, assetClass) ==
  IF assetClass = "CRYPTO" THEN <<LastOfMonth(date), LateNight>>
  ELSE LET session == LastTradingDayOfMonth(date) IN <<session, 60 * MarketClose(session)>>

(* After the close is a second past it: the session is missed. *)
EventMoment(date, afterClose, assetClass) ==
  CASE ~afterClose -> <<date, 60 * RegularOpen>>
    [] afterClose /\ assetClass = "CRYPTO" -> <<date, 16 * 3600 + 1>>
    [] OTHER -> <<date, 60 * MarketClose(date) + 1>>

(* Mutant: a calendar month's end for every market. *)
ActionableUntilMonthEnd(date, assetClass, afterClose, reference) ==
  date <= LastOfMonth(reference)

ActionableThisMonth(date, assetClass, afterClose, reference) ==
  ~After(EventMoment(date, afterClose, assetClass), FinalOpportunity(reference, assetClass))

FirstActionableSession(date, assetClass, afterClose) ==
  IF assetClass = "CRYPTO" THEN date
  ELSE IF afterClose \/ ~IsTradingDay(date) THEN NextTradingDay(date)
  ELSE date

(* --- the two counts a purchase reports ------------------------------------ *)

(* Mutant: the count on UTC's date, as the code once had it. *)
DaysRemainingOnUtc(now) == LastOfMonth(UtcDate(now)) - UtcDate(now) + 1
DaysRemainingInMonth(now) == LastOfMonth(ProjectDate(now)) - ProjectDate(now) + 1
TradableSessionsRemaining(now) ==
  Cardinality({d \in ExchangeDate(now) .. LastOfMonth(ExchangeDate(now)) : IsTradingDay(d)})
=============================================================================
