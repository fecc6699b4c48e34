------------------------------ MODULE RulesProofs ------------------------------
(***************************************************************************)
(* That the search for the next fire of a cron finds the next fire, that a *)
(* job is called stale only once it is due and not after its service level *)
(* was set as advised, which runs count as scheduled and which fire each   *)
(* is matched to, that the copies of the rule for a project agree, that    *)
(* the figures of the pages and of the assistant are one set whose parts   *)
(* add up, that the lists and the timelines of issues keep what they may   *)
(* not lose, that the check of a form foretells what its save binds, and   *)
(* that what becomes of a draft is what the document and CML give: for     *)
(* every calendar, cron, user, world, set of rows and state of CML.        *)
(***************************************************************************)
EXTENDS Rules, TLAPS, WellFoundedInduction, FiniteSetTheorems

-----------------------------------------------------------------------------
(* Arithmetic.                                                                *)

\* A set of numbers has a least one.
LEMMA Least ==
  ASSUME NEW S \in SUBSET Nat, S # {}
  PROVE  Min(S) \in S /\ \A y \in S : Min(S) <= y
<1>1. \E x \in S : \A y \in S : ~ (<<y, x>> \in OpToRel(<, Nat))
  BY NatLessThanWellFounded, WFMin
<1>2. PICK x \in S : \A y \in S : ~ (y < x)
  BY <1>1 DEF OpToRel
<1>3. \A y \in S : x <= y
  BY <1>2
<1> QED BY <1>3 DEF Min

\* A set of numbers below a bound has a largest one.
LEMMA Largest ==
  ASSUME NEW n \in Nat, NEW S \in SUBSET (0..n), S # {}
  PROVE  \E x \in S : \A y \in S : x >= y
<1> DEFINE T == {n - x : x \in S}
<1>1. T \in SUBSET Nat /\ T # {}
  <2>1. \A x \in S : n - x \in Nat
    OBVIOUS
  <2> QED BY <2>1
<1>2. Min(T) \in T /\ \A y \in T : Min(T) <= y
  BY <1>1, Least
<1>3. PICK z \in S : Min(T) = n - z
  BY <1>2
<1>4. \A y \in S : n - z <= n - y
  BY <1>2, <1>3
<1> QED BY <1>4

\* Division and remainder, which there is one of.
LEMMA Division ==
  ASSUME NEW a \in Nat, NEW b \in Nat, b > 0
  PROVE  /\ a \div b \in Nat /\ (a % b) \in 0..(b - 1)
         /\ a = b * (a \div b) + (a % b)
OBVIOUS

\* A number has one quotient and one remainder.
LEMMA OneQuotient ==
  ASSUME NEW a \in Nat, NEW b \in Nat, b > 0, NEW q \in Nat, NEW r \in 0..(b - 1), a = b * q + r
  PROVE  a \div b = q /\ a % b = r
OBVIOUS

\* Whoever has more to divide gets more.
LEMMA QuotientGrows ==
  ASSUME NEW a \in Int, NEW c \in Int, a <= c, NEW b \in Nat, b > 0
  PROVE  a \div b <= c \div b
OBVIOUS

\* A product grows with its factor.
LEMMA ProductGrows ==
  ASSUME NEW b \in Nat, NEW x \in Int, NEW y \in Int, x <= y
  PROVE  b * x \in Int /\ b * y \in Int /\ b * x <= b * y
OBVIOUS

\* Dividing twice divides by the product.
LEMMA DivideTwice ==
  ASSUME NEW a \in Nat, NEW b \in Nat, b > 0, NEW c \in Nat, c > 0
  PROVE  b * c \in Nat /\ b * c > 0 /\ a \div (b * c) = (a \div b) \div c
<1> DEFINE q == a \div b  p == q \div c  r == a % b  t == q % c
<1>1. q \in Nat /\ r \in 0..(b - 1) /\ a = b * q + r
  BY Division
<1>2. p \in Nat /\ t \in 0..(c - 1) /\ q = c * p + t
  BY <1>1, Division
<1> HIDE DEF q, p, r, t
<1>3. b * c \in Nat /\ b * c > 0
  OBVIOUS
<1>4. b * t + r \in 0..(b * c - 1)
  <2>1. b * t <= b * (c - 1)
    BY <1>2, ProductGrows
  <2>2. b * (c - 1) = b * c - b
    OBVIOUS
  <2>3. b * t \in Nat
    BY <1>2
  <2> QED BY <1>1, <1>3, <2>1, <2>2, <2>3
<1>5. a = (b * c) * p + (b * t + r)
  <2>1. b * (c * p + t) = (b * c) * p + b * t
    BY <1>2
  <2> QED BY <1>1, <1>2, <2>1
<1>6. a \div (b * c) = p
  BY <1>2, <1>3, <1>4, <1>5, OneQuotient
<1> QED BY <1>3, <1>6 DEF p, q

\* Numbers between a multiple of b and the next one.
LEMMA SameBlock ==
  ASSUME NEW a \in Nat, NEW b \in Nat, b > 0, NEW c \in Nat, a <= c, c < b * (a \div b) + b
  PROVE  c \div b = a \div b /\ c % b = c - b * (a \div b)
<1> DEFINE q == a \div b
<1>1. q \in Nat /\ b * q \in Nat /\ b * q <= a
  OBVIOUS
<1> HIDE DEF q
<1>2. c < b * q + b
  BY DEF q
<1> DEFINE x == c - b * q
<1>3. x \in 0..(b - 1) /\ c = b * q + x
  BY <1>1, <1>2
<1> HIDE DEF x
<1>4. c \div b = q /\ c % b = x
  BY <1>1, <1>3, OneQuotient
<1> QED BY <1>4 DEF q, x

-----------------------------------------------------------------------------
(* The calendar.                                                              *)
Months == Len(MonthDays)

\* The calendar, in the form the provers take it.
LEMMA CalendarFacts ==
  /\ Ticks \in Nat /\ Ticks > 0 /\ HourMinutes \in Nat /\ HourMinutes > 0
  /\ DayHours \in Nat /\ DayHours > 0 /\ WeekDays \in Nat /\ WeekDays > 0
  /\ DayMinutes \in Nat /\ DayMinutes > 0 /\ Shift \in Nat /\ Horizon \in Nat
  /\ Months \in Nat /\ Months > 0 /\ DOMAIN MonthDays = 1..Months
  /\ \A i \in 1..Months : MonthDays[i] \in Nat /\ MonthDays[i] > 0
<1>1. Months \in Nat /\ Months > 0 /\ DOMAIN MonthDays = 1..Months
  BY CalendarAssumption DEF Months
<1>2. \A i \in 1..Months : MonthDays[i] \in Nat /\ MonthDays[i] > 0
  <2> DEFINE Lengths == Nat \ {0}
  <2>1. MonthDays \in Seq(Lengths)
    BY CalendarAssumption
  <2> HIDE DEF Lengths
  <2>2. \A i \in 1..Months : MonthDays[i] \in Lengths
    BY <2>1 DEF Months
  <2> QED BY <2>2 DEF Lengths
<1>3. HourMinutes \in Nat /\ HourMinutes > 0 /\ DayHours \in Nat /\ DayHours > 0
  BY CalendarAssumption
<1>4. DayMinutes \in Nat /\ DayMinutes > 0
  BY <1>3 DEF DayMinutes
<1> QED BY CalendarAssumption, <1>1, <1>2, <1>3, <1>4

\* What hours and days are made of.
LEMMA Units ==
  /\ HourMinutes \in Nat /\ HourMinutes > 0 /\ DayHours \in Nat /\ DayHours > 0
  /\ DayMinutes \in Nat /\ DayMinutes > 0
BY CalendarFacts

\* The days before each month are the sums of the lengths of those before it.
LEMMA SumsExist ==
  DaysBefore = [i \in 0..Months |-> IF i = 0 THEN 0 ELSE DaysBefore[i - 1] + MonthDays[i]]
<1> DEFINE Sums(f, k) == f = [i \in 0..k |-> IF i = 0 THEN 0 ELSE f[i - 1] + MonthDays[i]]
           Bad == {k \in 0..Months : ~ \E f : Sums(f, k)}
<1>1. Bad = {}
  <2> SUFFICES ASSUME Bad # {} PROVE FALSE
    OBVIOUS
  <2>1. Bad \in SUBSET Nat
    OBVIOUS
  <2>2. PICK k \in Bad : \A j \in Bad : k <= j
    BY <2>1, Least
  <2>3. k # 0
    <3> DEFINE f == [i \in 0..0 |-> 0]
    <3>1. Sums(f, 0)
      OBVIOUS
    <3> QED BY <3>1, <2>2
  <2>4. k \in Nat /\ k - 1 \in 0..Months /\ k - 1 \notin Bad
    BY <2>2, <2>3, CalendarFacts
  <2>5. PICK f : Sums(f, k - 1)
    BY <2>4
  <2> DEFINE g == [i \in 0..k |-> IF i = k THEN f[k - 1] + MonthDays[k] ELSE f[i]]
  <2>6. Sums(g, k)
    <3>1. \A i \in 0..k : g[i] = IF i = 0 THEN 0 ELSE g[i - 1] + MonthDays[i]
      BY <2>3, <2>4, <2>5
    <3> QED BY <3>1
  <2> QED BY <2>2, <2>6
<1>2. \E f : Sums(f, Months)
  <2>1. \A k \in 0..Months : \E f : Sums(f, k)
    BY <1>1
  <2>2. Months \in 0..Months
    BY CalendarFacts
  <2> HIDE DEF Sums
  <2> QED BY <2>1, <2>2
<1>3. DaysBefore = CHOOSE f : Sums(f, Months)
  BY DEF DaysBefore, Months
<1> QED BY <1>2, <1>3

\* Months follow each other.
LEMMA MonthsFollow ==
  /\ DaysBefore[0] = 0
  /\ \A i \in 0..Months : DaysBefore[i] \in Nat
  /\ \A i \in 1..Months : DaysBefore[i] = DaysBefore[i - 1] + MonthDays[i]
  /\ \A i, j \in 0..Months : i <= j => DaysBefore[i] <= DaysBefore[j]
  /\ YearDays \in Nat /\ YearDays > 0
<1>1. DaysBefore[0] = 0
  BY SumsExist, CalendarFacts
<1>2. \A i \in 1..Months : DaysBefore[i] = DaysBefore[i - 1] + MonthDays[i]
  BY SumsExist, CalendarFacts
<1>3. \A i \in 0..Months : DaysBefore[i] \in Nat
  <2> DEFINE Bad == {i \in 0..Months : DaysBefore[i] \notin Nat}
  <2> SUFFICES ASSUME Bad # {} PROVE FALSE
    OBVIOUS
  <2>1. Bad \in SUBSET Nat
    OBVIOUS
  <2>2. PICK k \in Bad : \A j \in Bad : k <= j
    BY <2>1, Least
  <2>3. k \in 1..Months /\ k - 1 \in 0..Months /\ k - 1 \notin Bad
    BY <1>1, <2>2, CalendarFacts
  <2> QED BY <1>2, <2>2, <2>3, CalendarFacts
<1>4. \A i, j \in 0..Months : i <= j => DaysBefore[i] <= DaysBefore[j]
  <2> SUFFICES ASSUME NEW i \in 0..Months PROVE \A j \in i..Months : DaysBefore[i] <= DaysBefore[j]
    BY CalendarFacts
  <2> DEFINE Bad == {j \in i..Months : ~ (DaysBefore[i] <= DaysBefore[j])}
  <2> SUFFICES ASSUME Bad # {} PROVE FALSE
    OBVIOUS
  <2>1. Bad \in SUBSET Nat
    OBVIOUS
  <2>2. PICK k \in Bad : \A j \in Bad : k <= j
    BY <2>1, Least
  <2>3. k # i
    BY <1>3, <2>2
  <2>4. k \in 1..Months /\ k - 1 \in i..Months /\ k - 1 \notin Bad
    BY <2>2, <2>3, CalendarFacts
  <2> QED BY <1>2, <1>3, <2>2, <2>4, CalendarFacts
<1>5. YearDays \in Nat /\ YearDays > 0
  <2>1. DaysBefore[1] \in Nat /\ DaysBefore[1] > 0 /\ DaysBefore[1] <= DaysBefore[Months]
    BY <1>1, <1>2, <1>3, <1>4, CalendarFacts
  <2> QED BY <1>3, <2>1, CalendarFacts DEF YearDays, Months
<1> QED BY <1>1, <1>2, <1>3, <1>4, <1>5

\* A day of the year is in one month.
LEMMA OneMonth ==
  ASSUME NEW y \in 0..(YearDays - 1)
  PROVE  /\ \E i \in 1..Months : DaysBefore[i - 1] <= y /\ y < DaysBefore[i]
         /\ \A i, j \in 1..Months : 
              DaysBefore[i - 1] <= y /\ y < DaysBefore[i] /\ DaysBefore[j - 1] <= y /\ y < DaysBefore[j] => i = j
<1>1. y \in Nat /\ y < DaysBefore[Months]
  BY MonthsFollow DEF YearDays, Months
<1> DEFINE Past == {i \in 0..Months : y < DaysBefore[i]}
<1>2. Past \in SUBSET Nat /\ Past # {}
  BY <1>1, CalendarFacts
<1>3. PICK k \in Past : \A j \in Past : k <= j
  BY <1>2, Least
<1>4. k # 0 /\ k \in 1..Months /\ k - 1 \in 0..Months /\ k - 1 \notin Past
  BY <1>1, <1>3, MonthsFollow, CalendarFacts
<1>5. DaysBefore[k - 1] <= y /\ y < DaysBefore[k]
  BY <1>1, <1>3, <1>4, MonthsFollow
<1>6. ASSUME NEW i \in 1..Months, NEW j \in 1..Months, DaysBefore[i - 1] <= y, y < DaysBefore[j]
      PROVE  i <= j
  <2> SUFFICES ASSUME j < i PROVE FALSE
    BY CalendarFacts
  <2>1. j \in 0..Months /\ i - 1 \in 0..Months /\ j <= i - 1
    BY CalendarFacts
  <2>2. DaysBefore[j] <= DaysBefore[i - 1] /\ DaysBefore[j] \in Nat /\ DaysBefore[i - 1] \in Nat
    BY <2>1, MonthsFollow
  <2> QED BY <1>1, <1>6, <2>2
<1>7. \A i, j \in 1..Months : 
        DaysBefore[i - 1] <= y /\ y < DaysBefore[i] /\ DaysBefore[j - 1] <= y /\ y < DaysBefore[j] => i = j
  <2> SUFFICES ASSUME NEW i \in 1..Months, NEW j \in 1..Months, DaysBefore[i - 1] <= y, y < DaysBefore[i],
                      DaysBefore[j - 1] <= y, y < DaysBefore[j]
               PROVE  i = j
    OBVIOUS
  <2>1. i <= j /\ j <= i
    BY <1>6
  <2> QED BY <2>1, CalendarFacts
<1> QED BY <1>4, <1>5, <1>7

-----------------------------------------------------------------------------
(* Minutes, the hours, days and months they are in.                           *)
Hour(m) == m \div HourMinutes

\* A minute is in one hour of one day.
LEMMA MinuteFacts ==
  ASSUME NEW m \in Nat
  PROVE  /\ Hour(m) \in Nat /\ MinuteOf(m) \in 0..(HourMinutes - 1)
         /\ m = HourMinutes * Hour(m) + MinuteOf(m)
         /\ HourStart(m) = HourMinutes * Hour(m)
         /\ Day(m) \in Nat /\ HourOf(m) \in 0..(DayHours - 1)
         /\ Hour(m) = DayHours * Day(m) + HourOf(m)
         /\ DayStart(m) \in Nat /\ DayStart(m) = DayMinutes * Day(m)
         /\ DayStart(m) <= m /\ m < DayStart(m) + DayMinutes
<1>1. Hour(m) \in Nat /\ MinuteOf(m) \in 0..(HourMinutes - 1) /\ m = HourMinutes * Hour(m) + MinuteOf(m)
  BY Units, Division DEF Hour, MinuteOf
<1>2. HourStart(m) = HourMinutes * Hour(m)
  <2>1. HourMinutes * Hour(m) \in Nat
    BY <1>1, Units
  <2> QED BY <1>1, <2>1 DEF HourStart
<1>3. Day(m) = Hour(m) \div DayHours
  BY Units, DivideTwice DEF Day, DayMinutes, Hour
<1>4. Day(m) \in Nat /\ HourOf(m) \in 0..(DayHours - 1) /\ Hour(m) = DayHours * Day(m) + HourOf(m)
  <2>1. HourOf(m) = Hour(m) % DayHours
    BY DEF HourOf, Hour
  <2>2. /\ Hour(m) \div DayHours \in Nat /\ (Hour(m) % DayHours) \in 0..(DayHours - 1)
        /\ Hour(m) = DayHours * (Hour(m) \div DayHours) + (Hour(m) % DayHours)
    BY <1>1, Units, Division
  <2> QED BY <1>3, <2>1, <2>2
<1>5. DayStart(m) \in Nat /\ DayStart(m) = DayMinutes * Day(m)
  BY <1>4, Units DEF DayStart
<1>6. DayStart(m) <= m /\ m < DayStart(m) + DayMinutes
  <2> DEFINE x == m % DayMinutes
  <2>1. x \in 0..(DayMinutes - 1) /\ m = DayMinutes * Day(m) + x
    BY Units, Division DEF Day
  <2> HIDE DEF x
  <2> QED BY <1>5, <2>1, Units
<1> QED BY <1>1, <1>2, <1>4, <1>5, <1>6

\* A minute of the same day.
LEMMA SameDay ==
  ASSUME NEW m \in Nat, NEW n \in Nat, m <= n, n < DayStart(m) + DayMinutes
  PROVE  Day(n) = Day(m)
<1>1. DayStart(m) = DayMinutes * (m \div DayMinutes)
  BY MinuteFacts DEF Day
<1>2. n \div DayMinutes = m \div DayMinutes
  BY <1>1, Units, SameBlock
<1> QED BY <1>2 DEF Day

\* A minute of the same hour.
LEMMA SameHour ==
  ASSUME NEW m \in Nat, NEW n \in Nat, m <= n, n < HourStart(m) + HourMinutes
  PROVE  Hour(n) = Hour(m) /\ MinuteOf(n) = n - HourStart(m)
<1>1. HourStart(m) = HourMinutes * (m \div HourMinutes)
  BY MinuteFacts DEF Hour
<1>2. n \div HourMinutes = m \div HourMinutes /\ n % HourMinutes = n - HourMinutes * (m \div HourMinutes)
  BY <1>1, Units, SameBlock
<1> QED BY <1>1, <1>2 DEF Hour, MinuteOf

\* Days decide about months and weekdays.
LEMMA SameDate ==
  ASSUME NEW cron, NEW s, NEW m, NEW n, Day(n) = Day(m)
  PROVE  MonthOf(n) = MonthOf(m) /\ (DayMatches(cron, s, n) <=> DayMatches(cron, s, m))
<1>1. YearDay(n) = YearDay(m) /\ WeekdayOf(n) = WeekdayOf(m)
  BY DEF YearDay, WeekdayOf
<1>2. MonthOf(n) = MonthOf(m)
  BY <1>1 DEF MonthOf
<1>3. DayOf(n) = DayOf(m)
  BY <1>1, <1>2 DEF DayOf
<1> QED BY <1>1, <1>2, <1>3 DEF DayMatches

\* A day is in one month of one year.
LEMMA MonthFacts ==
  ASSUME NEW m \in Nat
  PROVE  /\ YearDay(m) \in 0..(YearDays - 1) /\ Day(m) \div YearDays \in Nat
         /\ Day(m) = YearDays * (Day(m) \div YearDays) + YearDay(m)
         /\ MonthOf(m) \in 1..Months
         /\ DaysBefore[MonthOf(m) - 1] <= YearDay(m) /\ YearDay(m) < DaysBefore[MonthOf(m)]
<1>1. Day(m) \in Nat /\ YearDays \in Nat /\ YearDays > 0
  BY MinuteFacts, MonthsFollow
<1>2. /\ Day(m) \div YearDays \in Nat /\ YearDay(m) \in 0..(YearDays - 1)
      /\ Day(m) = YearDays * (Day(m) \div YearDays) + YearDay(m)
  BY <1>1, Division DEF YearDay
<1>3. \E i \in 1..Months : DaysBefore[i - 1] <= YearDay(m) /\ YearDay(m) < DaysBefore[i]
  BY <1>2, OneMonth
<1>4. MonthOf(m) \in 1..Months /\ DaysBefore[MonthOf(m) - 1] <= YearDay(m) /\ YearDay(m) < DaysBefore[MonthOf(m)]
  BY <1>3, CalendarFacts DEF MonthOf
<1> QED BY <1>2, <1>4

\* A minute before the next month is in the same one.
LEMMA SameMonth ==
  ASSUME NEW m \in Nat
  PROVE  /\ NextMonth(m) \in Nat /\ NextMonth(m) > m
         /\ \A n \in m..(NextMonth(m) - 1) : MonthOf(n) = MonthOf(m)
<1> DEFINE i == MonthOf(m)
           q == Day(m) \div YearDays
           first == YearDays * q
           last == first + DaysBefore[i]
<1>1. i \in 1..Months /\ DaysBefore[i] \in Nat /\ DaysBefore[i - 1] \in Nat /\ DaysBefore[i] <= YearDays
  <2>0. i \in 1..Months
    BY MonthFacts
  <2> HIDE DEF i
  <2>1. i \in 0..Months /\ i - 1 \in 0..Months /\ Months \in 0..Months /\ i <= Months
    BY <2>0, CalendarFacts
  <2>2. DaysBefore[i] <= DaysBefore[Months]
    BY <2>1, MonthsFollow
  <2> QED BY <2>0, <2>1, <2>2, MonthsFollow DEF YearDays, Months
<1>2. /\ q \in Nat /\ YearDay(m) \in 0..(YearDays - 1) /\ Day(m) = first + YearDay(m)
      /\ DaysBefore[i - 1] <= YearDay(m) /\ YearDay(m) < DaysBefore[i] /\ YearDays \in Nat /\ YearDays > 0
  BY MonthFacts, MonthsFollow
<1>3. first \in Nat
  <2> HIDE DEF q
  <2> QED BY <1>2
<1>4. DayStart(m) = DayMinutes * Day(m) /\ DayStart(m) \in Nat /\ m < DayStart(m) + DayMinutes /\ Day(m) \in Nat
  BY MinuteFacts
<1> HIDE DEF i, q, first
<1>5. last \in Nat /\ Day(m) + 1 <= last
  BY <1>1, <1>2, <1>3, <1>4
<1>6. NextMonth(m) = DayMinutes * last
  <2>1. Day(m) - YearDay(m) + DaysBefore[i] = last
    BY <1>1, <1>2, <1>3
  <2>2. NextMonth(m) = last * DayMinutes
    BY <2>1 DEF NextMonth, i
  <2> HIDE DEF last
  <2> QED BY <1>5, <2>2, Units
<1> HIDE DEF last
<1>7. NextMonth(m) \in Nat /\ NextMonth(m) > m
  <2>1. DayMinutes * (Day(m) + 1) <= DayMinutes * last
    BY <1>4, <1>5, ProductGrows, Units
  <2>2. DayMinutes * (Day(m) + 1) = DayMinutes * Day(m) + DayMinutes
    BY <1>4, Units
  <2>3. DayMinutes * last \in Nat
    BY <1>5, Units
  <2> QED BY <1>4, <1>6, <2>1, <2>2, <2>3, Units
<1>8. ASSUME NEW n \in m..(NextMonth(m) - 1) PROVE MonthOf(n) = i
  <2>1. n \in Nat /\ n < NextMonth(m) /\ m <= n
    BY <1>7
  <2>2. Day(n) \in Nat /\ DayMinutes * Day(n) <= n /\ Day(m) <= Day(n)
    <3>1. Day(n) \in Nat /\ DayMinutes * Day(n) = DayStart(n) /\ DayStart(n) <= n
      BY <2>1, MinuteFacts
    <3>2. Day(m) <= Day(n)
      BY <2>1, Units, QuotientGrows DEF Day
    <3> QED BY <3>1, <3>2
  <2>3. Day(n) < last
    <3> SUFFICES ASSUME last <= Day(n) PROVE FALSE
      BY <1>5, <2>2
    <3>1. DayMinutes * last <= DayMinutes * Day(n)
      BY <1>5, <2>2, ProductGrows, Units
    <3>2. DayMinutes * last \in Nat /\ DayMinutes * Day(n) \in Nat
      BY <1>5, <2>2, Units
    <3> QED BY <1>6, <2>1, <2>2, <3>1, <3>2
  <2> DEFINE y == Day(n) - first
  <2>4. y \in 0..(YearDays - 1) /\ YearDay(m) <= y /\ y < DaysBefore[i] /\ Day(n) = first + y
    BY <1>1, <1>2, <1>3, <1>4, <2>2, <2>3 DEF last
  <2> HIDE DEF y
  <2>5. YearDay(n) = y
    BY <1>2, <2>2, <2>4, OneQuotient DEF YearDay, first
  <2>6. DaysBefore[i - 1] <= y
    BY <1>1, <1>2, <2>4
  <2>7. MonthOf(n) \in 1..Months /\ DaysBefore[MonthOf(n) - 1] <= y /\ y < DaysBefore[MonthOf(n)]
    BY <2>1, <2>5, MonthFacts
  <2> QED BY <1>1, <2>4, <2>6, <2>7, OneMonth
<1> QED BY <1>7, <1>8 DEF i

-----------------------------------------------------------------------------
(* The search for the next fire.                                              *)

\* The values a schedule has for the hour and for the minute are such.
Timed(s) == s.hours \subseteq 0..(DayHours - 1) /\ s.mins \subseteq 0..(HourMinutes - 1)

\* So are those of the schedule of any cron.
LEMMA ScheduleTimed ==
  ASSUME NEW cron
  PROVE  Timed(Schedule(cron))
<1>1. \A field, lo, hi : Values(field, lo, hi) \subseteq lo..hi
  BY DEF Values
<1>2. Schedule(cron).hours = Values(cron.hour, 0, DayHours - 1)
  BY DEF Schedule
<1>3. Schedule(cron).mins = Values(cron.min, 0, HourMinutes - 1)
  BY DEF Schedule
<1> QED BY <1>1, <1>2, <1>3 DEF Timed

\* The minute the search goes on with.
Skip(cron, s, m) ==
  IF MonthOf(m) \notin s.mons THEN NextMonth(m)
  ELSE IF ~DayMatches(cron, s, m) THEN DayStart(m) + DayMinutes
  ELSE IF HourOf(m) \notin s.hours THEN HourSkip(s, m)
  ELSE IF MinuteOf(m) \notin s.mins THEN MinuteSkip(s, m)
  ELSE m

\* What is skipped: later minutes that do not match.
Skips(cron, s, m, next) ==
  next \in Nat /\ m < next /\ \A n \in m..(next - 1) : ~ Matches(cron, s, n)

\* Going on to the next hour of the schedule, or to the next day, passes no fire.
LEMMA SkipsHours ==
  ASSUME NEW cron, NEW s, Timed(s), NEW m \in Nat, HourOf(m) \notin s.hours
  PROVE  Skips(cron, s, m, HourSkip(s, m))
<1> DEFINE later == {h \in s.hours : h > HourOf(m)}
<1>0. /\ DayStart(m) \in Nat /\ DayStart(m) <= m /\ m < DayStart(m) + DayMinutes /\ Day(m) \in Nat
      /\ HourOf(m) \in 0..(DayHours - 1) /\ Hour(m) \in Nat /\ Hour(m) = DayHours * Day(m) + HourOf(m)
      /\ m = HourMinutes * Hour(m) + MinuteOf(m) /\ MinuteOf(m) \in 0..(HourMinutes - 1)
  BY MinuteFacts
<1>1. ASSUME NEW n \in Nat, m <= n, n < DayStart(m) + DayMinutes
      PROVE  HourOf(n) >= HourOf(m) /\ Hour(n) = DayHours * Day(m) + HourOf(n) /\ HourOf(n) \in 0..(DayHours - 1)
  <2>1. Day(n) = Day(m)
    BY <1>1, SameDay
  <2>2. Hour(n) = DayHours * Day(m) + HourOf(n) /\ HourOf(n) \in 0..(DayHours - 1) /\ Hour(n) \in Nat
    BY <2>1, MinuteFacts
  <2>3. Hour(m) <= Hour(n)
    BY <1>1, Units, QuotientGrows DEF Hour
  <2>4. DayHours * Day(m) \in Nat
    BY <1>0, Units
  <2> QED BY <1>0, <2>2, <2>3, <2>4
<1>2. CASE later = {}
  <2>1. HourSkip(s, m) = DayStart(m) + DayMinutes
    BY <1>2 DEF HourSkip
  <2>2. ASSUME NEW n \in m..(DayStart(m) + DayMinutes - 1) PROVE ~ Matches(cron, s, n)
    <3>1. n \in Nat /\ m <= n /\ n < DayStart(m) + DayMinutes
      BY <1>0, Units
    <3>2. HourOf(n) >= HourOf(m) /\ HourOf(n) \in 0..(DayHours - 1)
      BY <1>1, <3>1
    <3>3. HourOf(n) \notin s.hours
      BY <1>0, <1>2, <3>2
    <3> QED BY <3>3 DEF Matches
  <2> QED BY <1>0, <2>1, <2>2, Units DEF Skips
<1>3. CASE later # {}
  <2>1. later \in SUBSET Nat
    BY DEF Timed
  <2> DEFINE h == Min(later)
  <2>2. h \in later /\ \A y \in later : h <= y
    BY <1>3, <2>1, Least
  <2>3. h \in 0..(DayHours - 1) /\ h > HourOf(m)
    BY <2>2 DEF Timed
  <2>4. HourSkip(s, m) = DayStart(m) + h * HourMinutes
    BY <1>3 DEF HourSkip
  <2> DEFINE start == DayHours * Day(m) + h
  <2> HIDE DEF h
  <2>5. DayStart(m) + h * HourMinutes = HourMinutes * start
    <3>1. DayStart(m) = (HourMinutes * DayHours) * Day(m)
      BY MinuteFacts DEF DayMinutes
    <3> QED BY <1>0, <2>3, <3>1, Units
  <2>6. start \in Nat /\ Hour(m) + 1 <= start
    <3>1. DayHours * Day(m) \in Nat
      BY <1>0, Units
    <3> QED BY <1>0, <2>3, <3>1
  <2>7. HourMinutes * start <= DayStart(m) + DayMinutes
    <3>1. HourMinutes * h <= HourMinutes * DayHours
      BY <2>3, Units, ProductGrows
    <3>2. HourMinutes * h = h * HourMinutes
      BY <2>3, Units
    <3> QED BY <1>0, <2>3, <2>5, <3>1, <3>2, Units DEF DayMinutes
  <2> HIDE DEF start
  <2>8. HourMinutes * start \in Nat /\ m < HourMinutes * start
    <3>1. HourMinutes * (Hour(m) + 1) <= HourMinutes * start
      BY <1>0, <2>6, Units, ProductGrows
    <3>2. HourMinutes * (Hour(m) + 1) = HourMinutes * Hour(m) + HourMinutes
      BY <1>0, Units
    <3>3. HourMinutes * start \in Nat /\ HourMinutes * Hour(m) \in Nat
      BY <1>0, <2>6, Units
    <3> QED BY <1>0, <3>1, <3>2, <3>3, Units
  <2>9. ASSUME NEW n \in m..(HourMinutes * start - 1) PROVE ~ Matches(cron, s, n)
    <3>1. n \in Nat /\ m <= n /\ n < HourMinutes * start /\ n < DayStart(m) + DayMinutes
      BY <1>0, <2>7, <2>8, Units
    <3>2. HourOf(n) >= HourOf(m) /\ Hour(n) = DayHours * Day(m) + HourOf(n) /\ HourOf(n) \in 0..(DayHours - 1)
      BY <1>1, <3>1
    <3>3. Hour(n) \in Nat /\ HourMinutes * Hour(n) <= n
      <4>1. Hour(n) \in Nat /\ MinuteOf(n) \in 0..(HourMinutes - 1) /\ n = HourMinutes * Hour(n) + MinuteOf(n)
        BY <3>1, MinuteFacts
      <4>2. HourMinutes * Hour(n) \in Nat
        BY <4>1, Units
      <4> QED BY <4>1, <4>2
    <3>4. Hour(n) < start
      <4> SUFFICES ASSUME start <= Hour(n) PROVE FALSE
        BY <2>6, <3>3
      <4>1. HourMinutes * start <= HourMinutes * Hour(n)
        BY <2>6, <3>3, Units, ProductGrows
      <4>2. HourMinutes * Hour(n) \in Nat
        BY <3>3, Units
      <4> QED BY <2>8, <3>1, <3>3, <4>1, <4>2
    <3>5. HourOf(n) < h
      <4>1. DayHours * Day(m) \in Nat
        BY <1>0, Units
      <4> QED BY <2>3, <3>2, <3>3, <3>4, <4>1 DEF start
    <3>6. HourOf(n) \notin s.hours
      <4> SUFFICES ASSUME HourOf(n) \in s.hours PROVE FALSE
        OBVIOUS
      <4>1. HourOf(n) # HourOf(m)
        OBVIOUS
      <4>2. HourOf(n) \in later
        BY <1>0, <3>2, <4>1
      <4> QED BY <2>2, <2>3, <3>2, <3>5, <4>2
    <3> QED BY <3>6 DEF Matches
  <2> QED BY <2>4, <2>5, <2>8, <2>9 DEF Skips
<1> QED BY <1>2, <1>3

\* Nor does going on to its next minute, or to the next hour.
LEMMA SkipsMinutes ==
  ASSUME NEW cron, NEW s, Timed(s), NEW m \in Nat, MinuteOf(m) \notin s.mins
  PROVE  Skips(cron, s, m, MinuteSkip(s, m))
<1> DEFINE later == {i \in s.mins : i > MinuteOf(m)}
<1>0. /\ HourStart(m) \in Nat /\ m = HourStart(m) + MinuteOf(m) /\ MinuteOf(m) \in 0..(HourMinutes - 1)
  <2>1. /\ Hour(m) \in Nat /\ MinuteOf(m) \in 0..(HourMinutes - 1)
        /\ m = HourMinutes * Hour(m) + MinuteOf(m) /\ HourStart(m) = HourMinutes * Hour(m)
    BY MinuteFacts
  <2>2. HourMinutes * Hour(m) \in Nat
    BY <2>1, Units
  <2> QED BY <2>1, <2>2
<1>1. ASSUME NEW n \in Nat, m <= n, n < HourStart(m) + HourMinutes
      PROVE  MinuteOf(n) = n - HourStart(m)
  BY <1>1, SameHour
<1>2. CASE later = {}
  <2>1. MinuteSkip(s, m) = HourStart(m) + HourMinutes
    BY <1>2 DEF MinuteSkip
  <2>2. ASSUME NEW n \in m..(HourStart(m) + HourMinutes - 1) PROVE ~ Matches(cron, s, n)
    <3>1. n \in Nat /\ m <= n /\ n < HourStart(m) + HourMinutes
      BY <1>0, Units
    <3>2. MinuteOf(n) = n - HourStart(m)
      BY <1>1, <3>1
    <3>3. MinuteOf(n) \notin s.mins
      BY <1>0, <1>2, <3>1, <3>2
    <3> QED BY <3>3 DEF Matches
  <2> QED BY <1>0, <2>1, <2>2, Units DEF Skips
<1>3. CASE later # {}
  <2>1. later \in SUBSET Nat
    BY DEF Timed
  <2> DEFINE i == Min(later)
  <2>2. i \in later /\ \A y \in later : i <= y
    BY <1>3, <2>1, Least
  <2>3. i \in 0..(HourMinutes - 1) /\ i > MinuteOf(m)
    BY <2>2 DEF Timed
  <2>4. MinuteSkip(s, m) = HourStart(m) + i
    BY <1>3 DEF MinuteSkip
  <2> HIDE DEF i
  <2>5. ASSUME NEW n \in m..(HourStart(m) + i - 1) PROVE ~ Matches(cron, s, n)
    <3>1. n \in Nat /\ m <= n /\ n < HourStart(m) + i /\ n < HourStart(m) + HourMinutes
      BY <1>0, <2>3, Units
    <3>2. MinuteOf(n) = n - HourStart(m)
      BY <1>1, <3>1
    <3>3. MinuteOf(n) \notin s.mins
      <4> SUFFICES ASSUME MinuteOf(n) \in s.mins PROVE FALSE
        OBVIOUS
      <4>1. MinuteOf(n) # MinuteOf(m)
        OBVIOUS
      <4>2. MinuteOf(n) \in later
        BY <1>0, <3>1, <3>2, <4>1
      <4> QED BY <1>0, <2>2, <2>3, <3>1, <3>2, <4>2
    <3> QED BY <3>3 DEF Matches
  <2> QED BY <1>0, <2>3, <2>4, <2>5 DEF Skips
<1> QED BY <1>2, <1>3

\* The search stops where all fields match, and loses nothing it skips.
LEMMA SkipLosesNothing ==
  ASSUME NEW cron, NEW s, Timed(s), NEW m \in Nat
  PROVE  IF Matches(cron, s, m) THEN Skip(cron, s, m) = m ELSE Skips(cron, s, m, Skip(cron, s, m))
<1>1. CASE MonthOf(m) \notin s.mons
  <2>1. Skip(cron, s, m) = NextMonth(m) /\ ~ Matches(cron, s, m)
    BY <1>1 DEF Skip, Matches
  <2>2. NextMonth(m) \in Nat /\ NextMonth(m) > m /\ \A n \in m..(NextMonth(m) - 1) : MonthOf(n) = MonthOf(m)
    BY SameMonth
  <2> QED BY <1>1, <2>1, <2>2 DEF Skips, Matches
<1>2. CASE MonthOf(m) \in s.mons /\ ~ DayMatches(cron, s, m)
  <2>1. Skip(cron, s, m) = DayStart(m) + DayMinutes /\ ~ Matches(cron, s, m)
    BY <1>2 DEF Skip, Matches
  <2>2. DayStart(m) \in Nat /\ DayStart(m) <= m /\ m < DayStart(m) + DayMinutes
    BY MinuteFacts
  <2>3. ASSUME NEW n \in m..(DayStart(m) + DayMinutes - 1) PROVE ~ Matches(cron, s, n)
    <3>1. n \in Nat /\ m <= n /\ n < DayStart(m) + DayMinutes
      BY <2>2, Units
    <3>2. Day(n) = Day(m)
      BY <3>1, SameDay
    <3>3. ~ DayMatches(cron, s, n)
      BY <1>2, <3>2, SameDate
    <3> QED BY <3>3 DEF Matches
  <2> QED BY <2>1, <2>2, <2>3, Units DEF Skips
<1>3. CASE MonthOf(m) \in s.mons /\ DayMatches(cron, s, m) /\ HourOf(m) \notin s.hours
  <2>1. Skip(cron, s, m) = HourSkip(s, m) /\ ~ Matches(cron, s, m)
    BY <1>3 DEF Skip, Matches
  <2> QED BY <1>3, <2>1, SkipsHours
<1>4. CASE MonthOf(m) \in s.mons /\ DayMatches(cron, s, m) /\ HourOf(m) \in s.hours /\ MinuteOf(m) \notin s.mins
  <2>1. Skip(cron, s, m) = MinuteSkip(s, m) /\ ~ Matches(cron, s, m)
    BY <1>4 DEF Skip, Matches
  <2> QED BY <1>4, <2>1, SkipsMinutes
<1>5. CASE MonthOf(m) \in s.mons /\ DayMatches(cron, s, m) /\ HourOf(m) \in s.hours /\ MinuteOf(m) \in s.mins
  BY <1>5 DEF Skip, Matches
<1> QED BY <1>1, <1>2, <1>3, <1>4, <1>5

\* The minutes of the search for a fire after t in which the cron fires.
FireMinutes(cron, s, start) == {n \in start..(start + Horizon * DayMinutes) : Matches(cron, s, n)}

\* The search for a fire finds the first minute in which the cron fires: it is
\* one function, since one that differed from the first fire would do so at a last
\* minute, and there skipping loses no fire.
LEMMA FoundIsLeast ==
  ASSUME NEW cron, NEW s, Timed(s), NEW start \in Nat
  PROVE  Found(cron, s, start) =
           IF FireMinutes(cron, s, start) = {} THEN Absent ELSE Min(FireMinutes(cron, s, start))
<1> DEFINE limit == start + Horizon * DayMinutes
           body(f, m) ==
             IF m > limit THEN Absent
             ELSE IF MonthOf(m) \notin s.mons THEN f[NextMonth(m)]
             ELSE IF ~DayMatches(cron, s, m) THEN f[DayStart(m) + DayMinutes]
             ELSE IF HourOf(m) \notin s.hours THEN f[HourSkip(s, m)]
             ELSE IF MinuteOf(m) \notin s.mins THEN f[MinuteSkip(s, m)]
             ELSE m
           Search(f) == f = [m \in Nat |-> body(f, m)]
           search == CHOOSE f : Search(f)
           fires(m) == {n \in m..limit : Matches(cron, s, n)}
           least == [m \in Nat |-> IF fires(m) = {} THEN Absent ELSE Min(fires(m))]
<1>1. Found(cron, s, start) = search[start]
  BY DEF Found
<1>2. limit \in Nat
  BY CalendarFacts
<1>3. FireMinutes(cron, s, start) = fires(start)
  BY DEF FireMinutes
<1> HIDE DEF limit
<1>4. ASSUME NEW m \in Nat
      PROVE  /\ m > limit => least[m] = Absent
             /\ m <= limit /\ Matches(cron, s, m) => Skip(cron, s, m) = m /\ least[m] = m
             /\ m <= limit /\ ~ Matches(cron, s, m) =>
                  /\ Skip(cron, s, m) \in Nat /\ Skip(cron, s, m) > m
                  /\ least[m] = least[Skip(cron, s, m)]
  <2>1. m > limit => least[m] = Absent
    <3>1. m > limit => fires(m) = {}
      BY <1>2
    <3> HIDE DEF fires
    <3> QED BY <3>1
  <2>2. ASSUME m <= limit, Matches(cron, s, m) PROVE Skip(cron, s, m) = m /\ least[m] = m
    <3>1. Skip(cron, s, m) = m
      BY <2>2, SkipLosesNothing
    <3>2. fires(m) \in SUBSET Nat /\ m \in fires(m) /\ \A n \in fires(m) : m <= n
      BY <1>2, <2>2
    <3>3. Min(fires(m)) \in fires(m) /\ \A n \in fires(m) : Min(fires(m)) <= n
      BY <3>2, Least
    <3> HIDE DEF fires
    <3>4. Min(fires(m)) = m
      BY <3>2, <3>3
    <3> QED BY <3>1, <3>2, <3>4
  <2>3. ASSUME m <= limit, ~ Matches(cron, s, m)
        PROVE  /\ Skip(cron, s, m) \in Nat /\ Skip(cron, s, m) > m
               /\ least[m] = least[Skip(cron, s, m)]
    <3> DEFINE next == Skip(cron, s, m)
    <3>1. next \in Nat /\ m < next /\ \A n \in m..(next - 1) : ~ Matches(cron, s, n)
      BY <2>3, SkipLosesNothing DEF Skips
    <3> HIDE DEF next
    <3>2. fires(m) = fires(next)
      <4>1. ASSUME NEW n, n \in fires(m) PROVE n \in fires(next)
        BY <1>2, <3>1, <4>1
      <4>2. ASSUME NEW n, n \in fires(next) PROVE n \in fires(m)
        BY <1>2, <3>1, <4>2
      <4> HIDE DEF fires
      <4> QED BY <4>1, <4>2
    <3> HIDE DEF fires
    <3>3. least[m] = least[next]
      BY <3>1, <3>2
    <3> HIDE DEF least
    <3> QED BY <3>1, <3>3 DEF next
  <2> HIDE DEF least
  <2> QED BY <2>1, <2>2, <2>3
<1>5. ASSUME NEW f, NEW m \in Nat
      PROVE  body(f, m) = IF m > limit THEN Absent
                          ELSE IF Skip(cron, s, m) = m THEN m ELSE f[Skip(cron, s, m)]
  <2>1. Matches(cron, s, m) => Skip(cron, s, m) = m
    BY SkipLosesNothing
  <2>2. ~Matches(cron, s, m) => Skip(cron, s, m) # m
    BY SkipLosesNothing DEF Skips
  <2>3. IF Matches(cron, s, m) THEN body(f, m) = IF m > limit THEN Absent ELSE m
        ELSE body(f, m) = IF m > limit THEN Absent ELSE f[Skip(cron, s, m)]
    BY DEF Matches, Skip
  <2> HIDE DEF body
  <2> QED BY <2>1, <2>2, <2>3
<1>6. Search(least)
  <2>1. ASSUME NEW m \in Nat PROVE least[m] = body(least, m)
    <3> HIDE DEF least, body
    <3>1. m > limit \/ m <= limit
      BY <1>2
    <3> QED BY <1>2, <1>4, <1>5, <3>1
  <2>2. least = [m \in Nat |-> least[m]]
    OBVIOUS
  <2> HIDE DEF least
  <2>3. [m \in Nat |-> least[m]] = [m \in Nat |-> body(least, m)]
    BY <2>1
  <2> QED BY <2>2, <2>3
<1>7. Search(search)
  <2> HIDE DEF Search, least
  <2> QED BY <1>6
<1>8. \A m \in Nat : search[m] = least[m]
  <2>0. \A m \in Nat : search[m] = IF m > limit THEN Absent
                                     ELSE IF Skip(cron, s, m) = m THEN m ELSE search[Skip(cron, s, m)]
    <3> HIDE DEF search
    <3>1. \A m \in Nat : search[m] = body(search, m)
      BY <1>7
    <3> HIDE DEF body
    <3> QED BY <1>5, <3>1
  <2> HIDE DEF search, least
  <2> DEFINE Bad == {m \in Nat : search[m] # least[m]}
  <2> SUFFICES ASSUME Bad # {} PROVE FALSE
    OBVIOUS
  <2>1. Bad \in SUBSET (0..limit)
    BY <1>2, <1>4, <2>0
  <2>2. PICK m \in Bad : \A n \in Bad : m >= n
    BY <1>2, <2>1, Largest
  <2>3. m \in Nat /\ m <= limit /\ search[m] # least[m]
    BY <1>2, <2>1, <2>2
  <2>4. ~ Matches(cron, s, m)
    BY <1>2, <1>4, <2>0, <2>3
  <2> DEFINE next == Skip(cron, s, m)
  <2>5. next \in Nat /\ next > m /\ least[m] = least[next]
    BY <1>4, <2>3, <2>4
  <2>6. search[m] = search[next]
    BY <1>2, <2>0, <2>3, <2>5
  <2>7. next \notin Bad
    BY <2>2, <2>3, <2>5
  <2> QED BY <2>3, <2>5, <2>6, <2>7
<1>9. least[start] = IF fires(start) = {} THEN Absent ELSE Min(fires(start))
  <2> HIDE DEF fires
  <2> QED OBVIOUS
<1> HIDE DEF search, least, fires
<1> QED BY <1>1, <1>3, <1>8, <1>9

\* Later minutes start at later instants.
LEMMA InstantsGrow ==
  ASSUME NEW m \in Nat, NEW n \in Nat, m >= Shift
  PROVE  /\ InstantOf(m) \in Nat /\ InstantOf(m) = Ticks * (m - Shift)
         /\ m <= n => InstantOf(m) <= InstantOf(n) /\ InstantOf(n) \in Nat
         /\ InstantOf(m) = InstantOf(n) => m = n
<1>1. m - Shift \in Nat /\ n - Shift \in Int /\ m # Absent /\ n # Absent
  BY CalendarFacts DEF Absent
<1>2. InstantOf(m) = (m - Shift) * Ticks /\ InstantOf(n) = (n - Shift) * Ticks
  BY <1>1 DEF InstantOf
<1> DEFINE x == m - Shift  y == n - Shift
<1>3. x \in Nat /\ y \in Int /\ (m <= n => x <= y) /\ (x = y => m = n)
  BY <1>1, CalendarFacts
<1> HIDE DEF x, y
<1>4. InstantOf(m) = Ticks * x /\ InstantOf(n) = Ticks * y
  <2>1. InstantOf(m) = x * Ticks /\ InstantOf(n) = y * Ticks
    BY <1>2 DEF x, y
  <2> QED BY <1>3, <2>1, CalendarFacts
<1>5. Ticks \in Nat /\ Ticks > 0
  BY CalendarFacts
<1>6. Ticks * x \in Nat
  BY <1>3, <1>5
<1>7. x <= y => Ticks * x <= Ticks * y /\ Ticks * y \in Int
  BY <1>3, <1>5, ProductGrows
<1>8. Ticks * x = Ticks * y => x = y
  <2> SUFFICES ASSUME x # y PROVE Ticks * x # Ticks * y
    OBVIOUS
  <2>1. CASE x + 1 <= y
    <3>1. Ticks * (x + 1) <= Ticks * y
      BY <1>3, <1>5, <2>1, ProductGrows
    <3>2. Ticks * (x + 1) = Ticks * x + Ticks
      BY <1>3, <1>5
    <3> QED BY <1>3, <1>5, <1>6, <3>1, <3>2
  <2>2. CASE y + 1 <= x
    <3>1. Ticks * (y + 1) <= Ticks * x
      BY <1>3, <1>5, <2>2, ProductGrows
    <3>2. Ticks * (y + 1) = Ticks * y + Ticks /\ Ticks * y \in Int
      BY <1>3, <1>5
    <3> QED BY <1>3, <1>5, <1>6, <3>1, <3>2
  <2> QED BY <1>3, <2>1, <2>2
<1> QED BY <1>3, <1>4, <1>6, <1>7, <1>8 DEF x

\* The first minute the search looks at, and what the minute of a fire is.
LEMMA MinutesAfter ==
  ASSUME NEW t \in Nat
  PROVE  /\ MinuteAfter(t) \in Nat /\ MinuteAfter(t) > Shift
         /\ \A m \in Nat : m >= Shift => (m >= MinuteAfter(t) <=> InstantOf(m) > t)
<1> DEFINE q == t \div Ticks
<1>1. q \in Nat /\ t % Ticks \in 0..(Ticks - 1) /\ t = Ticks * q + (t % Ticks)
  BY CalendarFacts, Division
<1> DEFINE r == t % Ticks
<1> HIDE DEF q, r
<1>2. q \in Nat /\ r \in 0..(Ticks - 1) /\ t = Ticks * q + r /\ MinuteAfter(t) = q + Shift + 1
  BY <1>1 DEF q, r, MinuteAfter
<1>3. Ticks \in Nat /\ Ticks > 0 /\ Shift \in Nat /\ Ticks * q \in Nat
  BY <1>2, CalendarFacts
<1>4. ASSUME NEW m \in Nat, m >= Shift PROVE m >= MinuteAfter(t) <=> InstantOf(m) > t
  <2> DEFINE x == m - Shift
  <2>1. x \in Nat /\ (m >= MinuteAfter(t) <=> q + 1 <= x) /\ (~ (q + 1 <= x) => x <= q)
    BY <1>2, <1>3, <1>4
  <2>2. InstantOf(m) = Ticks * x /\ InstantOf(m) \in Nat
    BY <1>4, InstantsGrow
  <2> HIDE DEF x
  <2>3. ASSUME q + 1 <= x PROVE Ticks * x > t
    <3>1. Ticks * (q + 1) <= Ticks * x
      BY <1>2, <1>3, <2>1, <2>3, ProductGrows
    <3>2. Ticks * (q + 1) = Ticks * q + Ticks
      BY <1>2, <1>3
    <3> QED BY <1>2, <1>3, <2>2, <3>1, <3>2
  <2>4. ASSUME x <= q PROVE ~ (Ticks * x > t)
    <3>1. Ticks * x <= Ticks * q
      BY <1>2, <1>3, <2>1, <2>4, ProductGrows
    <3> QED BY <1>2, <1>3, <2>2, <3>1
  <2> QED BY <2>1, <2>2, <2>3, <2>4
<1> QED BY <1>2, <1>3, <1>4

\* The next fire after t is at the first minute of the search that matches.
LEMMA NextFireAt ==
  ASSUME NEW cron, Readable(cron), NEW t \in Nat
  PROVE  LET minutes == FireMinutes(cron, Schedule(cron), MinuteAfter(t))
         IN /\ minutes \in SUBSET Nat /\ \A m \in minutes : m >= MinuteAfter(t)
            /\ minutes = {} => NextFire(cron, t) = Absent
            /\ minutes # {} => NextFire(cron, t) = InstantOf(Min(minutes))
<1> DEFINE minutes == FireMinutes(cron, Schedule(cron), MinuteAfter(t))
<1>1. MinuteAfter(t) \in Nat
  BY MinutesAfter
<1>2. minutes \in SUBSET Nat /\ \A m \in minutes : m >= MinuteAfter(t)
  BY <1>1, CalendarFacts DEF FireMinutes
<1>3. Found(cron, Schedule(cron), MinuteAfter(t)) = IF minutes = {} THEN Absent ELSE Min(minutes)
  BY <1>1, ScheduleTimed, FoundIsLeast
<1> HIDE DEF minutes
<1>4. NextFire(cron, t) = InstantOf(Found(cron, Schedule(cron), MinuteAfter(t)))
  BY DEF NextFire
<1>5. InstantOf(Absent) = Absent
  BY DEF InstantOf
<1> QED BY <1>2, <1>3, <1>4, <1>5 DEF minutes

\* The fires of the search are those of the next so many days.
LEMMA FiresAreMinutes ==
  ASSUME NEW cron, NEW t \in Nat
  PROVE  FiresBetween(cron, t, SearchEnd(t)) =
           {InstantOf(m) : m \in FireMinutes(cron, Schedule(cron), MinuteAfter(t))}
<1> DEFINE end == MinuteAfter(t) + Horizon * DayMinutes
<1>0. Shift \in Nat /\ Horizon * DayMinutes \in Nat
  BY CalendarFacts
<1>1. MinuteAfter(t) \in Nat /\ end \in Nat /\ end >= Shift
  <2>1. MinuteAfter(t) \in Nat /\ MinuteAfter(t) > Shift
    BY MinutesAfter
  <2> QED BY <1>0, <2>1
<1> HIDE DEF end
<1>2. SearchEnd(t) = Ticks * (end - Shift)
  BY <1>1, InstantsGrow DEF SearchEnd, end
<1>3. (SearchEnd(t) \div Ticks) = end - Shift
  <2> DEFINE x == end - Shift
  <2>1. x \in Nat /\ Ticks \in Nat /\ Ticks > 0
    BY <1>1, CalendarFacts
  <2> HIDE DEF x
  <2>2. Ticks * x \in Nat /\ Ticks * x = Ticks * x + 0 /\ 0 \in 0..(Ticks - 1)
    BY <2>1
  <2>3. (Ticks * x) \div Ticks = x
    BY <2>1, <2>2, OneQuotient
  <2> QED BY <1>2, <2>3 DEF x
<1>4. (SearchEnd(t) \div Ticks) + Shift = end
  BY <1>1, <1>3, CalendarFacts
<1> QED BY <1>4 DEF FiresBetween, FireMinutes, end

\* The next fire after an instant is the least of the fires of the search.
LEMMA NextFireLeast ==
  ASSUME NEW cron, Readable(cron), NEW t \in Nat
  PROVE  LET fires == FiresBetween(cron, t, SearchEnd(t))
         IN NextFire(cron, t) = IF fires = {} THEN Absent ELSE Min(fires)
<1> DEFINE minutes == FireMinutes(cron, Schedule(cron), MinuteAfter(t))
           fires == {InstantOf(m) : m \in minutes}
<1>1. FiresBetween(cron, t, SearchEnd(t)) = fires
  BY FiresAreMinutes
<1>2. /\ minutes \in SUBSET Nat /\ \A m \in minutes : m >= MinuteAfter(t)
      /\ minutes = {} => NextFire(cron, t) = Absent
      /\ minutes # {} => NextFire(cron, t) = InstantOf(Min(minutes))
  BY NextFireAt
<1>3. \A m \in minutes : m \in Nat /\ m >= Shift
  BY <1>2, MinutesAfter, CalendarFacts
<1> HIDE DEF minutes
<1>4. CASE minutes = {}
  BY <1>1, <1>2, <1>4
<1>5. CASE minutes # {}
  <2> DEFINE first == Min(minutes)
  <2>1. first \in minutes /\ \A m \in minutes : first <= m
    BY <1>2, <1>5, Least
  <2>2. \A m \in minutes : InstantOf(m) \in Nat /\ InstantOf(first) <= InstantOf(m)
    BY <1>3, <2>1, InstantsGrow
  <2>3. fires \in SUBSET Nat /\ fires # {}
    BY <1>5, <2>2
  <2>4. Min(fires) \in fires /\ \A f \in fires : Min(fires) <= f
    BY <2>3, Least
  <2> HIDE DEF first
  <2>5. InstantOf(first) \in fires /\ InstantOf(first) \in Nat
    BY <2>1, <2>2
  <2>6. \A f \in fires : InstantOf(first) <= f /\ f \in Nat
    BY <2>2
  <2> HIDE DEF fires
  <2>7. Min(fires) = InstantOf(first)
    BY <2>4, <2>5, <2>6
  <2> QED BY <1>1, <1>2, <1>5, <2>5, <2>7 DEF first
<1> QED BY <1>4, <1>5

-----------------------------------------------------------------------------
(* What is asked about is what may be asked about.                            *)
Asking ==
  /\ ask.about = "access" => ask.user \in Users
  /\ ask.about = "figures" => ask.user \in Users /\ ask.world \in Worlds /\ ask.period \in Periods
  /\ ask.about = "trail" => ask.logs \in Trails
  /\ ask.about = "form" => ask.cml \in Clusters /\ ask.form \in Assets
  /\ ask.about = "model" => ask.mmp \in Monitors /\ \E b \in DOMAIN ask.mmp.models : ask.repo = b[1] /\ ask.model = b[2]
  /\ ask.about = "draft" => /\ ask.cml \in Platforms /\ ask.links \in Links /\ ask.given \in Drafts
                            /\ ask.resolved \in Drafting!Resolutions(ask.cml, ask.given)
  /\ ask.about = "reference" =>
       /\ \E r \in References : ask.raw = r.raw /\ ask.fallbacks = r.fallbacks
       /\ ask.pick \in Drafting!MmpPicks(Directory, Hidden, ask.raw, ask.fallbacks)
  /\ ask.about = "fire" => ask.at \in Instants
  /\ ask.about = "deadline" =>
       /\ ask.job \in JobsOf(Customs \cup {Absent}) /\ {ask.last, ask.now} \subseteq Moments
       /\ ask.last <= ask.now
  /\ ask.about = "advice" =>
       /\ ask.job \in JobsOf({Absent}) /\ ask.gaps \in Gaps /\ {ask.last, ask.now} \subseteq Moments
       /\ ask.last <= ask.now
  /\ ask.about = "history" => ask.cron \in Crons /\ \E a, b \in Moments : ask.runs = {a, b}

\* Every question is about what may be asked about.
LEMMA AlwaysAsking == Spec => []Asking
<1>1. Init => Asking
  BY DEF Init, Nothing, Asking
<1>2. Asking /\ [Next]_vars => Asking'
  <2> SUFFICES ASSUME Asking, [Next]_vars PROVE Asking'
    OBVIOUS
  <2>1. CASE AskAccess
    BY <2>1 DEF AskAccess, Asking
  <2>2. CASE AskFigures
    BY <2>2 DEF AskFigures, Asking
  <2>3. CASE AskTrail
    BY <2>3 DEF AskTrail, Asking
  <2>4. CASE AskForm
    BY <2>4 DEF AskForm, Asking
  <2>5. CASE AskModel
    BY <2>5 DEF AskModel, Asking
  <2>6. CASE AskDraft
    BY <2>6 DEF AskDraft, Asking
  <2>7. CASE AskReference
    BY <2>7 DEF AskReference, Asking
  <2>8. CASE AskFire
    BY <2>8 DEF AskFire, Asking
  <2>9. CASE AskDeadline
    BY <2>9 DEF AskDeadline, Asking
  <2>10. CASE AskAdvice
    BY <2>10 DEF AskAdvice, Asking
  <2>11. CASE AskHistory
    BY <2>11 DEF AskHistory, Asking
  <2>12. CASE UNCHANGED vars
    BY <2>12 DEF vars, Asking
  <2> QED BY <2>1, <2>2, <2>3, <2>4, <2>5, <2>6, <2>7, <2>8, <2>9, <2>10, <2>11, <2>12 DEF Next
<1> QED BY <1>1, <1>2, PTL DEF Spec

\* For every calendar, cron and instant the search for the next fire finds the
\* first minute that matches all five fields, if its horizon has one
\* (next_fire_after).
THEOREM SearchesAreExact == Spec => []NextFireIsLeast
<1>1. Asking => NextFireIsLeast
  BY NextFireLeast, RulesAssumption DEF Asking, NextFireIsLeast
<1> QED BY <1>1, AlwaysAsking, PTL

-----------------------------------------------------------------------------
(* Staleness.                                                                 *)

\* The next fire is later.
LEMMA NextFireLater ==
  ASSUME NEW cron, NEW t \in Nat, NextFire(cron, t) # Absent
  PROVE  NextFire(cron, t) \in Nat /\ NextFire(cron, t) > t
<1>1. Readable(cron)
  BY DEF NextFire
<1> DEFINE minutes == FireMinutes(cron, Schedule(cron), MinuteAfter(t))
<1>2. /\ minutes \in SUBSET Nat /\ \A m \in minutes : m >= MinuteAfter(t)
      /\ minutes = {} => NextFire(cron, t) = Absent
      /\ minutes # {} => NextFire(cron, t) = InstantOf(Min(minutes))
  BY <1>1, NextFireAt
<1> HIDE DEF minutes
<1>3. Min(minutes) \in minutes /\ NextFire(cron, t) = InstantOf(Min(minutes))
  BY <1>2, Least
<1> DEFINE m == Min(minutes)
<1> HIDE DEF m
<1>4. m \in Nat /\ m >= MinuteAfter(t) /\ NextFire(cron, t) = InstantOf(m)
  BY <1>2, <1>3 DEF m
<1>5. MinuteAfter(t) \in Nat /\ MinuteAfter(t) > Shift /\ Shift \in Nat
  BY MinutesAfter, CalendarFacts
<1>6. m >= Shift
  BY <1>4, <1>5
<1>7. InstantOf(m) > t
  BY <1>4, <1>6, MinutesAfter
<1>8. InstantOf(m) \in Nat
  BY <1>4, <1>6, InstantsGrow
<1> QED BY <1>4, <1>7, <1>8

\* Of two numbers the least and the greatest are among them.
LEMMA LeastOfTwo ==
  ASSUME NEW a \in Int, NEW b \in Int
  PROVE  /\ Min({a, b}) \in {a, b} /\ Min({a, b}) <= a /\ Min({a, b}) <= b
         /\ Max({a, b}) \in {a, b} /\ Max({a, b}) >= a /\ Max({a, b}) >= b
<1>1. \E x \in {a, b} : \A y \in {a, b} : x <= y
  BY a <= b \/ b <= a
<1>2. \E x \in {a, b} : \A y \in {a, b} : x >= y
  BY a <= b \/ b <= a
<1> QED BY <1>1, <1>2 DEF Min, Max

\* A window around a fire is never wider than it is configured.
LEMMA HalfGaps ==
  ASSUME NEW cron, NEW t \in Nat, NEW window \in Nat, NextFire(cron, t) # Absent
  PROVE  HalfGap(cron, t, window) \in Nat /\ HalfGap(cron, t, window) <= window * Ticks
<1> DEFINE next == NextFire(cron, t)  second == NextFire(cron, next)
<1>1. next \in Nat /\ (second # Absent => second \in Nat /\ second > next)
  BY NextFireLater
<1>2. HalfGap(cron, t, window) = HalfOf(next, second, window)
  BY DEF HalfGap
<1> HIDE DEF next, second
<1>3. window * Ticks \in Nat
  BY CalendarFacts
<1> DEFINE w == window * Ticks  half == (second - next) \div 2
<1>4. CASE second = Absent
  BY <1>2, <1>3, <1>4 DEF HalfOf
<1>5. CASE second # Absent
  <2>1. HalfOf(next, second, window) = Min({w, half})
    BY <1>5 DEF HalfOf
  <2>2. w \in Nat /\ half \in Nat
    BY <1>1, <1>3, <1>5
  <2> HIDE DEF w, half
  <2>3. Min({w, half}) \in {w, half} /\ Min({w, half}) <= w
    <3>1. w \in Int /\ half \in Int
      BY <2>2
    <3> QED BY <3>1, LeastOfTwo
  <2> QED BY <1>2, <2>1, <2>2, <2>3 DEF w
<1> QED BY <1>4, <1>5

\* A run is anchored where it started or later.
LEMMA AnchorsLater ==
  ASSUME NEW cron, NEW last \in Nat
  PROVE  Anchor(cron, last) \in Nat /\ Anchor(cron, last) >= last
BY DEF Anchor

\* Two gaps or more have a median.
LEMMA Medians ==
  ASSUME NEW gaps \in Seq(Nat), Len(gaps) >= 2
  PROVE  TwiceMedian(gaps) \in Nat
<1> DEFINE n == Len(gaps)  k == n \div 2
<1>1. n \in Nat /\ n >= 2 /\ k \in 1..n /\ k + 1 \in 1..n
  OBVIOUS
<1>2. gaps[k] \in Nat /\ gaps[k + 1] \in Nat
  <2> HIDE DEF k
  <2> QED BY <1>1
<1>3. TwiceMedian(gaps) \in {2 * gaps[k + 1], gaps[k] + gaps[k + 1]}
  BY DEF TwiceMedian
<1> HIDE DEF k
<1> QED BY <1>2, <1>3

\* Rounding up loses nothing.
LEMMA Ceilings ==
  ASSUME NEW a \in Nat, NEW b \in Nat, b > 0
  PROVE  CeilDiv(a, b) \in Nat /\ b * CeilDiv(a, b) \in Nat /\ b * CeilDiv(a, b) >= a
<1> DEFINE c == a + b - 1  q == c \div b
<1>1. c \in Nat /\ CeilDiv(a, b) = q
  BY DEF CeilDiv
<1>2. q \in Nat /\ (c % b) \in 0..(b - 1) /\ c = b * q + (c % b)
  BY <1>1, Division
<1> DEFINE r == c % b
<1> HIDE DEF q, r
<1>3. q \in Nat /\ r \in 0..(b - 1) /\ a + b - 1 = b * q + r
  BY <1>2 DEF r
<1>4. b * q \in Nat
  BY <1>3
<1>5. b * q >= a
  BY <1>3, <1>4
<1> QED BY <1>1, <1>3, <1>4, <1>5

\* A threshold that follows the advice is at least the median gap between the runs.
LEMMA AdviceSpans ==
  ASSUME NEW job \in JobsOf({Absent}), NEW gaps \in Seq(Nat), NEW now,
         DraftedAdvice(job, gaps, 2, now) # Absent
  PROVE  LET advised == DraftedAdvice(job, gaps, 2, now)
         IN /\ TwiceMedian(gaps) \in Nat /\ advised \in Nat /\ Ticks * advised \in Nat
            /\ 2 * (Ticks * advised) >= TwiceMedian(gaps)
<1> DEFINE advised == DraftedAdvice(job, gaps, 2, now)
           median == TwiceMedian(gaps)
           factor == Factor[job.preset]
<1>1. Len(gaps) >= 2 /\ advised = CeilDiv(median * factor, 4 * Ticks)
  BY DEF DraftedAdvice, Advice
<1>2. Ticks \in Nat /\ Ticks > 0 /\ 4 * Ticks \in Nat /\ 4 * Ticks > 0
  BY CalendarFacts
<1>3. factor \in Nat /\ factor >= 2
  BY DEF JobsOf, Presets, Factor
<1>4. median \in Nat
  BY <1>1, Medians
<1> HIDE DEF median, factor, advised
<1>5. median * factor \in Nat /\ median * factor >= median * 2
  BY <1>3, <1>4, ProductGrows
<1>6. advised \in Nat /\ (4 * Ticks) * advised \in Nat /\ (4 * Ticks) * advised >= median * factor
  BY <1>1, <1>2, <1>5, Ceilings
<1>7. (4 * Ticks) * advised = 4 * (Ticks * advised) /\ Ticks * advised \in Nat
  BY <1>2, <1>6
<1> DEFINE t == Ticks * advised
<1> HIDE DEF t
<1>8. t \in Nat /\ 4 * t >= median * 2
  BY <1>4, <1>5, <1>6, <1>7 DEF t
<1>9. 2 * t >= median
  BY <1>4, <1>8
<1> QED BY <1>4, <1>6, <1>8, <1>9 DEF t, median, advised

\* So a job that keeps to them is not stale under it, whatever its cron.
LEMMA AdviceKeeps ==
  ASSUME NEW job \in JobsOf({Absent}), NEW gaps \in Seq(Nat), NEW last \in Nat, NEW now \in Nat, NEW cron \in Crons,
         DraftedAdvice(job, gaps, 2, now) # Absent, 2 * (now - last) <= TwiceMedian(gaps)
  PROVE  ~IsStale([cron |-> cron, preset |-> job.preset, custom |-> DraftedAdvice(job, gaps, 2, now)], last, now)
<1> DEFINE advised == DraftedAdvice(job, gaps, 2, now)
           set == [cron |-> cron, preset |-> job.preset, custom |-> advised]
           median == TwiceMedian(gaps)
<1>1. set.cron = cron /\ set.custom = advised
  OBVIOUS
<1>2. advised # Absent /\ 2 * (now - last) <= median
  OBVIOUS
<1>3. median \in Nat /\ advised \in Nat /\ Ticks * advised \in Nat /\ 2 * (Ticks * advised) >= median
  BY AdviceSpans
<1> HIDE DEF advised, set, median
<1>4. Deadline(set, last) = Anchor(cron, last) + advised * Ticks
  BY <1>1, <1>2 DEF Deadline, Threshold, ThresholdTo
<1>5. advised * Ticks = Ticks * advised
  BY <1>3, CalendarFacts
<1>6. Anchor(cron, last) \in Nat /\ Anchor(cron, last) >= last
  BY AnchorsLater
<1> DEFINE t == Ticks * advised
<1> HIDE DEF t
<1>7. t \in Nat /\ 2 * (now - last) <= 2 * t
  BY <1>2, <1>3 DEF t
<1>8. now - last <= t
  BY <1>7
<1>9. Deadline(set, last) = Anchor(cron, last) + t
  BY <1>4, <1>5 DEF t
<1>10. ~(now > Deadline(set, last))
  BY <1>6, <1>7, <1>8, <1>9
<1>11. last # Absent
  BY DEF Absent
<1> QED BY <1>10, <1>11 DEF IsStale, advised, set

\* A threshold taken from the gap to the next fire spans it, but for a minute.
LEMMA ThresholdSpans ==
  ASSUME NEW d \in Nat, NEW f \in Nat, f >= 2
  PROVE  /\ (d * f) \div (2 * Ticks) \in Nat
         /\ Ticks * ((d * f) \div (2 * Ticks)) \in Nat /\ Ticks * ((d * f) \div (2 * Ticks)) > d - Ticks
<1> DEFINE t == 2 * Ticks  e == 2 * d  q == e \div t  p == (d * f) \div t
<1>1. t \in Nat /\ t > 0 /\ e \in Nat /\ d * f \in Nat /\ Ticks \in Nat /\ Ticks > 0
  BY CalendarFacts
<1>2. e <= d * f
  <2>1. d * 2 <= d * f
    BY ProductGrows
  <2> QED BY <2>1
<1>3. p \in Nat /\ q \in Nat /\ q <= p
  BY <1>1, <1>2, QuotientGrows, Division
<1>4. (e % t) \in 0..(t - 1) /\ e = t * q + (e % t)
  BY <1>1, Division
<1> DEFINE r == e % t
<1>5. r \in 0..(t - 1) /\ e = t * q + r
  BY <1>4
<1> HIDE DEF q, p, r
<1>6. t * q = 2 * (Ticks * q) /\ Ticks * q \in Nat
  BY <1>1, <1>3
<1>7. Ticks * q > d - Ticks
  BY <1>1, <1>5, <1>6
<1>8. Ticks * p \in Nat /\ Ticks * p >= Ticks * q
  BY <1>1, <1>3, ProductGrows
<1> QED BY <1>1, <1>3, <1>6, <1>7, <1>8 DEF p

\* A stale job has missed a fire: its threshold is never shorter than the gap between
\* the run, or the fire it stands for, and the next fire.
LEMMA StaleIsDue ==
  ASSUME NEW job \in JobsOf(Customs \cup {Absent}), NEW last \in Nat, NEW now \in Nat,
         job.custom = Absent, NextFire(job.cron, last) # Absent, IsStale(job, last, now)
  PROVE  LET first == NextFire(job.cron, last)
             early == first - last <= HalfGap(job.cron, last, EarlyWindow)
             due == IF early THEN NextFire(job.cron, first) ELSE first
         IN due # Absent => now > due - Ticks
<1> DEFINE first == NextFire(job.cron, last)
           half == HalfGap(job.cron, last, EarlyWindow)
           early == first - last <= half
           due == IF early THEN NextFire(job.cron, first) ELSE first
           anchor == Anchor(job.cron, last)
           factor == Factor[job.preset]
<1>1. first \in Nat /\ first > last
  BY NextFireLater
<1>2. half \in Nat
  <2>1. EarlyWindow \in Nat
    BY CalendarAssumption
  <2> QED BY <2>1, HalfGaps
<1>3. anchor = IF early THEN first ELSE last
  <2> HIDE DEF half, first
  <2>1. first \in last..(last + half) <=> early
    BY <1>1, <1>2
  <2> QED BY <2>1 DEF Anchor, first, half
<1>4. due = NextFire(job.cron, anchor)
  BY <1>3
<1>5. factor \in Nat /\ factor >= 2
  BY DEF JobsOf, Presets, Factor
<1>6. anchor \in Nat
  BY <1>1, <1>3
<1> SUFFICES ASSUME due # Absent PROVE now > due - Ticks
  OBVIOUS
<1>7. due \in Nat /\ due > anchor
  <2> HIDE DEF due, anchor
  <2> QED BY <1>4, <1>6, NextFireLater
<1>8. last # Absent
  BY DEF Absent
<1>9. now > anchor + Threshold(job, anchor) * Ticks
  BY <1>8 DEF IsStale, Deadline
<1>10. Threshold(job, anchor) = Max({Floor, ((due - anchor) * factor) \div (2 * Ticks)})
  <2> HIDE DEF due, anchor
  <2> QED BY <1>4 DEF Threshold, ThresholdTo
<1> HIDE DEF first, half, early, due, anchor, factor
<1> DEFINE d == due - anchor  p == (d * factor) \div (2 * Ticks)
<1>11. d \in Nat
  BY <1>6, <1>7
<1> HIDE DEF d
<1>12. p \in Nat /\ Ticks * p \in Nat /\ Ticks * p > d - Ticks
  BY <1>5, <1>11, ThresholdSpans
<1> HIDE DEF p
<1>13. Floor \in Nat /\ Ticks \in Nat
  BY CalendarAssumption
<1>14. Threshold(job, anchor) = Max({Floor, p})
  BY <1>10 DEF d, p
<1> DEFINE th == Threshold(job, anchor)
<1> HIDE DEF th
<1>15. th \in Nat /\ th >= p
  <2>1. Floor \in Int /\ p \in Int
    BY <1>12, <1>13
  <2>2. Max({Floor, p}) \in {Floor, p} /\ Max({Floor, p}) >= p
    BY <2>1, LeastOfTwo
  <2> QED BY <1>12, <1>13, <1>14, <2>2 DEF th
<1>16. Ticks * th \in Nat /\ Ticks * th >= Ticks * p /\ th * Ticks = Ticks * th
  BY <1>12, <1>13, <1>15, ProductGrows
<1>17. now > anchor + th * Ticks
  BY <1>9 DEF th
<1> QED BY <1>6, <1>7, <1>11, <1>12, <1>13, <1>16, <1>17 DEF d

\* Whatever the schedule, a job is called stale only once its next run is due, and
\* under the advice not while it keeps to its gaps (validate_timestamp, draft_job_sla).
THEOREM StalenessIsFair == Spec => []StalenessFair
<1>1. Asking => StaleOnlyWhenDue
  <2> SUFFICES ASSUME Asking, ask.about = "deadline", ask.job.custom = Absent,
                      NextFire(ask.job.cron, ask.last) # Absent, IsStale(ask.job, ask.last, ask.now)
               PROVE  LET first == NextFire(ask.job.cron, ask.last)
                          early == first - ask.last <= HalfGap(ask.job.cron, ask.last, EarlyWindow)
                          due == IF early THEN NextFire(ask.job.cron, first) ELSE first
                      IN due # Absent => ask.now > due - Ticks
    BY DEF StaleOnlyWhenDue
  <2>1. ask.job \in JobsOf(Customs \cup {Absent}) /\ ask.last \in Nat /\ ask.now \in Nat
    BY RulesAssumption DEF Asking
  <2> QED BY <2>1, StaleIsDue
<1>2. Asking => AdviceKeepsCadence
  <2> SUFFICES ASSUME Asking, ask.about = "advice", NEW c \in Crons,
                      DraftedAdvice(ask.job, ask.gaps, 2, ask.now) # Absent,
                      2 * (ask.now - ask.last) <= TwiceMedian(ask.gaps)
               PROVE  ~IsStale([cron |-> c, preset |-> ask.job.preset,
                                custom |-> DraftedAdvice(ask.job, ask.gaps, 2, ask.now)], ask.last, ask.now)
    BY DEF AdviceKeepsCadence
  <2>1. ask.job \in JobsOf({Absent}) /\ ask.gaps \in Seq(Nat) /\ ask.last \in Nat /\ ask.now \in Nat
    BY RulesAssumption DEF Asking
  <2> QED BY <2>1, AdviceKeeps
<1> QED BY <1>1, <1>2, AlwaysAsking, PTL DEF StalenessFair

-----------------------------------------------------------------------------
(* Runs a schedule started.                                                   *)

\* An instant of a fire gives back its minute.
LEMMA FireIsMinute ==
  ASSUME NEW m \in Nat, m >= Shift
  PROVE  InstantOf(m) \div Ticks = m - Shift
<1> DEFINE x == m - Shift
<1>1. x \in Nat /\ Ticks \in Nat /\ Ticks > 0 /\ InstantOf(m) = Ticks * x /\ InstantOf(m) \in Nat
  BY CalendarFacts, InstantsGrow
<1> HIDE DEF x
<1>2. Ticks * x = Ticks * x + 0 /\ 0 \in 0..(Ticks - 1) /\ Ticks * x \in Nat
  BY <1>1
<1>3. (Ticks * x) \div Ticks = x
  BY <1>1, <1>2, OneQuotient
<1> QED BY <1>1, <1>3 DEF x

\* A run counts as scheduled when a fire is within half the gap around it, and only
\* when one is nearly so.
LEMMA RunsCounted ==
  ASSUME NEW cron, NEW t \in Nat, NextFire(cron, t) # Absent,
         2 * Tolerance + 1 <= Horizon * DayMinutes, (Tolerance + 1) * Ticks <= t
  PROVE  LET half == HalfGap(cron, t, Tolerance)
             near(slack) == \E f \in FiresBetween(cron, t - half - slack - Ticks, t + half) :
                              Off(t, f) <= half + slack
         IN (near(0) => InSchedule(cron, t)) /\ (InSchedule(cron, t) => near(2 * Ticks))
<1> DEFINE half == HalfGap(cron, t, Tolerance)
           near(slack) == \E f \in FiresBetween(cron, t - half - slack - Ticks, t + half) :
                            Off(t, f) <= half + slack
           ws == t - half - Ticks
           end == t + half
           last == Horizon * DayMinutes
           S == Schedule(cron)
           minutes == FireMinutes(cron, S, MinuteAfter(ws))
<1>0. Tolerance \in Nat
  BY CalendarAssumption
<1>1. Ticks \in Nat /\ Ticks > 0 /\ Shift \in Nat /\ last \in Nat
  BY CalendarFacts
<1>2. half \in Nat /\ half <= Ticks * Tolerance /\ Ticks * Tolerance \in Nat /\ Ticks * (Tolerance + 1) <= t
      /\ Ticks * (Tolerance + 1) = Ticks * Tolerance + Ticks
  <2>1. half \in Nat /\ half <= Tolerance * Ticks
    BY <1>0, HalfGaps
  <2> HIDE DEF half
  <2> QED BY <1>0, <1>1, <2>1
<1>3. ws \in Nat /\ end \in Nat /\ WindowStart(cron, t) = ws
  <2>1. WindowStart(cron, t) = ws
    BY DEF WindowStart
  <2> HIDE DEF half
  <2> QED BY <1>1, <1>2, <2>1
<1>4. Readable(cron) /\ t # Absent
  BY DEF NextFire, Absent
<1>5. /\ minutes \in SUBSET Nat /\ \A m \in minutes : m >= MinuteAfter(ws)
      /\ minutes = {} => NextFire(cron, ws) = Absent
      /\ minutes # {} => NextFire(cron, ws) = InstantOf(Min(minutes))
  BY <1>3, <1>4, NextFireAt
<1>6. InSchedule(cron, t) <=> NextFire(cron, ws) \in 0..end
  BY <1>3, <1>4 DEF InSchedule
<1>7. MinuteAfter(ws) \in Nat /\ MinuteAfter(ws) > Shift /\ MinuteAfter(ws) = (ws \div Ticks) + Shift + 1
  BY <1>3, MinutesAfter DEF MinuteAfter
<1>8. (ws \div Ticks) \in Nat /\ (end \div Ticks) \in Nat
  BY <1>1, <1>3, Division
<1>9. ASSUME near(0) PROVE InSchedule(cron, t)
  <2>1. PICK f \in FiresBetween(cron, ws, end) : Off(t, f) <= half
    <3>1. t - half - 0 - Ticks = ws /\ half + 0 = half
      BY <1>1, <1>2
    <3> QED BY <1>9, <3>1
  <2>2. PICK m \in MinuteAfter(ws)..((end \div Ticks) + Shift) : Matches(cron, S, m) /\ f = InstantOf(m)
    BY <2>1 DEF FiresBetween
  <2>3. m \in Nat /\ m >= Shift /\ m <= (end \div Ticks) + Shift
    BY <1>1, <1>7, <1>8, <2>2
  <2>4. (end \div Ticks) <= (ws \div Ticks) + 2 * Tolerance + 1
    <3> DEFINE k == 2 * Tolerance + 1  q == ws \div Ticks  c == Ticks * (q + k) + (ws % Ticks)
    <3>1. k \in Nat /\ q \in Nat /\ (ws % Ticks) \in 0..(Ticks - 1) /\ ws = Ticks * q + (ws % Ticks)
      BY <1>0, <1>1, <1>3, Division
    <3> DEFINE r == ws % Ticks
    <3> HIDE DEF q, r
    <3>2. r \in 0..(Ticks - 1) /\ ws = Ticks * q + r
      BY <3>1 DEF q, r
    <3>3. Ticks * k = 2 * (Ticks * Tolerance) + Ticks
      BY <1>0, <1>1
    <3>4. end <= ws + Ticks * k
      <4> DEFINE x == Ticks * Tolerance  y == Ticks * k
      <4>1. x \in Nat /\ half \in Nat /\ half <= x /\ y = 2 * x + Ticks
        BY <1>2, <3>3
      <4> HIDE DEF half, x, y
      <4>2. t + half <= t - half - Ticks + y
        BY <1>1, <4>1
      <4> QED BY <4>2 DEF y
    <3> HIDE DEF k
    <3>5. Ticks * (q + k) = Ticks * q + Ticks * k /\ Ticks * (q + k) \in Nat /\ q + k \in Nat
      BY <1>1, <3>1
    <3> DEFINE e == Ticks * (q + k) + r
    <3>6. end <= e /\ e \in Nat
      <4> HIDE DEF end, ws
      <4> QED BY <1>1, <1>3, <3>1, <3>2, <3>4, <3>5
    <3>7. e \div Ticks = q + k
      BY <1>1, <3>2, <3>5, <3>6, OneQuotient
    <3> HIDE DEF e, end
    <3>8. end \div Ticks <= e \div Ticks
      BY <1>1, <1>3, <3>6, QuotientGrows
    <3>9. (end \div Ticks) <= (ws \div Ticks) + k
      BY <3>7, <3>8 DEF q
    <3> QED BY <1>0, <1>3, <1>8, <3>9 DEF k
  <2>5. m <= MinuteAfter(ws) + last
    <3>0. 2 * Tolerance + 1 <= last
      OBVIOUS
    <3> HIDE DEF last, ws, end
    <3> QED BY <1>0, <1>1, <1>7, <1>8, <2>3, <2>4, <3>0
  <2>6. m \in minutes
    BY <1>7, <2>2, <2>3, <2>5 DEF FireMinutes
  <2> HIDE DEF minutes
  <2> DEFINE first == Min(minutes)
  <2>7. first \in minutes /\ first <= m
    BY <1>5, <2>6, Least
  <2>8. first \in Nat /\ first >= Shift /\ NextFire(cron, ws) = InstantOf(first)
    <3>1. first \in Nat /\ first >= MinuteAfter(ws)
      BY <1>5, <2>7
    <3>2. NextFire(cron, ws) = InstantOf(first)
      BY <1>5, <2>6
    <3> HIDE DEF first, ws
    <3> QED BY <1>1, <1>7, <3>1, <3>2
  <2> HIDE DEF first
  <2>9. InstantOf(first) \in Nat /\ InstantOf(first) <= InstantOf(m) /\ InstantOf(m) \in Nat
    BY <2>3, <2>7, <2>8, InstantsGrow
  <2>10. f <= end
    <3> HIDE DEF half
    <3> QED BY <1>2, <2>1, <2>2, <2>9 DEF Off
  <2> QED BY <1>3, <1>6, <2>2, <2>8, <2>9, <2>10
<1>10. ASSUME InSchedule(cron, t) PROVE near(2 * Ticks)
  <2> DEFINE f == NextFire(cron, ws)  from == t - half - 2 * Ticks - Ticks
  <2>1. f \in Nat /\ f <= end /\ f # Absent /\ f > ws
    <3>1. f \in 0..end
      BY <1>6, <1>10
    <3>2. f \in Nat /\ f <= end /\ f # Absent
      BY <1>3, <3>1 DEF Absent
    <3>3. f > ws
      BY <1>3, <3>2, NextFireLater
    <3> QED BY <3>2, <3>3
  <2>2. minutes # {} /\ f = InstantOf(Min(minutes))
    BY <1>5, <2>1
  <2> DEFINE m == Min(minutes)
  <2>3. m \in minutes
    BY <1>5, <2>2, Least
  <2>4. m \in Nat /\ m >= MinuteAfter(ws) /\ Matches(cron, S, m)
    BY <1>5, <2>3 DEF FireMinutes
  <2> HIDE DEF minutes, m
  <2>5. f = InstantOf(m) /\ m >= Shift
    BY <1>1, <1>7, <2>2, <2>4 DEF m
  <2>6. f \div Ticks = m - Shift
    BY <2>4, <2>5, FireIsMinute
  <2> HIDE DEF f
  <2>7. m <= (end \div Ticks) + Shift
    <3>1. f \div Ticks <= end \div Ticks
      BY <1>1, <1>3, <2>1, QuotientGrows
    <3> QED BY <1>1, <1>8, <2>4, <2>6, <3>1
  <2>8. from \in Int /\ from <= ws
    <3> HIDE DEF half
    <3> QED BY <1>1, <1>2
  <2>9. MinuteAfter(from) \in Int /\ MinuteAfter(from) <= m
    <3>1. from \div Ticks <= ws \div Ticks /\ from \div Ticks \in Int
      <4> HIDE DEF from
      <4> QED BY <1>1, <1>3, <2>8, QuotientGrows
    <3> HIDE DEF from
    <3> QED BY <1>1, <1>7, <1>8, <2>4, <3>1 DEF MinuteAfter
  <2>10. f \in FiresBetween(cron, from, end)
    <3>1. m \in MinuteAfter(from)..((end \div Ticks) + Shift)
      BY <1>1, <1>8, <2>4, <2>7, <2>9
    <3> HIDE DEF from, end, S
    <3> QED BY <2>4, <2>5, <3>1 DEF FiresBetween, S
  <2>11. Off(t, f) <= half + 2 * Ticks
    <3> HIDE DEF half
    <3> QED BY <1>1, <1>2, <2>1 DEF Off
  <2> QED BY <2>10, <2>11
<1> QED BY <1>9, <1>10

\* If the search looks farther ahead than the tolerance lets runs be off, and no
\* instant is in the first minutes of the year 1: a failed run raises an alert if,
\* and but for the minute cut off only if, the schedule started it
\* (is_within_cron_schedule).
THEOREM ScheduledCount ==
  ASSUME 2 * Tolerance + 1 <= Horizon * DayMinutes,
         \A t \in Instants : (Tolerance + 1) * Ticks <= t
  PROVE  Spec => []ScheduledRunsCount
<1>1. Asking => ScheduledRunsCount
  <2> SUFFICES ASSUME ask.about = "fire", NextFire(ask.cron, ask.at) # Absent, ask.at \in Instants
               PROVE  LET half == HalfGap(ask.cron, ask.at, Tolerance)
                          near(slack) == \E f \in FiresBetween(ask.cron, ask.at - half - slack - Ticks, ask.at + half) :
                                           Off(ask.at, f) <= half + slack
                      IN (near(0) => InSchedule(ask.cron, ask.at)) /\ (InSchedule(ask.cron, ask.at) => near(2 * Ticks))
    BY DEF Asking, ScheduledRunsCount
  <2>1. ask.at \in Nat /\ (Tolerance + 1) * Ticks <= ask.at
    BY RulesAssumption
  <2> QED BY <2>1, RunsCounted
<1> QED BY <1>1, AlwaysAsking, PTL

-----------------------------------------------------------------------------
(* Sets in order.                                                             *)

\* A finite set of which below gives what comes before each: all differ, and what
\* is before another is less.
Ranked(S, below) ==
  /\ IsFiniteSet(S)
  /\ below \in [S -> SUBSET S]
  /\ \A x \in S : x \notin below[x]
  /\ \A x, y \in S : x # y => x \in below[y] \/ y \in below[x]
  /\ \A x, y \in S : x \in below[y] => below[x] \subseteq below[y]

\* The one with as many before it comes at each place.
InRank(S, below) ==
  [n \in 1..Cardinality(S) |-> CHOOSE x \in S : Cardinality(below[x]) = n - 1]

\* What comes earlier has fewer before it.
LEMMA EarlierIsFewer ==
  ASSUME NEW S, NEW below, Ranked(S, below), NEW x \in S, NEW y \in S, x \in below[y]
  PROVE  /\ Cardinality(below[x]) \in Nat /\ Cardinality(below[y]) \in Nat
         /\ Cardinality(below[x]) < Cardinality(below[y])
<1>1. IsFiniteSet(S) /\ below[x] \in SUBSET S /\ below[y] \in SUBSET S
  BY DEF Ranked
<1>2. IsFiniteSet(below[y])
  BY <1>1, FS_Subset
<1>3. below[x] \in SUBSET below[y]
  BY DEF Ranked
<1>4. x \notin below[x]
  BY DEF Ranked
<1>5. IsFiniteSet(below[x])
  BY <1>1, FS_Subset
<1>6. Cardinality(below[x]) <= Cardinality(below[y])
      /\ (Cardinality(below[y]) = Cardinality(below[x]) => below[y] = below[x])
  BY <1>2, <1>3, FS_Subset
<1>7. Cardinality(below[x]) # Cardinality(below[y])
  BY <1>4, <1>6
<1>8. Cardinality(below[x]) \in Nat /\ Cardinality(below[y]) \in Nat
  BY <1>2, <1>5, FS_CardinalityType
<1> QED BY <1>6, <1>7, <1>8

\* There is one for each place: as many places as there are elements, and no two
\* have the same.
LEMMA RanksAreFull ==
  ASSUME NEW S, NEW below, Ranked(S, below)
  PROVE  LET rank == [x \in S |-> Cardinality(below[x])]
         IN /\ Cardinality(S) \in Nat
            /\ rank \in [S -> 0..(Cardinality(S) - 1)]
            /\ \A x, y \in S : rank[x] = rank[y] => x = y
            /\ \A n \in 0..(Cardinality(S) - 1) : \E x \in S : rank[x] = n
<1> DEFINE N == Cardinality(S)
           rank == [x \in S |-> Cardinality(below[x])]
<1>1. IsFiniteSet(S) /\ N \in Nat
  BY FS_CardinalityType DEF Ranked
<1>2. ASSUME NEW x \in S PROVE Cardinality(below[x]) \in 0..(N - 1)
  <2>1. below[x] \in SUBSET S /\ x \notin below[x]
    BY DEF Ranked
  <2>2. IsFiniteSet(below[x]) /\ Cardinality(below[x]) <= N /\ (N = Cardinality(below[x]) => S = below[x])
    BY <1>1, <2>1, FS_Subset
  <2>3. Cardinality(below[x]) \in Nat
    BY <2>2, FS_CardinalityType
  <2>4. Cardinality(below[x]) # N
    BY <2>1, <2>2
  <2> QED BY <1>1, <2>2, <2>3, <2>4
<1>3. rank \in [S -> 0..(N - 1)]
  BY <1>2
<1>4. ASSUME NEW x \in S, NEW y \in S, rank[x] = rank[y] PROVE x = y
  <2>1. Cardinality(below[x]) = Cardinality(below[y])
    BY <1>4
  <2>2. CASE x \in below[y]
    BY <2>1, <2>2, EarlierIsFewer
  <2>3. CASE y \in below[x]
    BY <2>1, <2>3, EarlierIsFewer
  <2> QED BY <2>2, <2>3 DEF Ranked
<1>5. rank \in Injection(S, 0..(N - 1))
  BY <1>3, <1>4 DEF Injection, IsInjective
<1>6. IsFiniteSet(0..(N - 1)) /\ Cardinality(0..(N - 1)) = N
  <2>1. 0 \in Int /\ N - 1 \in Int
    BY <1>1
  <2>2. IsFiniteSet(0..(N - 1)) /\ Cardinality(0..(N - 1)) = IF 0 > N - 1 THEN 0 ELSE N - 1 - 0 + 1
    BY <2>1, FS_Interval
  <2> HIDE DEF N
  <2> QED BY <1>1, <2>2
<1>7. rank \in Surjection(S, 0..(N - 1))
  <2> HIDE DEF rank
  <2> QED BY <1>5, <1>6, FS_Injection
<1>8. \A n \in 0..(N - 1) : \E x \in S : rank[x] = n
  BY <1>7 DEF Surjection
<1> HIDE DEF rank, N
<1>9. \A x, y \in S : rank[x] = rank[y] => x = y
  BY <1>4
<1> QED BY <1>1, <1>3, <1>8, <1>9 DEF rank, N

\* Putting a set in order gives its elements, each once, earlier ones first.
LEMMA OrderKeeps ==
  ASSUME NEW S, NEW below, Ranked(S, below)
  PROVE  LET s == InRank(S, below)
         IN /\ Cardinality(S) \in Nat /\ DOMAIN s = 1..Cardinality(S)
            /\ \A n \in DOMAIN s : s[n] \in S
            /\ \A x \in S : \E n \in DOMAIN s : s[n] = x
            /\ \A n, k \in DOMAIN s : n < k => s[n] \in below[s[k]]
<1> DEFINE N == Cardinality(S)
           s == InRank(S, below)
<1>1. /\ N \in Nat
      /\ \A x \in S : Cardinality(below[x]) \in 0..(N - 1)
      /\ \A x, y \in S : Cardinality(below[x]) = Cardinality(below[y]) => x = y
      /\ \A n \in 0..(N - 1) : \E x \in S : Cardinality(below[x]) = n
  <2> DEFINE rank == [x \in S |-> Cardinality(below[x])]
  <2>1. /\ N \in Nat /\ rank \in [S -> 0..(N - 1)]
        /\ \A x, y \in S : rank[x] = rank[y] => x = y
        /\ \A n \in 0..(N - 1) : \E x \in S : rank[x] = n
    BY RanksAreFull
  <2>2. \A x \in S : rank[x] = Cardinality(below[x])
    OBVIOUS
  <2> HIDE DEF rank, N
  <2> QED BY <2>1, <2>2
<1>2. DOMAIN s = 1..N
  BY DEF InRank
<1>3. ASSUME NEW n \in 1..N PROVE s[n] \in S /\ Cardinality(below[s[n]]) = n - 1
  <2>1. n - 1 \in 0..(N - 1)
    BY <1>1
  <2>2. \E x \in S : Cardinality(below[x]) = n - 1
    BY <1>1, <2>1
  <2>3. s[n] = CHOOSE x \in S : Cardinality(below[x]) = n - 1
    BY DEF InRank
  <2> HIDE DEF s
  <2> QED BY <2>2, <2>3
<1> HIDE DEF s, N
<1>4. ASSUME NEW x \in S PROVE \E n \in 1..N : s[n] = x
  <2>1. Cardinality(below[x]) \in 0..(N - 1)
    BY <1>1
  <2> DEFINE n == Cardinality(below[x]) + 1
  <2>2. n \in 1..N /\ n - 1 = Cardinality(below[x])
    BY <1>1, <2>1
  <2> HIDE DEF n
  <2>3. s[n] \in S /\ Cardinality(below[s[n]]) = Cardinality(below[x])
    BY <1>3, <2>2
  <2> QED BY <1>1, <2>2, <2>3
<1>5. ASSUME NEW n \in 1..N, NEW k \in 1..N, n < k PROVE s[n] \in below[s[k]]
  <2>1. /\ s[n] \in S /\ Cardinality(below[s[n]]) = n - 1
        /\ s[k] \in S /\ Cardinality(below[s[k]]) = k - 1
    BY <1>3
  <2>2. s[n] # s[k]
    BY <1>1, <1>5, <2>1
  <2>3. ASSUME s[k] \in below[s[n]] PROVE FALSE
    <3>1. Cardinality(below[s[k]]) < Cardinality(below[s[n]])
      BY <2>1, <2>3, EarlierIsFewer
    <3> QED BY <1>1, <1>5, <2>1, <3>1
  <2> QED BY <2>1, <2>2, <2>3 DEF Ranked
<1> QED BY <1>1, <1>2, <1>3, <1>4, <1>5 DEF s, N

\* So is a sequence, and what is left when it is cut.
LEMMA OrderIsSeq ==
  ASSUME NEW S, NEW below, Ranked(S, below)
  PROVE  InRank(S, below) \in Seq(S) /\ Len(InRank(S, below)) = Cardinality(S)
<1> DEFINE s == InRank(S, below)
<1>1. Cardinality(S) \in Nat /\ DOMAIN s = 1..Cardinality(S) /\ \A n \in DOMAIN s : s[n] \in S
  BY OrderKeeps
<1>2. s = [n \in 1..Cardinality(S) |-> s[n]]
  BY DEF InRank
<1> HIDE DEF s
<1>3. s \in [1..Cardinality(S) -> S]
  BY <1>1, <1>2
<1> QED BY <1>1, <1>3 DEF s

\* What is left of it is one as well.
LEMMA TopIsSeq ==
  ASSUME NEW S, NEW s \in Seq(S), NEW limit \in Nat
  PROVE  Top(s, limit) \in Seq(S)
<1> DEFINE n == AtMost(limit, Len(s))
<1>1. n \in Nat /\ n <= Len(s)
  <2>0. Len(s) \in Int /\ limit \in Int
    OBVIOUS
  <2>1. Min({limit, Len(s)}) \in {limit, Len(s)} /\ Min({limit, Len(s)}) <= Len(s)
    BY <2>0, LeastOfTwo
  <2> QED BY <2>0, <2>1 DEF AtMost
<1>2. Top(s, limit) = SubSeq(s, 1, n)
  BY DEF Top
<1> HIDE DEF n
<1> QED BY <1>1, <1>2

\* The latest issues first.
LEMMA LatestKeeps ==
  ASSUME NEW S, Rows(S), \A i \in S : i.updated \in Int
  PROVE  LatestFirst(S) \in Seq(S)
<1> DEFINE later(a, b) == a.updated > b.updated \/ (a.updated = b.updated /\ a.id > b.id)
           above == [x \in S |-> {y \in S : later(y, x)}]
<1>1. LatestFirst(S) = InRank(S, above)
  BY DEF LatestFirst, Ordered, InRank
<1>2. \A x \in S : x.id \in Int /\ x.updated \in Int
  BY DEF Rows
<1>3. \A x, y \in S : x # y => later(x, y) \/ later(y, x)
  BY <1>2 DEF Rows
<1>4. \A x, y, z \in S : later(x, y) /\ later(y, z) => later(x, z)
  BY <1>2
<1>5. \A x \in S : ~later(x, x)
  BY <1>2
<1>6. Ranked(S, above)
  <2> HIDE DEF later
  <2>1. above \in [S -> SUBSET S]
    OBVIOUS
  <2>2. IsFiniteSet(S)
    BY DEF Rows
  <2>3. \A x, y \in S : x \in above[y] <=> later(x, y)
    OBVIOUS
  <2>4. \A x, y \in S : x \in above[y] => above[x] \subseteq above[y]
    BY <1>4, <2>1, <2>3
  <2> HIDE DEF above
  <2> QED BY <1>3, <1>5, <2>1, <2>2, <2>3, <2>4 DEF Ranked
<1> QED BY <1>1, <1>6, OrderIsSeq

\* The oldest entries first.
Older(a, b) == a.at < b.at \/ (a.at = b.at /\ a.id < b.id)

\* Each entry of a set has its place, and the older of two the earlier one.
LEMMA OldestKeeps ==
  ASSUME NEW S, Rows(S), \A e \in S : e.at \in Int
  PROVE  LET s == OldestFirst(S)
         IN /\ s \in Seq(S) /\ Cardinality(S) \in Nat /\ DOMAIN s = 1..Cardinality(S) /\ Len(s) = Cardinality(S)
            /\ \A x \in S : \E n \in DOMAIN s : s[n] = x
            /\ \A n, k \in DOMAIN s : n < k => Older(s[n], s[k])
            /\ \A x, y \in S : Older(x, y) => x # y /\ ~Older(y, x)
<1> DEFINE below == [x \in S |-> {y \in S : Older(y, x)}]
           s == OldestFirst(S)
<1>1. s = InRank(S, below)
  BY DEF OldestFirst, Ordered, InRank, Older
<1>2. \A x \in S : x.id \in Int /\ x.at \in Int
  BY DEF Rows
<1>3. \A x, y \in S : x # y => Older(x, y) \/ Older(y, x)
  BY <1>2 DEF Rows, Older
<1>4. \A x, y, z \in S : Older(x, y) /\ Older(y, z) => Older(x, z)
  BY <1>2 DEF Older
<1>5. \A x, y \in S : Older(x, y) => x # y /\ ~Older(y, x)
  BY <1>2 DEF Older
<1>6. \A x, y \in S : x \in below[y] <=> Older(x, y)
  OBVIOUS
<1>7. Ranked(S, below)
  <2>1. below \in [S -> SUBSET S]
    OBVIOUS
  <2>2. IsFiniteSet(S)
    BY DEF Rows
  <2>3. \A x, y \in S : x \in below[y] => below[x] \subseteq below[y]
    BY <1>4, <1>6, <2>1
  <2> HIDE DEF below
  <2> QED BY <1>3, <1>5, <1>6, <2>1, <2>2, <2>3 DEF Ranked
<1>8. /\ Cardinality(S) \in Nat /\ DOMAIN s = 1..Cardinality(S)
      /\ \A n \in DOMAIN s : s[n] \in S
      /\ \A x \in S : \E n \in DOMAIN s : s[n] = x
      /\ \A n, k \in DOMAIN s : n < k => s[n] \in below[s[k]]
  <2> HIDE DEF below
  <2> QED BY <1>1, <1>7, OrderKeeps
<1>9. s \in Seq(S) /\ Len(s) = Cardinality(S)
  BY <1>1, <1>7, OrderIsSeq
<1> HIDE DEF s, below
<1> QED BY <1>5, <1>6, <1>8, <1>9 DEF s

-----------------------------------------------------------------------------
(* The account of a schedule: walks over its fires, the interval and the fire *)
(* a run is compared with.                                                    *)

\* A fire is the instant of a minute that matches.
Fire(cron, f) == \E m \in Nat : m >= Shift /\ Matches(cron, Schedule(cron), m) /\ f = InstantOf(m)

\* The next fire is one.
LEMMA NextIsFire ==
  ASSUME NEW cron, NEW t \in Nat, NextFire(cron, t) # Absent
  PROVE  Fire(cron, NextFire(cron, t)) /\ NextFire(cron, t) \in Nat /\ NextFire(cron, t) > t
<1> DEFINE minutes == FireMinutes(cron, Schedule(cron), MinuteAfter(t))
<1>1. Readable(cron)
  BY DEF NextFire
<1>2. /\ minutes \in SUBSET Nat /\ \A m \in minutes : m >= MinuteAfter(t)
      /\ minutes = {} => NextFire(cron, t) = Absent
      /\ minutes # {} => NextFire(cron, t) = InstantOf(Min(minutes))
  BY <1>1, NextFireAt
<1>3. \A m \in minutes : Matches(cron, Schedule(cron), m)
  BY DEF FireMinutes
<1>4. MinuteAfter(t) \in Nat /\ MinuteAfter(t) > Shift /\ Shift \in Nat
  BY MinutesAfter, CalendarFacts
<1> HIDE DEF minutes
<1>5. Min(minutes) \in minutes
  BY <1>2, Least
<1>6. Min(minutes) \in Nat /\ Min(minutes) >= Shift
  <2> DEFINE m == Min(minutes)
  <2>1. m \in Nat /\ m >= MinuteAfter(t)
    BY <1>2, <1>5
  <2> HIDE DEF m
  <2>2. m \in Nat /\ m >= Shift
    BY <1>4, <2>1
  <2> QED BY <2>2 DEF m
<1> QED BY <1>2, <1>3, <1>5, <1>6, NextFireLater DEF Fire

\* It is no later than any fire after t, but for one beyond the horizon of the search.
LEMMA NextIsLeast ==
  ASSUME NEW cron, Readable(cron), NEW t \in Nat, NEW f, Fire(cron, f), f > t,
         NextFire(cron, t) # Absent \/ f <= t + Ticks * (Horizon * DayMinutes)
  PROVE  NextFire(cron, t) # Absent /\ NextFire(cron, t) <= f
<1> DEFINE minutes == FireMinutes(cron, Schedule(cron), MinuteAfter(t))
           H == Horizon * DayMinutes
           first == MinuteAfter(t)
<1>1. PICK m \in Nat : m >= Shift /\ Matches(cron, Schedule(cron), m) /\ f = InstantOf(m)
  BY DEF Fire
<1>2. Ticks \in Nat /\ Ticks > 0 /\ Shift \in Nat /\ H \in Nat
  BY CalendarFacts
<1>3. f = Ticks * (m - Shift) /\ f \in Nat
  BY <1>1, InstantsGrow
<1>4. first \in Nat /\ first > Shift /\ m >= first
  BY <1>1, MinutesAfter
<1>5. /\ minutes \in SUBSET Nat /\ \A n \in minutes : n >= first
      /\ minutes = {} => NextFire(cron, t) = Absent
      /\ minutes # {} => NextFire(cron, t) = InstantOf(Min(minutes))
  BY NextFireAt
<1>6. m <= first + H => m \in minutes
  BY <1>1, <1>2, <1>4 DEF FireMinutes
<1>7. f <= t + Ticks * H => m <= first + H
  <2> DEFINE q == t \div Ticks  x == m - Shift
  <2>1. q \in Nat /\ t < Ticks * q + Ticks /\ Ticks * q \in Nat
    <3>1. q \in Nat /\ t % Ticks \in 0..(Ticks - 1) /\ t = Ticks * q + (t % Ticks)
      BY <1>2, Division
    <3> HIDE DEF q
    <3> QED BY <1>2, <3>1
  <2>2. first = q + Shift + 1
    BY DEF MinuteAfter
  <2>3. x \in Nat /\ f = Ticks * x /\ m = x + Shift
    BY <1>1, <1>2, <1>3
  <2> HIDE DEF q, x, first, H
  <2> SUFFICES ASSUME f <= t + Ticks * H, q + 1 + H < x PROVE FALSE
    BY <1>2, <2>1, <2>2, <2>3
  <2>4. Ticks * (q + 1 + H) <= Ticks * x /\ Ticks * (q + 1 + H) = Ticks * q + Ticks + Ticks * H
    BY <1>2, <2>1, <2>3, ProductGrows
  <2> QED BY <1>2, <2>1, <2>3, <2>4
<1>8. minutes # {}
  BY <1>5, <1>6, <1>7
<1>9. Min(minutes) \in minutes /\ \A n \in minutes : Min(minutes) <= n
  <2> HIDE DEF minutes
  <2> QED BY <1>5, <1>8, Least
<1>10. Min(minutes) \in Nat /\ Min(minutes) <= m /\ Min(minutes) >= Shift
  <2>1. Min(minutes) \in FireMinutes(cron, Schedule(cron), first) /\ Min(minutes) \in Nat /\ Min(minutes) >= first
    BY <1>5, <1>9
  <2>2. Min(minutes) <= first + H
    BY <1>2, <1>4, <2>1 DEF FireMinutes
  <2> HIDE DEF minutes, first, H
  <2> QED BY <1>1, <1>2, <1>4, <1>6, <1>9, <2>1, <2>2
<1> DEFINE n == Min(minutes)
<1> HIDE DEF minutes, n
<1>11. InstantOf(n) \in Nat /\ InstantOf(n) <= InstantOf(m)
  BY <1>1, <1>10, InstantsGrow DEF n
<1>12. NextFire(cron, t) = InstantOf(n)
  BY <1>5, <1>8 DEF n
<1> QED BY <1>1, <1>11, <1>12 DEF Absent

\* A fire of a time is one of an instant after its start and no later than its end.
LEMMA FireBetween ==
  ASSUME NEW cron, NEW from \in Int, NEW to \in Nat, NEW f, Fire(cron, f), from < f, f <= to
  PROVE  f \in FiresBetween(cron, from, to)
<1>1. PICK m \in Nat : m >= Shift /\ Matches(cron, Schedule(cron), m) /\ f = InstantOf(m)
  BY DEF Fire
<1> DEFINE x == m - Shift  q == from \div Ticks  p == to \div Ticks
<1>2. Ticks \in Nat /\ Ticks > 0 /\ Shift \in Nat
  BY CalendarFacts
<1>3. x \in Nat /\ f = Ticks * x /\ f \in Nat /\ m = x + Shift
  BY <1>1, <1>2, InstantsGrow
<1>4. q \in Int /\ p \in Int /\ Ticks * q <= from
  BY <1>2
<1>5. x <= p
  <2>1. f \div Ticks = x
    BY <1>1, FireIsMinute
  <2>2. f \div Ticks <= to \div Ticks
    BY <1>2, <1>3, QuotientGrows
  <2> QED BY <2>1, <2>2
<1>6. MinuteAfter(from) = q + Shift + 1
  BY DEF MinuteAfter
<1> HIDE DEF x, q, p
<1>7. q < x
  <2> SUFFICES ASSUME x <= q PROVE FALSE
    BY <1>3, <1>4
  <2>1. Ticks * x <= Ticks * q
    BY <1>2, <1>3, <1>4, ProductGrows
  <2> QED BY <1>2, <1>3, <1>4, <2>1
<1>8. m \in MinuteAfter(from)..(p + Shift)
  BY <1>2, <1>3, <1>4, <1>5, <1>6, <1>7
<1> QED BY <1>1, <1>8 DEF FiresBetween, p

\* What is found of a time is a fire of it.
LEMMA BetweenFires ==
  ASSUME NEW cron, NEW from \in Nat, NEW to \in Nat, NEW f \in FiresBetween(cron, from, to)
  PROVE  Fire(cron, f) /\ f \in Nat /\ from < f /\ f <= to
<1>1. PICK m \in MinuteAfter(from)..((to \div Ticks) + Shift) :
               Matches(cron, Schedule(cron), m) /\ f = InstantOf(m)
  BY DEF FiresBetween
<1> DEFINE p == to \div Ticks
<1>2. Ticks \in Nat /\ Ticks > 0 /\ Shift \in Nat
  BY CalendarFacts
<1>3. MinuteAfter(from) \in Nat /\ MinuteAfter(from) > Shift
  BY MinutesAfter
<1>4. p \in Nat /\ Ticks * p <= to
  <2>1. p \in Nat /\ to % Ticks \in 0..(Ticks - 1) /\ to = Ticks * p + (to % Ticks)
    BY <1>2, Division
  <2> HIDE DEF p
  <2> QED BY <1>2, <2>1
<1>5. m \in MinuteAfter(from)..(p + Shift)
  BY <1>1
<1> HIDE DEF p
<1>6. m \in Nat /\ m >= Shift /\ m >= MinuteAfter(from) /\ m - Shift <= p
  BY <1>2, <1>3, <1>4, <1>5
<1>7. f > from /\ f \in Nat /\ f = Ticks * (m - Shift)
  BY <1>1, <1>6, MinutesAfter, InstantsGrow
<1>8. Ticks * (m - Shift) <= Ticks * p /\ Ticks * p \in Int
  BY <1>2, <1>4, <1>6, ProductGrows
<1>9. f <= to
  <2> DEFINE y == Ticks * (m - Shift)  z == Ticks * p
  <2>1. f = y /\ y <= z /\ z <= to /\ z \in Int /\ y \in Int
    BY <1>4, <1>7, <1>8
  <2> HIDE DEF y, z
  <2> QED BY <2>1
<1>10. Fire(cron, f)
  BY <1>1, <1>6 DEF Fire
<1> QED BY <1>7, <1>9, <1>10

\* The next fire is at or before the end of a walk.
Goes(cron, end, t) == NextFire(cron, t) # Absent /\ NextFire(cron, t) <= end

\* A set that a walk from t does not leave.
Kept(cron, end, t, S) == \A u \in S \cup {t} : Goes(cron, end, u) => NextFire(cron, u) \in S

\* What a walk from t meets: the least such set.
Met(cron, end, t) == {f \in Nat : \A S \in SUBSET Nat : Kept(cron, end, t, S) => f \in S}

\* A walk meets the next fire, and what one from there meets.
LEMMA MetStep ==
  ASSUME NEW cron, NEW end \in Int, NEW t \in Nat
  PROVE  Met(cron, end, t) = IF Goes(cron, end, t) THEN {NextFire(cron, t)} \cup Met(cron, end, NextFire(cron, t))
                             ELSE {}
<1>1. CASE ~ Goes(cron, end, t)
  <2>1. Kept(cron, end, t, {})
    BY <1>1 DEF Kept
  <2>2. {} \in SUBSET Nat
    OBVIOUS
  <2> QED BY <1>1, <2>1, <2>2 DEF Met
<1>2. CASE Goes(cron, end, t)
  <2> DEFINE n == NextFire(cron, t)
  <2>1. n \in Nat
    BY <1>2, NextFireLater DEF Goes
  <2>2. ASSUME NEW S \in SUBSET Nat, Kept(cron, end, t, S) PROVE n \in S /\ Kept(cron, end, n, S)
    BY <1>2, <2>2 DEF Kept
  <2>3. {n} \cup Met(cron, end, n) \subseteq Met(cron, end, t)
    BY <2>1, <2>2 DEF Met
  <2> DEFINE M == {n} \cup Met(cron, end, n)
  <2>4. M \in SUBSET Nat
    BY <2>1 DEF Met
  <2>5. ASSUME NEW u \in M, Goes(cron, end, u) PROVE NextFire(cron, u) \in Met(cron, end, n)
    <3>1. NextFire(cron, u) \in Nat
      BY <2>4, <2>5, NextFireLater DEF Goes
    <3>2. ASSUME NEW S \in SUBSET Nat, Kept(cron, end, n, S) PROVE NextFire(cron, u) \in S
      <4>1. u \in S \cup {n}
        BY <3>2 DEF Met
      <4> QED BY <2>5, <3>2, <4>1 DEF Kept
    <3> QED BY <3>1, <3>2 DEF Met
  <2>6. Kept(cron, end, t, M)
    BY <1>2, <2>5 DEF Kept
  <2>7. Met(cron, end, t) \subseteq M
    <3> HIDE DEF M
    <3> QED BY <2>4, <2>6 DEF Met
  <2> QED BY <1>2, <2>3, <2>7
<1> QED BY <1>1, <1>2

\* That is what the walk of the code collects: two walks that differed would do so
\* at a last instant, and agree from the next fire on.
LEMMA WalkedIsMet ==
  ASSUME NEW cron, NEW end \in Nat, NEW from \in Nat
  PROVE  Walked(cron, from, end) = Met(cron, end, from)
<1> DEFINE body(f, t) == LET next == NextFire(cron, t)
                         IN IF next = Absent \/ next > end THEN {} ELSE {next} \cup f[next]
           walks(f) == f = [t \in Nat |-> body(f, t)]
           walk == CHOOSE f : walks(f)
           met == [t \in Nat |-> Met(cron, end, t)]
<1>1. Walked(cron, from, end) = walk[from]
  BY DEF Walked
<1>2. ASSUME NEW t \in Nat
      PROVE  NextFire(cron, t) # Absent => NextFire(cron, t) \in Nat /\ NextFire(cron, t) > t
  BY NextFireLater
<1>3. walks(met)
  <2>1. ASSUME NEW t \in Nat PROVE Met(cron, end, t) = body(met, t)
    <3>1. Goes(cron, end, t) <=> ~ (NextFire(cron, t) = Absent \/ NextFire(cron, t) > end)
      BY <1>2 DEF Goes
    <3> QED BY <1>2, <3>1, MetStep
  <2> QED BY <2>1
<1>4. walks(walk)
  <2> HIDE DEF walks, met
  <2> QED BY <1>3
<1>5. \A t \in Nat : walk[t] = body(walk, t)
  <2> HIDE DEF walk
  <2> QED BY <1>4
<1>6. \A t \in Nat : met[t] = body(met, t)
  <2> HIDE DEF met
  <2> QED BY <1>3
<1> HIDE DEF walk, met
<1>7. \A t \in Nat : walk[t] = met[t]
  <2> DEFINE Bad == {t \in Nat : walk[t] # met[t]}
  <2> SUFFICES ASSUME Bad # {} PROVE FALSE
    OBVIOUS
  <2>1. ASSUME NEW t \in Nat, t > end PROVE t \notin Bad
    <3>1. NextFire(cron, t) = Absent \/ NextFire(cron, t) > end
      BY <1>2, <2>1
    <3> QED BY <1>5, <1>6, <3>1
  <2>2. Bad \in SUBSET (0..end)
    BY <2>1
  <2>3. PICK t \in Bad : \A u \in Bad : t >= u
    <3> HIDE DEF Bad
    <3> QED BY <2>2, Largest
  <2> DEFINE n == NextFire(cron, t)
  <2>4. CASE n = Absent \/ n > end
    BY <1>5, <1>6, <2>4
  <2>5. CASE ~ (n = Absent \/ n > end)
    <3>1. n \in Nat /\ n > t
      BY <1>2, <2>5
    <3>2. n \notin Bad
      <4> HIDE DEF Bad
      <4> QED BY <2>2, <2>3, <3>1
    <3>3. walk[n] = met[n]
      BY <3>1, <3>2
    <3>4. walk[t] = {n} \cup walk[n] /\ met[t] = {n} \cup met[n]
      BY <1>5, <1>6, <2>5
    <3> QED BY <3>3, <3>4
  <2> QED BY <2>4, <2>5
<1> QED BY <1>1, <1>7 DEF met

\* A walk meets fires after its start, up to its end.
LEMMA WalkedFires ==
  ASSUME NEW cron, NEW end \in Nat, NEW from \in Nat
  PROVE  Walked(cron, from, end) \subseteq {f \in Nat : Fire(cron, f) /\ from < f /\ f <= end}
<1> DEFINE S == {f \in Nat : Fire(cron, f) /\ from < f /\ f <= end}
<1>1. ASSUME NEW u \in S \cup {from}, Goes(cron, end, u) PROVE NextFire(cron, u) \in S
  <2>1. u \in Nat /\ u >= from
    OBVIOUS
  <2>2. Fire(cron, NextFire(cron, u)) /\ NextFire(cron, u) \in Nat /\ NextFire(cron, u) > u
    BY <1>1, <2>1, NextIsFire DEF Goes
  <2> QED BY <1>1, <2>1, <2>2 DEF Goes
<1>2. Kept(cron, end, from, S)
  BY <1>1 DEF Kept
<1>3. S \in SUBSET Nat
  OBVIOUS
<1> HIDE DEF S
<1>4. Met(cron, end, from) \subseteq S
  BY <1>2, <1>3 DEF Met
<1> QED BY <1>4, WalkedIsMet DEF S

\* A walk goes on from where it is: it meets the next fire of whatever it met.
LEMMA WalkedOn ==
  ASSUME NEW cron, NEW end \in Nat, NEW from \in Nat
  PROVE  Kept(cron, end, from, Walked(cron, from, end))
<1>1. ASSUME NEW u \in Met(cron, end, from) \cup {from}, Goes(cron, end, u)
      PROVE  NextFire(cron, u) \in Met(cron, end, from)
  <2>1. u \in Nat
    BY DEF Met
  <2>2. NextFire(cron, u) \in Nat
    BY <1>1, <2>1, NextFireLater DEF Goes
  <2>3. ASSUME NEW S \in SUBSET Nat, Kept(cron, end, from, S) PROVE NextFire(cron, u) \in S
    <3>1. u \in S \cup {from}
      BY <2>3 DEF Met
    <3> QED BY <1>1, <2>3, <3>1 DEF Kept
  <2> QED BY <2>2, <2>3 DEF Met
<1> QED BY <1>1, WalkedIsMet DEF Kept

\* A fire within the horizon of the start of a walk, or of a cron that always has a
\* next fire, is met or passed no later than it comes.
LEMMA WalkReaches ==
  ASSUME NEW cron, Readable(cron), NEW end \in Nat, NEW from \in Nat, NEW f \in Nat,
         Fire(cron, f), from < f, f <= end,
         f <= from + Ticks * (Horizon * DayMinutes) \/ \A t \in Nat : NextFire(cron, t) # Absent
  PROVE  f \in Walked(cron, from, end)
<1> DEFINE W == Walked(cron, from, end)
           B == {u \in W \cup {from} : u < f}
<1>1. SUFFICES ASSUME f \notin W PROVE FALSE
  OBVIOUS
<1>2. \A u \in W : u \in Nat /\ from < u /\ u <= end
  BY WalkedFires
<1>3. Kept(cron, end, from, W)
  BY WalkedOn
<1> HIDE DEF W
<1>4. B \in SUBSET (0..f) /\ B # {}
  <2>1. from \in B
    OBVIOUS
  <2>2. \A u \in W \cup {from} : u \in Nat
    BY <1>2
  <2>3. \A u \in B : u \in 0..f
    BY <2>2
  <2> HIDE DEF B
  <2> QED BY <2>1, <2>3
<1>5. PICK u \in B : \A v \in B : u >= v
  BY <1>4, Largest
<1>6. u \in W \cup {from} /\ u \in Nat /\ u < f /\ from <= u
  BY <1>2, <1>5
<1> DEFINE n == NextFire(cron, u)  reach == Ticks * (Horizon * DayMinutes)
<1>7. n # Absent /\ n <= f
  <2>1. reach \in Nat
    BY CalendarFacts
  <2>2. n # Absent \/ f <= u + reach
    <3> HIDE DEF n, reach
    <3>1. CASE f <= from + reach
      BY <1>6, <2>1, <3>1
    <3>2. CASE \A t \in Nat : NextFire(cron, t) # Absent
      BY <1>6, <3>2 DEF n
    <3> QED BY <3>1, <3>2 DEF reach
  <2> QED BY <1>6, <2>2, NextIsLeast
<1>8. n \in Nat /\ n > u
  BY <1>6, <1>7, NextFireLater
<1> HIDE DEF n
<1>9. n \in W
  <2>1. Goes(cron, end, u)
    BY <1>7, <1>8 DEF Goes, n
  <2> QED BY <1>3, <1>6, <2>1 DEF Kept, n
<1>10. n < f
  BY <1>1, <1>7, <1>8, <1>9
<1>11. n \in B
  BY <1>9, <1>10
<1> HIDE DEF B
<1> QED BY <1>5, <1>6, <1>8, <1>11

\* A sequence put in order has the numbers it had.
LEMMA SortedKeeps ==
  ASSUME NEW s \in Seq(Nat)
  PROVE  Sorted(s) \in Seq(Nat) /\ Len(Sorted(s)) = Len(s)
<1> DEFINE D == DOMAIN s
           before(i, k) == s[i] < s[k] \/ (s[i] = s[k] /\ i < k)
           lower == [k \in D |-> {i \in D : before(i, k)}]
<1>1. D = 1..Len(s) /\ Len(s) \in Nat /\ \A k \in D : k \in Nat /\ s[k] \in Nat
  OBVIOUS
<1>2. IsFiniteSet(D) /\ Cardinality(D) = Len(s)
  <2>1. IsFiniteSet(1..Len(s)) /\ Cardinality(1..Len(s)) = IF 1 > Len(s) THEN 0 ELSE Len(s) - 1 + 1
    BY <1>1, FS_Interval
  <2> QED BY <1>1, <2>1
<1>3. Ranked(D, lower)
  <2>1. \A x, y \in D : x # y => before(x, y) \/ before(y, x)
    BY <1>1
  <2>2. \A x, y, z \in D : before(x, y) /\ before(y, z) => before(x, z)
    BY <1>1
  <2>3. \A x \in D : ~ before(x, x)
    BY <1>1
  <2> HIDE DEF D, before
  <2>4. lower \in [D -> SUBSET D]
    OBVIOUS
  <2>5. \A x, y \in D : x \in lower[y] <=> before(x, y)
    OBVIOUS
  <2> HIDE DEF lower
  <2>6. \A x, y \in D : x \in lower[y] => lower[x] \subseteq lower[y]
    BY <2>2, <2>4, <2>5
  <2> QED BY <1>2, <2>1, <2>3, <2>4, <2>5, <2>6 DEF Ranked
<1> DEFINE pick == [n \in D |-> CHOOSE k \in D : Cardinality(lower[k]) = n - 1]
<1>4. ASSUME NEW n \in D PROVE pick[n] \in D
  <2>1. \A m \in 0..(Cardinality(D) - 1) : \E k \in D : Cardinality(lower[k]) = m
    <3> DEFINE rank == [x \in D |-> Cardinality(lower[x])]
    <3>1. \A m \in 0..(Cardinality(D) - 1) : \E k \in D : rank[k] = m
      <4> HIDE DEF lower, D
      <4> QED BY <1>3, RanksAreFull
    <3> QED BY <3>1
  <2>2. n - 1 \in 0..(Cardinality(D) - 1)
    BY <1>1, <1>2
  <2>3. \E k \in D : Cardinality(lower[k]) = n - 1
    BY <2>1, <2>2
  <2> HIDE DEF lower, D
  <2> QED BY <2>3
<1>5. Sorted(s) = [n \in D |-> s[pick[n]]]
  BY DEF Sorted
<1> HIDE DEF pick
<1>6. Sorted(s) \in [1..Len(s) -> Nat]
  BY <1>1, <1>4, <1>5
<1> QED BY <1>1, <1>6

\* A sequence whose elements rise.
Rising(s) == \A i \in 1..(Len(s) - 1) : s[i] < s[i + 1]

\* The fires of a sample are met one after the other, each later than the last.
LEMMA FiresRise ==
  ASSUME NEW cron, NEW from \in Nat, NEW n \in Nat
  PROVE  Fires(cron, from, n) \in Seq(Nat) /\ Rising(Fires(cron, from, n))
<1> DEFINE V == {s \in Seq(Nat) : Rising(s)}
           next == [t \in Nat |-> NextFire(cron, t)]
           on(got) == LET fire == next[IF got = <<>> THEN from ELSE got[Len(got)]]
                      IN IF fire = Absent THEN got ELSE Append(got, fire)
           step(f, i) == IF i = 0 THEN <<>> ELSE on(f[i - 1])
           meets(f, k) == f = [i \in 0..k |-> step(f, i)]
           met == CHOOSE f : meets(f, n)
<1>1. Fires(cron, from, n) = met[n]
  BY DEF Fires
<1>2. <<>> \in V
  <2>1. <<>> \in Seq(Nat) /\ Len(<<>>) = 0
    OBVIOUS
  <2> QED BY <2>1 DEF Rising
<1>3. ASSUME NEW got \in V PROVE on(got) \in V
  <2> DEFINE t == IF got = <<>> THEN from ELSE got[Len(got)]  fire == NextFire(cron, t)
  <2>1. got \in Seq(Nat) /\ Len(got) \in Nat /\ Rising(got)
    OBVIOUS
  <2>2. t \in Nat
    BY <2>1
  <2>3. fire # Absent => fire \in Nat /\ fire > t
    BY <2>2, NextFireLater
  <2>4. on(got) = IF fire = Absent THEN got ELSE Append(got, fire)
    BY <2>2
  <2>5. CASE fire # Absent
    <3> DEFINE s == Append(got, fire)
    <3>0. got # <<>> => got[Len(got)] = t
      OBVIOUS
    <3> HIDE DEF fire, t
    <3>1. s \in Seq(Nat) /\ Len(s) = Len(got) + 1 /\ s[Len(got) + 1] = fire
          /\ \A i \in 1..Len(got) : s[i] = got[i]
      BY <2>1, <2>3, <2>5
    <3>2. ASSUME NEW i \in 1..(Len(s) - 1) PROVE s[i] < s[i + 1]
      <4>1. CASE i = Len(got)
        <5>1. got # <<>>
          BY <4>1
        <5> QED BY <2>1, <2>3, <2>5, <3>0, <3>1, <4>1, <5>1
      <4>2. CASE i < Len(got)
        <5>1. i \in 1..(Len(got) - 1) /\ i \in 1..Len(got) /\ i + 1 \in 1..Len(got)
          BY <2>1, <3>1, <4>2
        <5>2. got[i] < got[i + 1]
          BY <2>1, <5>1 DEF Rising
        <5> QED BY <3>1, <5>1, <5>2
      <4> QED BY <2>1, <3>1, <4>1, <4>2
    <3>3. on(got) = s
      BY <2>4, <2>5 DEF fire
    <3> HIDE DEF s
    <3>4. s \in V
      BY <3>1, <3>2 DEF Rising
    <3> QED BY <3>3, <3>4
  <2> QED BY <2>4, <2>5
<1> HIDE DEF V, on
<1>4. ASSUME NEW k \in Nat PROVE \E f : meets(f, k)
  <2> DEFINE Bad == {j \in Nat : ~ \E f : meets(f, j)}
  <2> SUFFICES ASSUME Bad # {} PROVE FALSE
    OBVIOUS
  <2>1. PICK j \in Bad : \A i \in Bad : j <= i
    <3>1. Bad \in SUBSET Nat
      OBVIOUS
    <3> HIDE DEF Bad
    <3> QED BY <3>1, Least
  <2>2. j \in Nat /\ ~ \E f : meets(f, j)
    OBVIOUS
  <2>3. CASE j = 0
    <3>1. meets([i \in 0..0 |-> <<>>], 0)
      OBVIOUS
    <3> QED BY <2>2, <2>3, <3>1
  <2>4. CASE j # 0
    <3>1. j - 1 \in Nat /\ j - 1 \notin Bad
      <4>1. j - 1 \in Nat /\ ~ (j <= j - 1)
        BY <2>2, <2>4
      <4> HIDE DEF Bad
      <4> QED BY <2>1, <4>1
    <3>2. PICK f : meets(f, j - 1)
      BY <3>1
    <3>3. \A i \in 0..(j - 1) : f[i] = step(f, i)
      BY <3>1, <3>2
    <3> DEFINE g == [i \in 0..j |-> IF i < j THEN f[i] ELSE on(f[j - 1])]
    <3>4. ASSUME NEW i \in 0..j PROVE g[i] = step(g, i)
      <4>1. CASE i < j
        <5>1. i \in 0..(j - 1) /\ (i # 0 => i - 1 \in 0..j /\ i - 1 < j)
          BY <2>2, <4>1
        <5>2. i # 0 => g[i - 1] = f[i - 1]
          BY <5>1
        <5>3. g[i] = f[i]
          BY <4>1
        <5> HIDE DEF g
        <5> QED BY <3>3, <5>1, <5>2, <5>3
      <4>2. CASE i = j
        <5>1. j - 1 \in 0..j /\ j - 1 < j /\ ~ (j < j)
          BY <2>2, <2>4
        <5>2. g[j - 1] = f[j - 1] /\ g[j] = on(f[j - 1])
          BY <5>1
        <5> HIDE DEF g
        <5> QED BY <2>4, <4>2, <5>2
      <4> QED BY <2>2, <4>1, <4>2
    <3>5. g = [i \in 0..j |-> step(g, i)]
      <4>1. g = [i \in 0..j |-> g[i]]
        OBVIOUS
      <4> HIDE DEF g
      <4> QED BY <3>4, <4>1
    <3> HIDE DEF g
    <3> QED BY <2>2, <3>5
  <2> QED BY <2>3, <2>4
<1>5. meets(met, n)
  <2> HIDE DEF meets
  <2> QED BY <1>4
<1> HIDE DEF met
<1>6. \A i \in 0..n : met[i] = step(met, i)
  BY <1>5
<1>7. \A i \in 0..n : met[i] \in V
  <2> DEFINE Bad == {i \in 0..n : met[i] \notin V}
  <2> SUFFICES ASSUME Bad # {} PROVE FALSE
    OBVIOUS
  <2>1. PICK i \in Bad : \A k \in Bad : i <= k
    <3>1. Bad \in SUBSET Nat
      OBVIOUS
    <3> HIDE DEF Bad
    <3> QED BY <3>1, Least
  <2>2. i # 0
    BY <1>2, <1>6
  <2>3. i - 1 \in 0..n /\ i - 1 < i
    BY <2>2
  <2>4. met[i - 1] \in V
    BY <2>1, <2>3
  <2>5. met[i] = on(met[i - 1])
    BY <1>6, <2>2
  <2> QED BY <1>3, <2>4, <2>5
<1>8. met[n] \in V
  BY <1>7
<1> QED BY <1>1, <1>8 DEF V

\* A sequence of numbers has a length, and numbers in its places.
LEMMA Elements ==
  ASSUME NEW s \in Seq(Nat)
  PROVE  Len(s) \in Nat /\ \A i \in 1..Len(s) : s[i] \in Nat
OBVIOUS

\* Rounding a number gives one.
LEMMA RoundedIsNat ==
  ASSUME NEW a \in Nat, NEW b \in Nat, b > 0
  PROVE  Rounded(a, b) \in Nat
<1>1. a \div b \in Nat
  BY Division
<1> DEFINE q == a \div b
<1>2. Rounded(a, b) \in {q, q + 1}
  BY DEF Rounded
<1> HIDE DEF q
<1> QED BY <1>1, <1>2 DEF q

\* So is the interval of any cron a number of minutes.
LEMMA IntervalIsNat ==
  ASSUME NEW cron
  PROVE  Interval(cron) \in Nat
<1> DEFINE fires == Fires(cron, Monday, Samples)
           gaps == [i \in 1..(Len(fires) - 1) |-> fires[i + 1] - fires[i]]
           median == [g \in Seq(Nat) |-> TwiceMedian(Sorted(g))]
<1>1. Monday \in Nat /\ Samples \in Nat /\ NoInterval \in Nat /\ 2 * Ticks \in Nat /\ 2 * Ticks > 0
  <2>1. Monday \in Nat /\ Samples \in Nat /\ NoInterval \in Nat
    BY CalendarAssumption
  <2>2. Ticks \in Nat /\ Ticks > 0
    BY CalendarFacts
  <2> QED BY <2>1, <2>2
<1>2. fires \in Seq(Nat) /\ Rising(fires)
  BY <1>1, FiresRise
<1>3. NaturalInterval(cron) = IF Len(fires) < 2 THEN Absent ELSE Rounded(median[gaps], 2 * Ticks)
  BY <1>2 DEF NaturalInterval, MedianGap
<1> HIDE DEF fires
<1>4. ASSUME ~ (Len(fires) < 2) PROVE Rounded(median[gaps], 2 * Ticks) \in Nat
  <2>1. Len(fires) \in Nat /\ Len(fires) >= 2
    BY <1>2, <1>4
  <2>2. \A i \in 1..(Len(fires) - 1) : fires[i + 1] - fires[i] \in Nat
    BY <1>2, <2>1 DEF Rising
  <2>3. gaps \in Seq(Nat) /\ Len(gaps) = Len(fires) - 1
    BY <2>1, <2>2
  <2>4. median[gaps] = TwiceMedian(Sorted(gaps))
    <3> HIDE DEF gaps
    <3> QED BY <2>3
  <2> DEFINE s == Sorted(gaps)
  <2>5. s \in Seq(Nat) /\ Len(s) >= 1
    <3>1. s \in Seq(Nat) /\ Len(s) = Len(gaps)
      <4> HIDE DEF gaps
      <4> QED BY <2>3, SortedKeeps
    <3> QED BY <2>1, <2>3, <3>1
  <2> HIDE DEF s
  <2>6. TwiceMedian(s) \in Nat
    <3>1. CASE Len(s) >= 2
      BY <2>5, <3>1, Medians
    <3>2. CASE Len(s) = 1
      <4>1. 1 % 2 = 1 /\ 1 \div 2 = 0 /\ 0 + 1 = 1
        OBVIOUS
      <4>2. TwiceMedian(s) = 2 * s[1]
        BY <3>2, <4>1 DEF TwiceMedian
      <4>3. s[1] \in Nat
        BY <2>5, <3>2, Elements
      <4> QED BY <4>2, <4>3
    <3>3. Len(s) \in Nat
      BY <2>5, Elements
    <3> DEFINE n == Len(s)
    <3> HIDE DEF n
    <3>4. n \in Nat /\ n >= 1
      BY <2>5, <3>3 DEF n
    <3>5. n >= 2 \/ n = 1
      BY <3>4
    <3> QED BY <3>1, <3>2, <3>5 DEF n
  <2> HIDE DEF median, gaps
  <2> QED BY <1>1, <2>4, <2>6, RoundedIsNat DEF s
<1>5. NaturalInterval(cron) \in Nat \cup {Absent}
  <2> HIDE DEF median, gaps
  <2> QED BY <1>3, <1>4
<1> QED BY <1>1, <1>5 DEF Interval, IntervalOr

\* The fire a run is compared with is a fire, and no other is nearer of those it is
\* near to: an early one is met by the walk, as long as the walk does not end before
\* it, and a later one is not before the next.
LEMMA NearestIsNear ==
  ASSUME NEW cron, Readable(cron), NEW t \in Nat,
         Ticks * (2 * Interval(cron) + HourMinutes) <= t,
         \/ 2 * Interval(cron) + HourMinutes <= Horizon * DayMinutes
         \/ \A u \in Nat : NextFire(cron, u) # Absent
  PROVE  LET fire == NearestFire(cron, t)
         IN /\ fire # Absent => Fire(cron, fire) /\ fire \in Nat
            /\ \A f \in Nat : Fire(cron, f) /\ Off(t, f) <= Ticks * Interval(cron)
                 => fire # Absent /\ Off(t, fire) <= Off(t, f)
<1> DEFINE back == 2 * Interval(cron) + HourMinutes
           from == t - Ticks * back
           W == Walked(cron, from, t)
           before == FireBefore(cron, t)
           next == NextFire(cron, t)
           fire == NearestFire(cron, t)
           reach == Ticks * (Horizon * DayMinutes)
           I == Interval(cron)
<1>1. I \in Nat
  BY IntervalIsNat
<1>2. Ticks \in Nat /\ Ticks > 0 /\ HourMinutes \in Nat /\ HourMinutes > 0 /\ Horizon * DayMinutes \in Nat
  BY CalendarFacts
<1>3. back \in Nat /\ Ticks * back = 2 * (Ticks * I) + Ticks * HourMinutes /\ Ticks * I \in Nat
      /\ Ticks * HourMinutes \in Nat /\ Ticks * HourMinutes > 0
  <2> HIDE DEF I
  <2> QED BY <1>1, <1>2 DEF I
<1>4. from \in Nat /\ from < t - Ticks * I /\ from = t - (2 * Interval(cron) + HourMinutes) * Ticks
  <2>1. Ticks * back = back * Ticks
    <3> HIDE DEF back
    <3> QED BY <1>2, <1>3
  <2>2. Ticks * back <= t
    OBVIOUS
  <2>3. from \in Nat /\ from < t - Ticks * I
    <3> DEFINE a == Ticks * I  b == Ticks * HourMinutes  c == Ticks * back
    <3>1. a \in Nat /\ b \in Nat /\ b > 0 /\ c = 2 * a + b /\ c <= t
      BY <1>3, <2>2
    <3> HIDE DEF a, b, c
    <3>2. t - c \in Nat /\ t - c < t - a
      BY <3>1
    <3> QED BY <3>2 DEF a, c
  <2> QED BY <2>1, <2>3
<1>5. before = LastOf[W]
  BY <1>4 DEF FireBefore
<1>6. W \subseteq {f \in Nat : Fire(cron, f) /\ from < f /\ f <= t}
  BY <1>4, WalkedFires
<1>7. W = {} => before = Absent
  <2> HIDE DEF W
  <2> QED BY <1>5, <1>6 DEF LastOf
<1>8. W # {} => before \in W /\ \A f \in W : f <= before
  <2> HIDE DEF W
  <2> SUFFICES ASSUME W # {} PROVE before \in W /\ \A f \in W : f <= before
    OBVIOUS
  <2>1. W \in SUBSET Nat /\ W \in SUBSET (0..t)
    BY <1>6
  <2>2. \E x \in W : \A y \in W : x >= y
    BY <2>1, Largest
  <2>3. before = Max(W)
    BY <1>5, <2>1 DEF LastOf
  <2>4. Max(W) \in W /\ \A y \in W : Max(W) >= y
    BY <2>2 DEF Max
  <2> QED BY <2>1, <2>3, <2>4
<1>9. before # Absent => before \in Nat /\ Fire(cron, before) /\ before <= t
  BY <1>6, <1>7, <1>8
<1>10. next # Absent => next \in Nat /\ Fire(cron, next) /\ next > t
  BY NextIsFire
<1>11. fire = Nearer(t, before, next)
  BY DEF NearestFire
<1> HIDE DEF W, before, next, fire
<1>12. /\ fire \in {before, next}
       /\ before # Absent => fire # Absent /\ Off(t, fire) <= Off(t, before)
       /\ next # Absent => fire # Absent /\ Off(t, fire) <= Off(t, next)
  BY <1>9, <1>10, <1>11 DEF Nearer, Off
<1>13. ASSUME NEW f \in Nat, Fire(cron, f), Off(t, f) <= Ticks * I
       PROVE  fire # Absent /\ Off(t, fire) <= Off(t, f)
  <2> DEFINE a == Ticks * I
  <2>0. a \in Nat /\ Off(t, f) <= a
    BY <1>3, <1>13
  <2>1. CASE f <= t
    <3>1. from < f
      <4> HIDE DEF a, from
      <4>1. from < t - a
        BY <1>4 DEF a
      <4> QED BY <1>4, <2>0, <2>1, <4>1 DEF Off
    <3>2. f <= from + reach \/ \A u \in Nat : NextFire(cron, u) # Absent
      <4> SUFFICES ASSUME back <= Horizon * DayMinutes PROVE f <= from + reach
        OBVIOUS
      <4>1. Ticks * back <= reach
        <5> DEFINE h == Horizon * DayMinutes
        <5>1. h \in Int
          BY <1>2
        <5> HIDE DEF back, h
        <5>2. back <= h /\ back \in Int
          BY <1>3 DEF h
        <5> QED BY <1>2, <5>1, <5>2, ProductGrows DEF h
      <4> HIDE DEF back, reach
      <4>2. reach \in Nat /\ Ticks * back \in Nat
        BY <1>2, <1>3 DEF reach
      <4> QED BY <2>1, <4>1, <4>2
    <3>3. f \in W
      <4> HIDE DEF from
      <4> QED BY <1>4, <1>13, <2>1, <3>1, <3>2, WalkReaches DEF W
    <3>4. f <= before /\ before \in Nat /\ before <= t /\ before # Absent
      <4>1. before \in W /\ f <= before
        BY <1>8, <3>3
      <4>2. before \in Nat /\ before <= t
        BY <1>6, <4>1
      <4> QED BY <4>1, <4>2 DEF Absent
    <3>5. Off(t, before) <= Off(t, f) /\ Off(t, before) \in Int /\ Off(t, f) \in Int
      BY <2>1, <3>4 DEF Off
    <3>6. Off(t, fire) \in Int
      BY <1>9, <1>10, <1>12, <3>4 DEF Off
    <3> QED BY <1>12, <3>4, <3>5, <3>6
  <2>2. CASE f > t
    <3>1. next # Absent \/ f <= t + reach
      <4> SUFFICES ASSUME back <= Horizon * DayMinutes PROVE f <= t + reach
        BY DEF next
      <4>1. Ticks * I <= reach
        <5> DEFINE h == Horizon * DayMinutes
        <5>1. h \in Int /\ I <= h
          <6> HIDE DEF h, I
          <6> QED BY <1>1, <1>2 DEF h, I
        <5> HIDE DEF I, h
        <5> QED BY <1>1, <1>2, <5>1, ProductGrows DEF h
      <4> HIDE DEF reach, a
      <4>2. reach \in Nat /\ a <= reach
        BY <1>2, <4>1 DEF reach, a
      <4> QED BY <2>0, <2>2, <4>2 DEF Off
    <3>2. next # Absent /\ next <= f
      BY <1>13, <2>2, <3>1, NextIsLeast DEF next
    <3>3. Off(t, next) <= Off(t, f) /\ Off(t, next) \in Int /\ Off(t, f) \in Int /\ next \in Nat
      BY <1>10, <2>2, <3>2 DEF Off
    <3>4. Off(t, fire) \in Int
      BY <1>9, <1>10, <1>12, <3>2 DEF Off
    <3> QED BY <1>12, <3>2, <3>3, <3>4
  <2> QED BY <2>1, <2>2
<1>14. fire # Absent => Fire(cron, fire) /\ fire \in Nat
  BY <1>9, <1>10, <1>12
<1> QED BY <1>13, <1>14 DEF fire

\* Where the walk that looks for the fires before a run starts is an instant, and the
\* search reaches from there to the run, or the cron always has a next fire.
Reachable(cron) ==
  /\ \A t \in Moments : Ticks * (2 * Interval(cron) + HourMinutes) <= t
  /\ \/ 2 * Interval(cron) + HourMinutes <= Horizon * DayMinutes
     \/ \A t \in Nat : NextFire(cron, t) # Absent

\* The tolerance of a schedule is never more than its interval.
LEMMA ToleranceIsNat ==
  ASSUME NEW cron
  PROVE  AlignTolerance(cron) \in Nat /\ AlignTolerance(cron) <= Ticks * Interval(cron)
<1> DEFINE I == Interval(cron)  cap == 4 * AlignCap  least == Min({I, cap})
<1>1. I \in Nat /\ cap \in Nat /\ Ticks \in Nat
  <2>1. AlignCap \in Nat /\ Ticks \in Nat
    BY CalendarAssumption
  <2>2. I \in Nat
    BY IntervalIsNat
  <2> HIDE DEF I
  <2> QED BY <2>1, <2>2
<1> HIDE DEF I, cap
<1>2. least \in Nat /\ least <= I
  BY <1>1, LeastOfTwo
<1>3. AlignTolerance(cron) = least * Ticks
  BY DEF AlignTolerance, I, cap
<1> HIDE DEF least
<1>4. least * Ticks \in Nat /\ least * Ticks = Ticks * least
  BY <1>1, <1>2
<1>5. Ticks * least <= Ticks * I
  BY <1>1, <1>2, ProductGrows
<1> QED BY <1>3, <1>4, <1>5 DEF I

\* A run is called extra when no fire is near it, and compared with a nearest one.
LEMMA RunsCompared ==
  ASSUME NEW cron, Readable(cron), Reachable(cron), NEW run \in Moments
  PROVE  LET tolerance == AlignTolerance(cron)
             fire == NearestFire(cron, run)
             near == {f \in FiresBetween(cron, run - tolerance - Ticks, run + tolerance) :
                        Aligned(tolerance, run, f)}
         IN /\ Called(cron, run, Band) = "extra" <=> near = {}
            /\ \A f \in near : Off(run, fire) <= Off(run, f)
<1> DEFINE T == AlignTolerance(cron)
           fire == NearestFire(cron, run)
           from == run - T - Ticks
           near == {f \in FiresBetween(cron, from, run + T) : Aligned(T, run, f)}
           reach == Ticks * Interval(cron)
<1>1. run \in Nat
  BY RulesAssumption
<1>2. T \in Nat /\ reach \in Nat /\ T <= reach /\ Ticks \in Nat /\ Ticks > 0
  BY ToleranceIsNat, IntervalIsNat, CalendarFacts
<1>3. from \in Nat /\ run + T \in Nat
  <2> DEFINE h == Ticks * HourMinutes
  <2>1. Ticks * (2 * Interval(cron) + HourMinutes) <= run
    BY DEF Reachable
  <2>2. Ticks * (2 * Interval(cron) + HourMinutes) = 2 * reach + h
    BY IntervalIsNat, CalendarFacts
  <2>3. h \in Nat /\ h >= Ticks
    BY CalendarFacts
  <2>4. 2 * reach + h <= run
    BY <2>1, <2>2
  <2> HIDE DEF T, reach, h
  <2> QED BY <1>1, <1>2, <2>3, <2>4
<1>4. /\ fire # Absent => Fire(cron, fire) /\ fire \in Nat
      /\ \A f \in Nat : Fire(cron, f) /\ Off(run, f) <= reach
           => fire # Absent /\ Off(run, fire) <= Off(run, f)
  BY <1>1, NearestIsNear DEF Reachable
<1> HIDE DEF T, fire, from, reach
<1>5. ASSUME NEW f \in near
      PROVE  fire # Absent /\ Off(run, fire) <= Off(run, f) /\ Aligned(T, run, fire)
  <2>1. f \in Nat /\ Fire(cron, f)
    BY <1>3, BetweenFires
  <2>2. 4 * Off(run, f) <= T
    BY DEF Aligned
  <2>3. Off(run, f) \in Nat
    BY <1>1, <2>1 DEF Off
  <2>4. Off(run, f) <= reach
    BY <1>2, <2>2, <2>3
  <2>5. fire # Absent /\ Off(run, fire) <= Off(run, f)
    BY <1>4, <2>1, <2>4
  <2>6. Off(run, fire) \in Nat
    BY <1>1, <1>4, <2>5 DEF Off
  <2>7. 4 * Off(run, fire) <= T
    BY <1>2, <2>2, <2>3, <2>5, <2>6
  <2> QED BY <2>5, <2>7 DEF Aligned
<1>6. ASSUME Aligned(T, run, fire) PROVE fire \in near
  <2>1. fire # Absent /\ 4 * Off(run, fire) <= T
    BY <1>6 DEF Aligned
  <2>2. fire \in Nat /\ Fire(cron, fire)
    BY <1>4, <2>1
  <2>3. from < fire /\ fire <= run + T
    BY <1>1, <1>2, <2>1, <2>2 DEF Off, from
  <2>4. fire \in FiresBetween(cron, from, run + T)
    BY <1>3, <2>2, <2>3, FireBetween
  <2> QED BY <1>6, <2>4
<1>7. Called(cron, run, Band) = "extra" <=> ~ Aligned(T, run, fire)
  BY Zenon DEF Called, CalledFor, T, fire
<1> HIDE DEF near
<1>8. Called(cron, run, Band) = "extra" <=> near = {}
  BY <1>5, <1>6, <1>7
<1> QED BY <1>5, <1>8 DEF near, from, T, fire

\* A fire that is counted as missed is one, and no run was matched to it.
LEMMA MissesCounted ==
  ASSUME NEW cron, Reachable(cron), NEW a \in Moments, NEW b \in Moments, NEW runs, runs = {a, b},
         Cardinality(runs) = 2
  PROVE  LET missed == Missed(cron, runs)
             counted == {NearestFire(cron, r) : r \in {q \in runs : Called(cron, q, Band) # "extra"}}
         IN missed \cap counted = {} /\ missed \subseteq FiresBetween(cron, Min(runs) - 2 * Ticks, Max(runs))
<1> DEFINE T == AlignTolerance(cron)
           first == Min(runs)
           last == Max(runs)
           from == first - Ticks
           missed == Missed(cron, runs)
<1>1. a \in Nat /\ b \in Nat /\ Ticks \in Nat
  BY RulesAssumption, CalendarFacts
<1>2. first \in {a, b} /\ last \in {a, b}
  BY <1>1, LeastOfTwo
<1>3. Ticks <= first
  <2> DEFINE h == 2 * Interval(cron) + HourMinutes
  <2>1. first \in Moments /\ first \in Nat
    BY <1>1, <1>2
  <2>2. Ticks * h <= first
    BY <2>1 DEF Reachable
  <2>3. h \in Nat /\ 1 <= h
    BY IntervalIsNat, CalendarFacts
  <2> HIDE DEF h, first
  <2>4. Ticks * 1 <= Ticks * h /\ Ticks * h \in Int
    BY <1>1, <2>3, ProductGrows
  <2> QED BY <1>1, <2>1, <2>2, <2>4
<1>4. from \in Nat /\ last \in Nat /\ first \in Nat
  BY <1>1, <1>2, <1>3
<1>5. \A f \in missed : f \in Walked(cron, from, last) /\ \A r \in runs : ~ Aligned(T, r, f)
  <2> DEFINE met == Walked(cron, from, last)
  <2>1. missed = {f \in {f \in met : Cardinality({g \in met : g < f}) < MaxFires} :
                    \A r \in runs : ~ Aligned(T, r, f)}
    BY DEF Missed, MissedWithin
  <2> HIDE DEF missed, met
  <2> QED BY <2>1 DEF met
<1> HIDE DEF missed
<1>6. missed \subseteq FiresBetween(cron, first - 2 * Ticks, last)
  <2> SUFFICES ASSUME NEW f \in missed PROVE f \in FiresBetween(cron, first - 2 * Ticks, last)
    OBVIOUS
  <2>1. f \in Nat /\ Fire(cron, f) /\ from < f /\ f <= last
    BY <1>4, <1>5, WalkedFires
  <2>2. first - 2 * Ticks \in Int /\ first - 2 * Ticks < f
    <3> HIDE DEF first
    <3> QED BY <1>1, <1>4, <2>1
  <2> QED BY <1>4, <2>1, <2>2, FireBetween
<1>7. ASSUME NEW q \in runs, Called(cron, q, Band) # "extra" PROVE NearestFire(cron, q) \notin missed
  <2>1. Aligned(T, q, NearestFire(cron, q))
    BY <1>7, Zenon DEF Called, CalledFor
  <2> QED BY <1>5, <2>1
<1> QED BY <1>6, <1>7 DEF missed

\* For every calendar, cron and set of runs that the horizon of the search covers
\* two intervals for, or whose cron always has a next fire: a failure counts when a
\* fire is in the window around its run, the account of a schedule calls a run extra
\* exactly when no fire is within the tolerance, compares it with a nearest one, and
\* counts no fire both as missed and as matched (is_within_cron_schedule,
\* _nearest_scheduled_fire, job_schedule_adherence).
THEOREM RunsAreMatched ==
  ASSUME 2 * Tolerance + 1 <= Horizon * DayMinutes,
         \A t \in Instants : (Tolerance + 1) * Ticks <= t,
         \A c \in Crons : Readable(c) => Reachable(c)
  PROVE  Spec => []RunsMatchFires
<1>1. Spec => []ScheduledRunsCount
  BY ScheduledCount
<1>2. Asking => AdherenceExact
  <2> SUFFICES ASSUME Asking, ask.about = "history", Readable(ask.cron), NEW run \in ask.runs
               PROVE  LET tolerance == AlignTolerance(ask.cron)
                          fire == NearestFire(ask.cron, run)
                          near == {f \in FiresBetween(ask.cron, run - tolerance - Ticks, run + tolerance) :
                                     Aligned(tolerance, run, f)}
                      IN /\ Called(ask.cron, run, Band) = "extra" <=> near = {}
                         /\ \A f \in near : Off(run, fire) <= Off(run, f)
    BY DEF AdherenceExact
  <2>1. run \in Moments /\ Reachable(ask.cron)
    BY DEF Asking
  <2> QED BY <2>1, RunsCompared
<1>3. Asking => MissedExact
  <2> SUFFICES ASSUME Asking, ask.about = "history", Readable(ask.cron), Cardinality(ask.runs) = 2
               PROVE  LET missed == Missed(ask.cron, ask.runs)
                          counted == {NearestFire(ask.cron, r) :
                                        r \in {q \in ask.runs : Called(ask.cron, q, Band) # "extra"}}
                      IN missed \cap counted = {}
                         /\ missed \subseteq FiresBetween(ask.cron, Min(ask.runs) - 2 * Ticks, Max(ask.runs))
    BY DEF MissedExact
  <2>1. Reachable(ask.cron)
    BY DEF Asking
  <2>2. PICK a, b \in Moments : ask.runs = {a, b}
    BY DEF Asking
  <2> QED BY <2>1, <2>2, MissesCounted
<1>4. ScheduledRunsCount /\ AdherenceExact /\ MissedExact => RunsMatchFires
  BY DEF RunsMatchFires
<1> QED BY <1>1, <1>2, <1>3, <1>4, AlwaysAsking, PTL


-----------------------------------------------------------------------------
(* Access.                                                                    *)

\* Whoever sees all is an operator of RelayOps: signing in makes a platform owner
\* an administrator.
LEMMA OwnersAreElevated ==
  ASSUME NEW u \in Users
  PROVE  SeesAll(u) <=> Elevated(u)
  BY RulesAssumption DEF Account, SeesAll, Elevated

\* The six copies of the rule for one project.
LEMMA RuleCopies ==
  ASSUME NEW u \in Users, NEW p
  PROVE  LET opens == ProjectOpens(u, p)
         IN /\ ProjectListed(u, p) <=> opens
            /\ ProductsOpen(u, p, FALSE) <=> opens
            /\ AssetsOpen(u, p, FALSE) <=> opens
            /\ MemberState(u, p) = "forbidden" <=> ~opens
            /\ ~p.system => (ToolProject(u, p) <=> opens) /\ (ProjectDrills(u, p) <=> opens)
            /\ ProductsOpen(u, p, TRUE) \/ AssetsOpen(u, p, TRUE) \/ MembersOpen(u, p, TRUE) => opens
<1> DEFINE opens == ProjectOpens(u, p)
<1>1. SeesAll(u) <=> Elevated(u)
  BY OwnersAreElevated
<1>2. p.member \in Editors => IsMember(p)
  BY RulesAssumption DEF IsMember
<1>3. ProjectListed(u, p) <=> opens
  BY DEF ProjectListed, ProjectOpens
<1>4. ProductsOpen(u, p, FALSE) <=> opens
  BY DEF ProductsOpen, ProjectOpens
<1>5. AssetsOpen(u, p, FALSE) <=> opens
  BY DEF AssetsOpen, ProjectOpens
<1>6. MemberState(u, p) = "forbidden" <=> ~opens
  BY DEF MemberState, ProjectOpens
<1>7. ~p.system => (ToolProject(u, p) <=> opens) /\ (ProjectDrills(u, p) <=> opens)
  BY <1>1 DEF ToolProject, ProjectDrills, Belongs, ProjectOpens
<1>8. ProductsOpen(u, p, TRUE) \/ AssetsOpen(u, p, TRUE) \/ MembersOpen(u, p, TRUE) => opens
  BY <1>2 DEF ProductsOpen, AssetsOpen, MembersOpen, MemberState, ProjectOpens
<1> QED BY <1>3, <1>4, <1>5, <1>6, <1>7, <1>8

\* For every user and project the six copies of the rule agree, and who may write
\* may read (project_service, product_service, projects, products, tools).
THEOREM RulesAgree == Spec => []OneProjectRule
<1>1. Asking => OneProjectRule
  BY RuleCopies DEF Asking, OneProjectRule
<1> QED BY <1>1, AlwaysAsking, PTL

-----------------------------------------------------------------------------
(* What a user is shown, he may open.                                         *)

\* The issues of a world are rows, and so are those of any part of them.
LEMMA RowsOf ==
  ASSUME NEW S, Rows(S), NEW T \in SUBSET S
  PROVE  Rows(T)
BY FS_Subset DEF Rows

\* The cut of a list in order shows only what is in the list.
LEMMA CutShows ==
  ASSUME NEW w \in Worlds, NEW T \in SUBSET w.issues, NEW limit \in Nat
  PROVE  /\ Range(Top(LatestFirst(T), limit)) \subseteq T
         /\ \A n \in DOMAIN Top(LatestFirst(T), limit) : Top(LatestFirst(T), limit)[n] \in T
<1>1. Rows(T) /\ \A i \in T : i.updated \in Int
  BY WorldsAssumption, RowsOf
<1>2. LatestFirst(T) \in Seq(T)
  BY <1>1, LatestKeeps
<1> DEFINE s == Top(LatestFirst(T), limit)
<1>3. s \in Seq(T)
  BY <1>2, TopIsSeq
<1> HIDE DEF s
<1>4. \A n \in DOMAIN s : s[n] \in T
  BY <1>3
<1>5. Range(s) \subseteq T
  BY <1>4 DEF Range
<1> QED BY <1>4, <1>5 DEF s

\* What the rules of the lists ask for is at least what opening asks for.
LEMMA RulesNest ==
  ASSUME NEW u \in Users, NEW w \in Worlds, NEW i \in w.issues
  PROVE  /\ ToolIssue(w, u, i) <=> IssueOpens(w, u, i)
         /\ IssueListed(w, u, i) => IssueOpens(w, u, i)
         /\ MyIssue(i) => IssueOpens(w, u, i)
         /\ PendingHandover(u, i) => IssueOpens(w, u, i)
         /\ Workspace(w, u, i) => IssueOpens(w, u, i)
         /\ AuditIssue(w, u, i) => IssueOpens(w, u, i)
         /\ AnalyticsIssue(w, u, i) => IssueOpens(w, u, i)
<1>1. ToolIssue(w, u, i) <=> IssueOpens(w, u, i)
  BY DEF ToolIssue, IssueOpens
<1>2. IssueListed(w, u, i) => IssueOpens(w, u, i)
  BY DEF IssueListed, IssueOpens, InReach, Belongs
<1>3. (MyIssue(i) => IssueOpens(w, u, i)) /\ (Workspace(w, u, i) => IssueOpens(w, u, i))
  BY DEF MyIssue, Workspace, IssueOpens, Own
<1>4. (PendingHandover(u, i) => IssueOpens(w, u, i)) /\ (AuditIssue(w, u, i) => IssueOpens(w, u, i))
  BY DEF PendingHandover, AuditIssue, IssueOpens, SeesAll
<1>5. AnalyticsIssue(w, u, i) => IssueOpens(w, u, i)
  BY DEF AnalyticsIssue, IssueOpens
<1> QED BY <1>1, <1>2, <1>3, <1>4, <1>5

\* An issue of a product, or a project, that a user may export is in his reach.
LEMMA ExportsNest ==
  ASSUME NEW u \in Users, NEW w \in Worlds, NEW i \in w.issues
  PROVE  /\ \A x \in DOMAIN w.products : i \in ProductExport(w, u, x) => IssueOpens(w, u, i)
         /\ \A p \in DOMAIN w.projects : i \in ProjectExport(w, u, p) => IssueOpens(w, u, i)
         /\ i \in WholeExport(w, u) => IssueOpens(w, u, i)
<1>1. ASSUME NEW x \in DOMAIN w.products, i \in ProductExport(w, u, x) PROVE IssueOpens(w, u, i)
  <2>1. ProductDrills(w, u, x) /\ i.product = x
    BY <1>1 DEF ProductExport
  <2>2. x # Unset
    BY WorldsAssumption
  <2>3. Elevated(u) \/ InReach(w, u, i)
    BY <2>1, <2>2 DEF ProductDrills, ProductReach, InReach, ProjectOf
  <2> QED BY <2>3 DEF IssueOpens, SeesAll
<1>2. ASSUME NEW p \in DOMAIN w.projects, i \in ProjectExport(w, u, p) PROVE IssueOpens(w, u, i)
  <2>1. ProjectDrills(u, w.projects[p]) /\ i.product # Unset /\ ProjectOf(w, i) = p
    BY <1>2 DEF ProjectExport
  <2>2. Elevated(u) \/ InReach(w, u, i)
    BY <2>1 DEF ProjectDrills, InReach
  <2> QED BY <2>2 DEF IssueOpens, SeesAll
<1>3. i \in WholeExport(w, u) => IssueOpens(w, u, i)
  BY DEF WholeExport, ExportsAll, IssueOpens
<1> QED BY <1>1, <1>2, <1>3

\* An entry that the export of the log has is in the export of its issue.
LEMMA EntriesExported ==
  ASSUME NEW u \in Users, NEW w \in Worlds, NEW i \in w.issues, IssueOpens(w, u, i),
         NEW e \in w.logs, i.id = e.issue
  PROVE  e \in Range(IssueExport(w, u, i))
<1> DEFINE S == About(w.logs, i.id)
           s == OldestFirst(S)
<1>1. S \in SUBSET w.logs
  BY DEF About
<1>2. Rows(S) /\ \A x \in S : x.at \in Int
  <2>1. Rows(w.logs) /\ \A x \in w.logs : x.at \in Int
    BY WorldsAssumption
  <2> QED BY <1>1, <2>1, RowsOf
<1>3. e \in S
  BY WorldsAssumption DEF About
<1>4. IssueExport(w, u, i) = s
  BY DEF IssueExport, Entries
<1> HIDE DEF S
<1>5. \E n \in DOMAIN s : s[n] = e
  BY <1>2, <1>3, OldestKeeps
<1> QED BY <1>4, <1>5 DEF Range

\* Nothing a user is shown is out of his reach.
LEMMA ShownIsOpen ==
  ASSUME Asking
  PROVE  ShownOpens
<1> SUFFICES ASSUME ask.about = "figures" PROVE ShownOpens
  BY DEF ShownOpens
<1> DEFINE u == ask.user
           w == ask.world
           opens == {i \in w.issues : IssueOpens(w, u, i)}
           all == {i.id : i \in w.issues}
<1>1. u \in Users /\ w \in Worlds
  BY DEF Asking
<1>2. MaxRows \in Nat
  BY PagesAssumption
<1> HIDE DEF u, w
<1>3. opens = {i \in w.issues : ToolIssue(w, u, i)}
  BY <1>1, RulesNest
<1>4. {i \in w.issues : \/ IssueListed(w, u, i) \/ MyIssue(i) \/ PendingHandover(u, i)
                        \/ Workspace(w, u, i)} \subseteq opens
  BY <1>1, RulesNest
<1>5. Range(IssueRows(w, u, ask.period, Everything, all, MaxRows)) \subseteq opens
  <2> DEFINE T == {i \in ScopedIssues(w, u, ask.period, Everything) : i.id \in all}
  <2>1. T \in SUBSET w.issues /\ \A i \in T : AnalyticsIssue(w, u, i)
    BY DEF ScopedIssues, Filtered
  <2>2. T \subseteq opens
    BY <1>1, <2>1, RulesNest
  <2>3. IssueRows(w, u, ask.period, Everything, all, MaxRows) = Top(LatestFirst(T), MaxRows)
    BY DEF IssueRows
  <2> HIDE DEF T
  <2>4. Range(Top(LatestFirst(T), MaxRows)) \subseteq T
    BY <1>1, <1>2, <2>1, CutShows
  <2> QED BY <2>2, <2>3, <2>4
<1>6. \A x \in DOMAIN w.products : ProductExport(w, u, x) \subseteq opens
  <2>1. \A x \in DOMAIN w.products : ProductExport(w, u, x) \subseteq w.issues
    BY DEF ProductExport
  <2> QED BY <1>1, <2>1, ExportsNest
<1>7. \A p \in DOMAIN w.projects : ProjectExport(w, u, p) \subseteq opens
  <2>1. \A p \in DOMAIN w.projects : ProjectExport(w, u, p) \subseteq w.issues
    BY DEF ProjectExport
  <2> QED BY <1>1, <2>1, ExportsNest
<1>8. WholeExport(w, u) \subseteq opens
  <2>1. WholeExport(w, u) \subseteq w.issues
    BY DEF WholeExport
  <2> QED BY <1>1, <2>1, ExportsNest
<1>9. SummaryRows(w, u, Everything, all, MaxRows) \subseteq opens
  <2> DEFINE T == Filtered(w, {i \in w.issues : AuditIssue(w, u, i)}, Everything)
  <2>1. T \in SUBSET w.issues /\ \A i \in T : AuditIssue(w, u, i)
    BY DEF Filtered
  <2>2. T \subseteq opens
    BY <1>1, <2>1, RulesNest
  <2>3. SummaryRows(w, u, Everything, all, MaxRows) \subseteq Range(Top(LatestFirst(T), MaxRows))
    BY DEF SummaryRows
  <2> HIDE DEF T
  <2>4. Range(Top(LatestFirst(T), MaxRows)) \subseteq T
    BY <1>1, <1>2, <2>1, CutShows
  <2> QED BY <2>2, <2>3, <2>4
<1>10. \A e \in LogExport(w, u, Everything, all, MaxRows) :
         \E i \in opens : i.id = e.issue /\ e \in Range(IssueExport(w, u, i))
  <2>1. ASSUME NEW e \in LogExport(w, u, Everything, all, MaxRows)
        PROVE  \E i \in opens : i.id = e.issue /\ e \in Range(IssueExport(w, u, i))
    <3>1. e \in w.logs /\ \E i \in SummaryRows(w, u, Everything, all, MaxRows) : i.id = e.issue
      BY <2>1 DEF LogExport
    <3>2. PICK i \in opens : i.id = e.issue
      BY <1>9, <3>1
    <3>3. i \in w.issues /\ IssueOpens(w, u, i)
      OBVIOUS
    <3>4. e \in Range(IssueExport(w, u, i))
      BY <1>1, <3>1, <3>2, <3>3, EntriesExported
    <3> QED BY <3>2, <3>4
  <2> QED BY <2>1
<1>11. ToolSearch(w, u, LatestFirst(w.issues), 2) \subseteq opens
  <2> DEFINE top == Top(LatestFirst(w.issues), 3 * 2)
  <2>1. \A n \in DOMAIN top : top[n] \in w.issues
    <3>1. w.issues \in SUBSET w.issues /\ 3 * 2 \in Nat
      OBVIOUS
    <3> QED BY <1>1, <3>1, CutShows
  <2>2. \A i \in ToolSearch(w, u, LatestFirst(w.issues), 2) :
          \E n \in DOMAIN top : i = top[n] /\ ToolIssue(w, u, top[n])
    BY DEF ToolSearch
  <2> HIDE DEF top
  <2> QED BY <1>3, <2>1, <2>2
<1> HIDE DEF opens, all
<1>12. /\ opens = {i \in w.issues : ToolIssue(w, u, i)}
       /\ {i \in w.issues : \/ IssueListed(w, u, i) \/ MyIssue(i) \/ PendingHandover(u, i)
                            \/ Workspace(w, u, i)} \subseteq opens
       /\ Range(IssueRows(w, u, ask.period, Everything, all, MaxRows)) \subseteq opens
       /\ \A x \in DOMAIN w.products : ProductExport(w, u, x) \subseteq opens
       /\ \A p \in DOMAIN w.projects : ProjectExport(w, u, p) \subseteq opens
       /\ WholeExport(w, u) \subseteq opens
       /\ SummaryRows(w, u, Everything, all, MaxRows) \subseteq opens
       /\ \A e \in LogExport(w, u, Everything, all, MaxRows) :
            \E i \in opens : i.id = e.issue /\ e \in Range(IssueExport(w, u, i))
       /\ ToolSearch(w, u, LatestFirst(w.issues), 2) \subseteq opens
  BY <1>3, <1>4, <1>5, <1>6, <1>7, <1>8, <1>9, <1>10, <1>11
<1> QED BY <1>12, Zenon DEF ShownOpens, u, w, opens, all

\* The lists, exports and searches of every user show what he may open, and the
\* directories of CML and the monitor name what he may read.
THEOREM OneRule == Spec => []OneReading
<1>1. Asking => ShownOpens
  BY ShownIsOpen
<1>2. DirectoryReads
  BY DEF DirectoryReads, LiveDirectory, LiveNamed
<1> QED BY <1>1, <1>2, AlwaysAsking, PTL DEF OneReading

-----------------------------------------------------------------------------
(* Sums.                                                                      *)

\* A sum is what is found by taking the elements of its domain one by one.
Adds(f, sums) ==
  sums = [s \in SUBSET DOMAIN f |-> IF s = {} THEN 0
                                   ELSE LET x == CHOOSE x \in s : TRUE IN f[x] + sums[s \ {x}]]

\* There is one such sum: two that differed would differ on a smallest set.
LEMMA SumTakes ==
  ASSUME NEW f, IsFiniteSet(DOMAIN f), NEW sums, Adds(f, sums)
  PROVE  SumFunction(f) = sums[DOMAIN f]
<1> DEFINE iter == CHOOSE d : Adds(f, d)
           Taken(d, s) == IF s = {} THEN 0 ELSE LET x == CHOOSE x \in s : TRUE IN f[x] + d[s \ {x}]
<1>1. SumFunction(f) = iter[DOMAIN f]
  BY DEF SumFunction, SumFunctionOnSet, FoldFunctionOnSet, MapThenFoldSet, Adds
<1>2. Adds(f, iter)
  OBVIOUS
<1> HIDE DEF iter
<1>3. \A s \in SUBSET DOMAIN f : iter[s] = Taken(iter, s) /\ sums[s] = Taken(sums, s)
  BY <1>2 DEF Adds
<1> DEFINE Differ == {s \in SUBSET DOMAIN f : iter[s] # sums[s]}
           sizes == {Cardinality(s) : s \in Differ}
<1>4. \A s \in SUBSET DOMAIN f : IsFiniteSet(s) /\ Cardinality(s) \in Nat
  BY FS_Subset, FS_CardinalityType
<1>5. Differ = {}
  <2> SUFFICES ASSUME Differ # {} PROVE FALSE
    OBVIOUS
  <2>1. sizes \in SUBSET Nat /\ sizes # {}
    BY <1>4
  <2>2. Min(sizes) \in sizes /\ \A n \in sizes : Min(sizes) <= n
    <3> HIDE DEF sizes
    <3> QED BY <2>1, Least
  <2>3. PICK s \in Differ : Cardinality(s) = Min(sizes)
    BY <2>2
  <2>4. s # {}
    BY <1>3
  <2> DEFINE x == CHOOSE x \in s : TRUE
  <2>5. x \in s
    BY <2>4
  <2>6. iter[s] = f[x] + iter[s \ {x}] /\ sums[s] = f[x] + sums[s \ {x}]
    BY <1>3, <2>4
  <2> HIDE DEF x
  <2>7. s \ {x} \in Differ
    BY <2>6
  <2>8. Cardinality(s \ {x}) = Cardinality(s) - 1 /\ Cardinality(s) \in Nat
    BY <1>4, <2>5, FS_RemoveElement
  <2>9. Cardinality(s \ {x}) \in sizes
    BY <2>7
  <2> HIDE DEF sizes, Differ
  <2> QED BY <2>1, <2>2, <2>3, <2>8, <2>9
<1>6. DOMAIN f \in SUBSET DOMAIN f
  OBVIOUS
<1> QED BY <1>1, <1>5, <1>6

\* The parts of a finite set add up to it.
LEMMA SumOfParts ==
  ASSUME NEW E, IsFiniteSet(E), NEW K, IsFiniteSet(K), NEW part, \A e \in E : part[e] \in K
  PROVE  SumFunction([k \in K |-> Cardinality({e \in E : part[e] = k})]) = Cardinality(E)
<1> DEFINE f == [k \in K |-> Cardinality({e \in E : part[e] = k})]
           sums == [s \in SUBSET K |-> Cardinality({e \in E : part[e] \in s})]
<1>1. ASSUME NEW s \in SUBSET K
      PROVE  sums[s] = IF s = {} THEN 0 ELSE LET x == CHOOSE x \in s : TRUE IN f[x] + sums[s \ {x}]
  <2>1. CASE s = {}
    <3>1. {e \in E : part[e] \in s} = {}
      BY <2>1
    <3> QED BY <2>1, <3>1, FS_EmptySet
  <2>2. CASE s # {}
    <3> DEFINE x == CHOOSE x \in s : TRUE
               A == {e \in E : part[e] = x}
               B == {e \in E : part[e] \in s \ {x}}
    <3>1. x \in s
      BY <2>2
    <3> HIDE DEF x
    <3>2. {e \in E : part[e] \in s} = A \cup B /\ A \cap B = {}
      BY <3>1
    <3>3. IsFiniteSet(A) /\ IsFiniteSet(B)
      <4>1. A \in SUBSET E /\ B \in SUBSET E
        OBVIOUS
      <4> QED BY <4>1, FS_Subset
    <3>4. f[x] = Cardinality(A) /\ sums[s \ {x}] = Cardinality(B) /\ sums[s] = Cardinality(A \cup B)
      BY <3>1, <3>2
    <3> HIDE DEF A, B, f, sums
    <3>5. Cardinality(A \cup B) = Cardinality(A) + Cardinality(B) - Cardinality(A \cap B)
      BY <3>3, FS_Union
    <3>6. Cardinality(A) \in Nat /\ Cardinality(B) \in Nat
      BY <3>3, FS_CardinalityType
    <3>7. Cardinality(A \cap B) = 0
      BY <3>2, FS_EmptySet
    <3> DEFINE a == Cardinality(A)  b == Cardinality(B)  c == Cardinality(A \cup B)
    <3>8. c = a + b
      <4>1. a \in Nat /\ b \in Nat /\ c = a + b - 0
        BY <3>5, <3>6, <3>7
      <4> HIDE DEF a, b, c
      <4> QED BY <4>1
    <3>9. sums[s] = f[x] + sums[s \ {x}]
      BY <3>4, <3>8
    <3> QED BY <2>2, <3>9 DEF x
  <2> QED BY <2>1, <2>2
<1>2. Adds(f, sums)
  <2>1. DOMAIN f = K /\ sums = [s \in SUBSET K |-> sums[s]]
    OBVIOUS
  <2> HIDE DEF f, sums
  <2> QED BY <1>1, <2>1 DEF Adds
<1>3. DOMAIN f = K /\ sums[K] = Cardinality(E)
  <2>1. {e \in E : part[e] \in K} = E
    OBVIOUS
  <2> QED BY <2>1
<1> HIDE DEF f, sums
<1>4. SumFunction(f) = sums[K]
  BY <1>2, <1>3, SumTakes
<1> QED BY <1>3, <1>4 DEF f

-----------------------------------------------------------------------------
(* Figures.                                                                   *)

\* The later of two runs of a job.
Newer(a, b) == a.at > b.at \/ (a.at = b.at /\ a.run > b.run)
After(S) == [x \in S |-> {y \in S : Newer(y, x)}]

\* Runs of one job, each recorded once.
OneJobs(S) ==
  /\ IsFiniteSet(S)
  /\ \A e \in S : /\ e.run \in Int /\ e.at \in Int
                  /\ \A f \in S : e.run = f.run => e = f

\* They have an order.
LEMMA NewestRanked ==
  ASSUME NEW S, OneJobs(S)
  PROVE  Ranked(S, After(S)) /\ NewestFirst(S) = InRank(S, After(S))
<1>1. NewestFirst(S) = InRank(S, After(S))
  BY DEF NewestFirst, Ordered, InRank, After, Newer
<1>2. \A x \in S : x.run \in Int /\ x.at \in Int
  BY DEF OneJobs
<1>3. \A x, y \in S : x # y => Newer(x, y) \/ Newer(y, x)
  BY <1>2 DEF OneJobs, Newer
<1>4. \A x, y, z \in S : Newer(x, y) /\ Newer(y, z) => Newer(x, z)
  BY <1>2 DEF Newer
<1>5. \A x \in S : ~Newer(x, x)
  BY <1>2 DEF Newer
<1>6. \A x, y \in S : x \in After(S)[y] <=> Newer(x, y)
  BY DEF After
<1>7. After(S) \in [S -> SUBSET S]
  BY DEF After
<1>8. \A x, y \in S : x \in After(S)[y] => After(S)[x] \subseteq After(S)[y]
  BY <1>4, <1>6, <1>7
<1>9. IsFiniteSet(S)
  BY DEF OneJobs
<1>10. Ranked(S, After(S))
  BY <1>3, <1>5, <1>6, <1>7, <1>8, <1>9 DEF Ranked
<1> QED BY <1>1, <1>10

\* A function that pairs two finite sets off gives them the same size.
LEMMA PairedOff ==
  ASSUME NEW S, IsFiniteSet(S), NEW T, NEW g, \A x \in S : g[x] \in T,
         \A y \in T : \E x \in S : y = g[x], \A x, y \in S : g[x] = g[y] => x = y
  PROVE  IsFiniteSet(T) /\ Cardinality(T) = Cardinality(S)
<1> DEFINE h == [x \in S |-> g[x]]
<1>1. h \in [S -> T] /\ (\A x, y \in S : h[x] = h[y] => x = y) /\ (\A y \in T : \E x \in S : h[x] = y)
  OBVIOUS
<1> HIDE DEF h
<1>2. h \in Bijection(S, T)
  BY <1>1 DEF Bijection, Injection, Surjection, IsInjective
<1>3. ExistsBijection(S, T)
  BY <1>2 DEF ExistsBijection
<1> QED BY <1>3, FS_Bijection

\* Runs that correspond, at the same times, come in the same order.
LEMMA SameOrder ==
  ASSUME NEW S, NEW T, OneJobs(S), OneJobs(T), NEW g, \A x \in S : g[x] \in T,
         \A y \in T : \E x \in S : y = g[x],
         \A x \in S : g[x].at = x.at /\ g[x].run = x.run
  PROVE  /\ Cardinality(S) \in Nat /\ Cardinality(T) = Cardinality(S)
         /\ DOMAIN NewestFirst(S) = 1..Cardinality(S) /\ DOMAIN NewestFirst(T) = 1..Cardinality(S)
         /\ \A n \in 1..Cardinality(S) : /\ NewestFirst(S)[n] \in S
                                         /\ NewestFirst(T)[n] = g[NewestFirst(S)[n]]
<1> DEFINE s == NewestFirst(S)
           t == NewestFirst(T)
           N == Cardinality(S)
<1>1. \A x, y \in S : g[x] = g[y] => x = y
  BY DEF OneJobs
<1>2. IsFiniteSet(S) /\ N \in Nat
  BY FS_CardinalityType DEF OneJobs
<1>3. Cardinality(T) = N
  BY <1>1, <1>2, PairedOff
<1>4. \A x, y \in S : Newer(x, y) <=> Newer(g[x], g[y])
  BY DEF Newer
<1>5. ASSUME NEW x \in S PROVE Cardinality(After(T)[g[x]]) = Cardinality(After(S)[x])
  <2> DEFINE A == After(S)[x]  B == After(T)[g[x]]
  <2>1. A = {y \in S : Newer(y, x)} /\ B = {y \in T : Newer(y, g[x])}
    BY DEF After
  <2> HIDE DEF A, B
  <2>2. IsFiniteSet(A)
    BY <1>2, <2>1, FS_Subset
  <2>3. \A y \in A : g[y] \in B
    BY <1>4, <2>1
  <2>4. \A z \in B : \E y \in A : z = g[y]
    BY <1>4, <2>1
  <2>5. \A y, z \in A : g[y] = g[z] => y = z
    BY <1>1, <2>1
  <2> QED BY <2>2, <2>3, <2>4, <2>5, PairedOff DEF A, B
<1>6. /\ Ranked(S, After(S)) /\ s = InRank(S, After(S))
      /\ Ranked(T, After(T)) /\ t = InRank(T, After(T))
  BY NewestRanked
<1>7. ASSUME NEW R, Ranked(R, After(R)), NEW n \in 1..Cardinality(R)
      PROVE  LET r == InRank(R, After(R)) IN r[n] \in R /\ Cardinality(After(R)[r[n]]) = n - 1
  <2> DEFINE rank == [x \in R |-> Cardinality(After(R)[x])]
  <2>1. Cardinality(R) \in Nat /\ \A m \in 0..(Cardinality(R) - 1) : \E x \in R : rank[x] = m
    BY <1>7, RanksAreFull
  <2>2. n - 1 \in 0..(Cardinality(R) - 1)
    BY <2>1
  <2>3. \E x \in R : Cardinality(After(R)[x]) = n - 1
    BY <2>1, <2>2
  <2>4. InRank(R, After(R))[n] = CHOOSE x \in R : Cardinality(After(R)[x]) = n - 1
    BY DEF InRank
  <2> QED BY <2>3, <2>4
<1>8. ASSUME NEW x \in T, NEW y \in T, Cardinality(After(T)[x]) = Cardinality(After(T)[y]) PROVE x = y
  <2> DEFINE rank == [z \in T |-> Cardinality(After(T)[z])]
  <2>1. \A a, b \in T : rank[a] = rank[b] => a = b
    BY <1>6, RanksAreFull
  <2> QED BY <1>8, <2>1
<1>9. DOMAIN s = 1..N /\ DOMAIN t = 1..N
  BY <1>3, <1>6 DEF InRank
<1>10. ASSUME NEW n \in 1..N PROVE s[n] \in S /\ t[n] = g[s[n]]
  <2>1. s[n] \in S /\ Cardinality(After(S)[s[n]]) = n - 1
    BY <1>6, <1>7
  <2>2. t[n] \in T /\ Cardinality(After(T)[t[n]]) = n - 1
    BY <1>3, <1>6, <1>7
  <2>3. g[s[n]] \in T /\ Cardinality(After(T)[g[s[n]]]) = n - 1
    BY <1>5, <2>1
  <2> HIDE DEF s, t
  <2> QED BY <1>8, <2>1, <2>2, <2>3
<1> HIDE DEF s, t, N
<1> QED BY <1>2, <1>3, <1>9, <1>10 DEF s, t, N

\* If they fail together, they have the same streak.
LEMMA SameStreak ==
  ASSUME NEW S, NEW T, OneJobs(S), OneJobs(T), NEW g, \A x \in S : g[x] \in T,
         \A y \in T : \E x \in S : y = g[x],
         \A x \in S : g[x].at = x.at /\ g[x].run = x.run,
         NEW C, NEW D, \A x \in S : Failed(x, C) <=> Failed(g[x], D)
  PROVE  Streak(NewestFirst(S), C) = Streak(NewestFirst(T), D)
<1> DEFINE s == NewestFirst(S)
           t == NewestFirst(T)
           N == Cardinality(S)
<1>1. DOMAIN s = 1..N /\ DOMAIN t = 1..N /\ \A n \in 1..N : s[n] \in S /\ t[n] = g[s[n]]
  BY SameOrder
<1> HIDE DEF s, t, N
<1>2. \A n \in 1..N : Failed(s[n], C) = Failed(t[n], D)
  <2>1. \A n \in 1..N : Failed(s[n], C) <=> Failed(t[n], D)
    BY <1>1
  <2>2. \A e, X : Failed(e, X) \in BOOLEAN
    BY DEF Failed
  <2> QED BY <2>1, <2>2
<1>3. [n \in DOMAIN s |-> Failed(s[n], C)] = [n \in DOMAIN t |-> Failed(t[n], D)]
  BY <1>1, <1>2
<1> QED BY <1>3 DEF Streak, s, t

\* Runs that are each recorded once.
RecordedOnce(execs) ==
  /\ IsFiniteSet(execs)
  /\ \A e \in execs : /\ e.run \in Int /\ e.at \in Int
                      /\ \A f \in execs : e.job = f.job /\ e.run = f.run => e = f

\* Those of a world are.
LEMMA WorldRecords ==
  ASSUME NEW w \in Worlds
  PROVE  RecordedOnce(w.execs)
BY FiguresAssumption DEF RecordedOnce

\* Those of a job have an order.
LEMMA RunsOfJob ==
  ASSUME NEW execs, RecordedOnce(execs), NEW S \in SUBSET execs, NEW j, \A e \in S : e.job = j
  PROVE  OneJobs(S)
<1>1. IsFiniteSet(S)
  BY FS_Subset DEF RecordedOnce
<1>2. \A e \in S : e.run \in Int /\ e.at \in Int /\ \A f \in S : e.run = f.run => e = f
  BY DEF RecordedOnce
<1> QED BY <1>1, <1>2 DEF OneJobs

\* The dismissals of some issues matter as those of others do, for the runs of jobs
\* whose issues are among both.
LEMMA SameDismissals ==
  ASSUME NEW I, NEW A \in SUBSET I, NEW j, \A i \in I : i.job = j => i \in A, NEW e, e.job = j
  PROVE  Failed(e, Dismissed(A)) <=> Failed(e, Dismissed(I))
<1>1. <<e.job, e.run>> \in Dismissed(A) <=> <<e.job, e.run>> \in Dismissed(I)
  BY DEF Dismissed
<1> QED BY <1>1 DEF Failed

\* The issues of a product.
IssuesOf(issues, x) == {i \in issues : i.product = x}

\* The row of a product in the overview is the head of its drill-down.
LEMMA RowIsSummary ==
  ASSUME NEW jobs, NEW execs, RecordedOnce(execs), NEW issues, NEW now, NEW x, NEW shown, NEW period, NEW rules
  PROVE  OverviewRow(x, jobs, execs, issues, shown, period, now, rules)
         = DrillDown(x, jobs, execs, issues, IssuesOf(shown, x), period, now, rules).summary
<1> DEFINE open == IssuesOf(shown, x)
           mine == {j \in DOMAIN jobs : jobs[j] = x}
           all == Dismissed({i \in issues : i.job \in DOMAIN jobs})
           some == Dismissed({i \in issues : i.job \in mine})
           counted == {e \in execs : Within(e.at, period)}
           ours == {e \in execs : e.job \in mine /\ Within(e.at, period)}
           runs(j) == {e \in counted : e.job = j}
           fails(j) == {e \in runs(j) : Failed(e, all)}
           rows == [j \in mine |-> JobRow(j, ours, some, open)]
<1>1. ASSUME NEW e, e.job \in mine PROVE Failed(e, all) <=> Failed(e, some)
  <2>1. Failed(e, all) <=> Failed(e, Dismissed(issues))
    BY <1>1, SameDismissals
  <2>2. Failed(e, some) <=> Failed(e, Dismissed(issues))
    BY <1>1, SameDismissals
  <2> QED BY <2>1, <2>2
<1>2. ASSUME NEW j \in mine
      PROVE  /\ runs(j) = {e \in ours : e.job = j}
             /\ fails(j) = {e \in {f \in ours : f.job = j} : Failed(e, some)}
             /\ Streak(NewestFirst(runs(j)), all) = Streak(NewestFirst(runs(j)), some)
  <2>1. runs(j) = {e \in ours : e.job = j}
    OBVIOUS
  <2>2. \A e \in runs(j) : Failed(e, all) <=> Failed(e, some)
    BY <1>1
  <2>3. fails(j) = {e \in {f \in ours : f.job = j} : Failed(e, some)}
    BY <2>1, <2>2
  <2>4. OneJobs(runs(j))
    BY RunsOfJob
  <2> DEFINE S == runs(j)  g == [e \in S |-> e]
  <2> HIDE DEF S
  <2>5. (\A e \in S : g[e] = e) /\ (\A e \in S : Failed(e, all) <=> Failed(e, some)) /\ OneJobs(S)
    BY <2>2, <2>4 DEF S
  <2> HIDE DEF g, all, some
  <2>6. Streak(NewestFirst(S), all) = Streak(NewestFirst(S), some)
    BY <2>5, SameStreak
  <2> QED BY <2>1, <2>3, <2>6 DEF S
<1>3. \A j \in mine : /\ rows[j].runs = Cardinality(runs(j)) /\ rows[j].fails = Cardinality(fails(j))
                      /\ rows[j].streak = Streak(NewestFirst(runs(j)), all)
  BY <1>2 DEF JobRow
<1>4. [j \in mine |-> Cardinality(runs(j))] = [j \in mine |-> rows[j].runs]
      /\ [j \in mine |-> Cardinality(fails(j))] = [j \in mine |-> rows[j].fails]
  BY <1>3
<1>5. ProductStreak(mine, counted, all) = Max({0} \cup {rows[j].streak : j \in mine})
  <2> DEFINE streak(j) == Streak(NewestFirst({e \in counted : e.job = j}), all)
  <2>0. \A j \in mine : streak(j) = rows[j].streak
    BY <1>3
  <2> HIDE DEF rows, counted, mine, all, streak
  <2>1. {streak(j) : j \in mine} = {rows[j].streak : j \in mine}
    BY <2>0
  <2> USE DEF streak
  <2> QED BY <2>1 DEF ProductStreak
<1>6. {e.at : e \in UNION {fails(j) : j \in mine}} = {e.at : e \in {c \in ours : Failed(c, some)}}
  <2>0. ASSUME NEW j \in mine, NEW e
        PROVE  e \in fails(j) <=> e \in ours /\ e.job = j /\ Failed(e, some)
    BY <1>2
  <2>1. UNION {fails(j) : j \in mine} = {c \in ours : Failed(c, some)}
    <3>1. \A e \in ours : e.job \in mine
      OBVIOUS
    <3> HIDE DEF fails, mine, ours, some
    <3> QED BY <2>0, <3>1
  <2> QED BY <2>1
<1> DEFINE total == SumFunction([j \in mine |-> Cardinality(runs(j))])
           failed == SumFunction([j \in mine |-> Cardinality(fails(j))])
<1>7. OverviewRow(x, jobs, execs, issues, shown, period, now, rules)
      = Classified([runs |-> total, fails |-> failed, rate |-> Percent(failed, total),
                    streak |-> ProductStreak(mine, counted, all),
                    failed |-> Latest({e.at : e \in UNION {fails(j) : j \in mine}}),
                    open |-> Cardinality(open)], period, now, rules)
  BY DEF OverviewRow, IssuesOf
<1> DEFINE total2 == SumFunction([j \in mine |-> rows[j].runs])
           failed2 == SumFunction([j \in mine |-> rows[j].fails])
<1>8. DrillDown(x, jobs, execs, issues, open, period, now, rules).summary
      = Classified([runs |-> total2, fails |-> failed2, rate |-> Percent(failed2, total2),
                    streak |-> Max({0} \cup {rows[j].streak : j \in mine}),
                    failed |-> Latest({e.at : e \in {c \in ours : Failed(c, some)}}),
                    open |-> Cardinality(open)], period, now, rules)
  BY DEF DrillDown
<1>9. total = total2 /\ failed = failed2
  BY <1>4
<1> HIDE DEF total, total2, failed, failed2, rows, mine, counted, all, ours, some
<1> QED BY <1>5, <1>6, <1>7, <1>8, <1>9

\* What is joined to a record leaves its fields alone.
LEMMA JoinKeeps ==
  ASSUME NEW f, NEW g
  PROVE  \A x \in DOMAIN f : Joined(f, g)[x] = f[x]
BY DEF Joined

\* The open issues of a product, in the assistant's overview and in its drill-down.
LEMMA OpenOfProduct ==
  ASSUME NEW w, NEW u, NEW products, NEW x \in products
  PROVE  {i \in ToolOpen(w, u, products) : i.product = x} = ToolOpen(w, u, {x})
BY DEF OpenOf, ToolOpen

\* Of the issues of a product in his reach a user of the dashboard sees what the
\* assistant sees.
LEMMA SameIssues ==
  ASSUME NEW u \in Users, NEW w \in Worlds, NEW x, x # Unset, ProductDrills(w, u, x),
         NEW i, i.product = x
  PROVE  AnalyticsIssue(w, u, i) /\ ToolIssue(w, u, i)
<1>1. SeesAll(u) \/ ProductReach(w, u, x)
  BY OwnersAreElevated DEF ProductDrills
<1>2. ProductReach(w, u, x) => InReach(w, u, i)
  BY DEF ProductReach, InReach, ProjectOf
<1> QED BY <1>1, <1>2 DEF AnalyticsIssue, ToolIssue

\* Whoever may drill down sees the product in the overview and asks for it.
LEMMA DrillsSee ==
  ASSUME NEW u \in Users, NEW w, NEW x \in DOMAIN w.products, ProductDrills(w, u, x)
  PROVE  x \in ScopedProducts(w, u, Unset) /\ x \in ToolProducts(w, u, Unset) /\ ToolProduct(w, u, x)
<1>1. SeesAll(u) \/ ProductReach(w, u, x)
  BY OwnersAreElevated DEF ProductDrills
<1>2. AnalyticsProduct(w, u, x) /\ ToolProduct(w, u, x)
  BY <1>1 DEF AnalyticsProduct, ToolProduct, ToolProject, ProductReach
<1> QED BY <1>2 DEF ScopedProducts, ToolProducts, Asked

\* What is shown of a list that may be cut: rows of it, and all of them when they fit.
Listing(answer, rows, limit) ==
  /\ answer.of = Cardinality(DOMAIN rows)
  /\ answer.of <= limit => DOMAIN answer.rows = DOMAIN rows
  /\ \A k \in DOMAIN answer.rows : answer.rows[k] = rows[k]

LEMMA CutAnswers ==
  ASSUME NEW rows, NEW first, NEW limit, NEW answer, Cardinality(DOMAIN rows) <= limit => first = DOMAIN rows,
         answer = [rows |-> Restrict(rows, first), of |-> Cardinality(DOMAIN rows)]
  PROVE  Listing(answer, rows, limit)
BY DEF Listing, Restrict

\* A row of an answer is a row of the list, and a row is missing only from a cut one.
LEMMA RowIsShown ==
  ASSUME NEW answer, NEW rows, Listing(answer, rows, MaxRows), NEW x \in DOMAIN rows
  PROVE  /\ x \in DOMAIN answer.rows => answer.rows[x] = rows[x]
         /\ answer.of <= MaxRows => x \in DOMAIN answer.rows
BY DEF Listing

\* The assistant's overview, and the jobs of a drill-down.
LEMMA HealthIsCut ==
  ASSUME NEW w, NEW u, NEW period
  PROVE  Listing(ToolHealth(w, u, period, Unset), HealthRows(w, u, period, Unset), MaxRows)
<1> DEFINE rows == HealthRows(w, u, period, Unset)
<1> HIDE DEF rows
<1>1. ToolHealth(w, u, period, Unset)
      = Cut(rows, LAMBDA x, y : Ahead(rows[x], rows[y], <<"score", "rate", "open">>), MaxRows)
  BY DEF ToolHealth, rows
<1> QED BY <1>1, CutAnswers DEF Cut, Leading, rows

\* A product has one set of figures.
OneSet(u, w, period, x) ==
  LET page == HealthPage(w, u, period, Unset, DefaultRules)
      tool == ToolHealth(w, u, period, Unset)
      drill == DrillPage(w, u, x, period, DefaultRules)
      stats == ToolStats(w, u, period, [Everything EXCEPT !.product = x])
      mine == ProductPage(w, u, x, period)
  IN /\ page.rows[x] = drill.summary
     /\ x \in DOMAIN tool.rows => tool.rows[x] = drill.summary
     /\ tool.of <= MaxRows => x \in DOMAIN tool.rows
     /\ ToolDrill(w, u, x, period).summary = drill.summary
     /\ \A f \in DOMAIN mine : stats[f] = mine[f]

\* Whoever may drill down is shown one set of figures.
LEMMA OneSetOfFigures ==
  ASSUME NEW u \in Users, NEW w \in Worlds, NEW period, NEW x \in DOMAIN w.products, ProductDrills(w, u, x)
  PROVE  OneSet(u, w, period, x)
<1> DEFINE rules == AnomalyRules(DefaultRules)
           open == {i \in OpenOf(w, {x}) : AnalyticsIssue(w, u, i)}
           down(S) == DrillDown(x, w.jobs, w.execs, w.issues, S, period, w.now, rules)
           drill == DrillPage(w, u, x, period, DefaultRules)
           tool == ToolHealth(w, u, period, Unset)
           page == HealthPage(w, u, period, Unset, DefaultRules)
<1>1. x # Unset
  BY WorldsAssumption
<1>2. x \in ScopedProducts(w, u, Unset) /\ x \in ToolProducts(w, u, Unset) /\ ToolProduct(w, u, x)
  BY DrillsSee
<1>3. drill.summary = down(open).summary
  <2> DEFINE d == Drilled(w, x, open, period, DefaultRules)
  <2>2. "summary" \in DOMAIN d /\ d.summary = down(open).summary
    BY DEF Drilled
  <2> HIDE DEF d
  <2>3. drill = Joined(d, [issues |->
                           Top(LatestFirst(ScopedIssues(w, u, period, [Everything EXCEPT !.product = x])), MaxIssues)])
    BY DEF DrillPage, d
  <2>4. drill.summary = d.summary
    BY <2>2, <2>3, JoinKeeps
  <2> QED BY <2>2, <2>4
<1>4. page.rows[x] = down(open).summary
  <2> DEFINE products == ScopedProducts(w, u, Unset)
             shown == {i \in OpenOf(w, products) : AnalyticsIssue(w, u, i)}
  <2>1. page.rows[x] = Row(w, x, shown, period, DefaultRules)
    BY <1>2 DEF HealthPage
  <2>2. IssuesOf(shown, x) = open
    <3> DEFINE P == products
    <3>1. x \in P
      BY <1>2
    <3> HIDE DEF P
    <3>2. \A i \in w.issues : i.product \in P /\ i.product = x <=> i.product \in {x}
      BY <3>1
    <3> QED BY <3>2 DEF P, OpenOf, IssuesOf
  <2>3. OverviewRow(x, w.jobs, w.execs, w.issues, shown, period, w.now, rules)
        = DrillDown(x, w.jobs, w.execs, w.issues, open, period, w.now, rules).summary
    <3> HIDE DEF shown, open, rules
    <3>1. OverviewRow(x, w.jobs, w.execs, w.issues, shown, period, w.now, rules)
          = DrillDown(x, w.jobs, w.execs, w.issues, IssuesOf(shown, x), period, w.now, rules).summary
      BY WorldRecords, RowIsSummary
    <3> QED BY <2>2, <3>1
  <2> QED BY <2>1, <2>3 DEF Row
<1>5. ToolOpen(w, u, {x}) = open
  <2>1. \A i \in OpenOf(w, {x}) : AnalyticsIssue(w, u, i) /\ ToolIssue(w, u, i)
    BY <1>1, SameIssues DEF OpenOf
  <2> QED BY <2>1 DEF ToolOpen
<1>6. /\ x \in DOMAIN tool.rows => tool.rows[x] = down(open).summary
      /\ tool.of <= MaxRows => x \in DOMAIN tool.rows
  <2> DEFINE products == ToolProducts(w, u, Unset)
             shown == ToolOpen(w, u, products)
             rows == HealthRows(w, u, period, Unset)
  <2>1. x \in DOMAIN rows /\ rows[x] = Row(w, x, shown, period, DefaultRules)
    BY <1>2 DEF HealthRows
  <2>2. IssuesOf(shown, x) = open
    BY <1>2, <1>5, OpenOfProduct DEF IssuesOf
  <2>3. OverviewRow(x, w.jobs, w.execs, w.issues, shown, period, w.now, rules)
        = DrillDown(x, w.jobs, w.execs, w.issues, open, period, w.now, rules).summary
    <3> HIDE DEF shown, open, rules
    <3>1. OverviewRow(x, w.jobs, w.execs, w.issues, shown, period, w.now, rules)
          = DrillDown(x, w.jobs, w.execs, w.issues, IssuesOf(shown, x), period, w.now, rules).summary
      BY WorldRecords, RowIsSummary
    <3> QED BY <2>2, <3>1
  <2>4. rows[x] = down(open).summary
    BY <2>1, <2>3 DEF Row
  <2>5. Listing(tool, rows, MaxRows)
    BY HealthIsCut
  <2>6. /\ x \in DOMAIN tool.rows => tool.rows[x] = rows[x]
        /\ tool.of <= MaxRows => x \in DOMAIN tool.rows
    <3> HIDE DEF rows, tool
    <3> QED BY <2>1, <2>5, RowIsShown
  <2> HIDE DEF rows, tool, shown, open, products
  <2> QED BY <2>4, <2>6
<1>7. ToolDrill(w, u, x, period).summary = down(open).summary
  BY <1>2, <1>5 DEF ToolDrill, Drilled
<1>8. \A f \in DOMAIN ProductPage(w, u, x, period) :
        ToolStats(w, u, period, [Everything EXCEPT !.product = x])[f] = ProductPage(w, u, x, period)[f]
  <2> DEFINE filter == [Everything EXCEPT !.product = x]
             S == ScopedIssues(w, u, period, filter)
             T == ToolIssues(w, u, period, filter)
  <2>1. filter.product = x
    BY DEF Everything
  <2>2. S = T
    <3>1. ASSUME NEW i, i.product = x PROVE AnalyticsIssue(w, u, i) /\ ToolIssue(w, u, i)
      BY <1>1, <3>1, SameIssues
    <3>2. \A i : Asked(i.product, filter.product) => i.product = x
      BY <1>1, <2>1 DEF Asked
    <3> HIDE DEF filter
    <3> QED BY <3>1, <3>2 DEF ScopedIssues, ToolIssues, Filtered
  <2>3. ProductPage(w, u, x, period) = IssueStats(S)
    BY DEF ProductPage
  <2>4. ToolStats(w, u, period, filter) = Joined(IssueStats(T), [false_alarms |-> FalseAlarms(T)])
    BY DEF ToolStats
  <2> DEFINE stats == IssueStats(S)
  <2> HIDE DEF S, T, stats
  <2>5. ToolStats(w, u, period, filter) = Joined(stats, [false_alarms |-> FalseAlarms(T)])
    BY <2>2, <2>4 DEF stats
  <2> HIDE DEF filter
  <2>6. \A f \in DOMAIN stats : ToolStats(w, u, period, filter)[f] = stats[f]
    BY <2>5, JoinKeeps
  <2> QED BY <2>3, <2>6 DEF stats, filter
<1> HIDE DEF down, drill, page, tool
<1> QED BY <1>3, <1>4, <1>6, <1>7, <1>8, Zenon DEF OneSet, drill, page, tool

\* Every product has one set of figures.
LEMMA FiguresAre ==
  ASSUME Asking
  PROVE  FiguresAgree
<1> SUFFICES ASSUME ask.about = "figures" PROVE FiguresAgree
  BY DEF FiguresAgree
<1>1. ask.user \in Users /\ ask.world \in Worlds
  BY DEF Asking
<1>2. \A x \in {y \in DOMAIN ask.world.products : ProductDrills(ask.world, ask.user, y)} :
        OneSet(ask.user, ask.world, ask.period, x)
  BY <1>1, OneSetOfFigures
<1> QED BY <1>2, Zenon DEF FiguresAgree, OneSet

-----------------------------------------------------------------------------
(* Parts of a page.                                                           *)

\* What one part of a page counts, summed up over its rows.
Summed(rows, field) == SumFunction([k \in DOMAIN rows |-> rows[k][field]])

\* An answer that is not cut adds up to what its list does.
LEMMA WholeAnswer ==
  ASSUME NEW answer, NEW rows, NEW limit, Listing(answer, rows, limit), answer.of <= limit, NEW field
  PROVE  Summed(answer.rows, field) = Summed(rows, field)
<1>1. DOMAIN answer.rows = DOMAIN rows /\ \A k \in DOMAIN rows : answer.rows[k] = rows[k]
  BY DEF Listing
<1>2. [k \in DOMAIN answer.rows |-> answer.rows[k][field]] = [k \in DOMAIN rows |-> rows[k][field]]
  BY <1>1
<1> QED BY <1>2 DEF Summed

\* The jobs of a drill-down and the groups of a break-down are such answers.
LEMMA JobsAreCut ==
  ASSUME NEW w, NEW x, NEW open, NEW period, NEW rules
  PROVE  LET part == Drilled(w, x, open, period, rules)
             whole == DrillDown(x, w.jobs, w.execs, w.issues, open, period, w.now, AnomalyRules(rules))
         IN Listing([rows |-> part.jobs, of |-> part.of], whole.jobs, MaxJobs)
<1> DEFINE whole == DrillDown(x, w.jobs, w.execs, w.issues, open, period, w.now, AnomalyRules(rules))
           jobs == WorstJobs(whole.jobs)
           part == Drilled(w, x, open, period, rules)
<1>1. part.jobs = jobs.rows /\ part.of = jobs.of
  BY DEF Drilled
<1>2. \E first : /\ Cardinality(DOMAIN whole.jobs) <= MaxJobs => first = DOMAIN whole.jobs
                 /\ jobs = [rows |-> Restrict(whole.jobs, first), of |-> Cardinality(DOMAIN whole.jobs)]
  <2> HIDE DEF whole
  <2> QED BY DEF WorstJobs, Cut, Leading
<1> HIDE DEF whole, jobs, part
<1>3. [rows |-> part.jobs, of |-> part.of] = jobs
  BY <1>1, <1>2
<1>4. Listing(jobs, whole.jobs, MaxJobs)
  BY <1>2, CutAnswers
<1> QED BY <1>3, <1>4 DEF part, whole

LEMMA GroupsAreCut ==
  ASSUME NEW w, NEW u, NEW by, NEW period, NEW filter
  PROVE  Listing(ToolBreakdown(w, u, by, period, filter),
                Breakdown(Filtered(w, {i \in w.issues : ToolIssue(w, u, i)}, filter), by, period, w.now), MaxRows)
<1> DEFINE rows == Breakdown(Filtered(w, {i \in w.issues : ToolIssue(w, u, i)}, filter), by, period, w.now)
<1> HIDE DEF rows
<1>1. ToolBreakdown(w, u, by, period, filter)
      = Cut(rows, LAMBDA g, h : IF by = "day" THEN g < h ELSE Ahead(rows[g], rows[h], <<"count">>), MaxRows)
  BY DEF ToolBreakdown, rows
<1> QED BY <1>1, CutAnswers DEF Cut, Leading, rows

\* Two parts of a finite set add up to it.
LEMMA TwoParts ==
  ASSUME NEW A, NEW B, IsFiniteSet(A \cup B), A \cap B = {}
  PROVE  /\ Cardinality(A) \in Nat /\ Cardinality(B) \in Nat
         /\ Cardinality(A \cup B) = Cardinality(A) + Cardinality(B)
<1>1. IsFiniteSet(A) /\ IsFiniteSet(B)
  BY FS_Subset
<1>2. Cardinality(A) \in Nat /\ Cardinality(B) \in Nat
  BY <1>1, FS_CardinalityType
<1>3. Cardinality(A \cup B) = Cardinality(A) + Cardinality(B) - Cardinality(A \cap B)
  BY <1>1, FS_Union
<1>4. Cardinality(A \cap B) = 0
  BY FS_EmptySet
<1> DEFINE a == Cardinality(A)  b == Cardinality(B)  c == Cardinality(A \cup B)
<1>5. a \in Nat /\ b \in Nat /\ c = a + b - 0
  BY <1>2, <1>3, <1>4
<1> HIDE DEF a, b, c
<1>6. a \in Nat /\ b \in Nat /\ c = a + b
  BY <1>5
<1> QED BY <1>6 DEF a, b, c

\* The days of a period have every time in it.
LEMMA DaysOfPeriod ==
  ASSUME NEW period, {period.from, period.to} \subseteq Int, NEW time \in Int, Within(time, period)
  PROVE  DayOfHour(time) \in DayOfHour(period.from)..DayOfHour(period.to - 1)
<1>1. period.from \in Int /\ period.to - 1 \in Int /\ period.from <= time /\ time <= period.to - 1
  BY DEF Within
<1>2. HoursADay \in Nat /\ HoursADay > 0
  BY HealthAssumption
<1>3. period.from \div HoursADay <= time \div HoursADay /\ time \div HoursADay <= (period.to - 1) \div HoursADay
  BY <1>1, <1>2, QuotientGrows
<1>4. \A n \in Int : n \div HoursADay \in Int
  BY <1>2
<1> QED BY <1>1, <1>3, <1>4 DEF DayOfHour

\* The days of a drill-down, and its jobs, add up to its head.
LEMMA DrillAddsUp ==
  ASSUME NEW w \in Worlds, NEW period \in Periods, NEW x, NEW open, NEW rules
  PROVE  LET drill == DrillDown(x, w.jobs, w.execs, w.issues, open, period, w.now, rules)
         IN /\ Summed(drill.trend, "runs") = drill.summary.runs
            /\ Summed(drill.trend, "fails") = drill.summary.fails
            /\ Summed(drill.jobs, "runs") = drill.summary.runs
<1> DEFINE mine == {j \in DOMAIN w.jobs : w.jobs[j] = x}
           dismissed == Dismissed({i \in w.issues : i.job \in mine})
           counted == {e \in w.execs : e.job \in mine /\ Within(e.at, period)}
           failing == {e \in counted : Failed(e, dismissed)}
           rows == [j \in mine |-> JobRow(j, counted, dismissed, open)]
           days == DayOfHour(period.from)..DayOfHour(period.to - 1)
           runs == SumFunction([j \in mine |-> rows[j].runs])
           fails == SumFunction([j \in mine |-> rows[j].fails])
           drill == DrillDown(x, w.jobs, w.execs, w.issues, open, period, w.now, rules)
<1>1. IsFiniteSet(mine) /\ IsFiniteSet(counted) /\ IsFiniteSet(failing)
  BY FiguresAssumption, FS_Subset
<1>2. IsFiniteSet(days)
  <2>1. HoursADay \in Nat /\ HoursADay > 0 /\ period.from \in Int /\ period.to - 1 \in Int
    BY HealthAssumption, FiguresAssumption
  <2>2. DayOfHour(period.from) \in Int /\ DayOfHour(period.to - 1) \in Int
    BY <2>1 DEF DayOfHour
  <2> QED BY <2>2, FS_Interval
<1>3. \A e \in counted : DayOfHour(e.at) \in days /\ e.job \in mine
  <2>1. {period.from, period.to} \subseteq Int /\ \A e \in counted : e.at \in Int /\ Within(e.at, period)
    BY FiguresAssumption
  <2>2. \A e \in counted : DayOfHour(e.at) \in days
    BY <2>1, DaysOfPeriod
  <2> QED BY <2>2
<1>4. ASSUME NEW E \in SUBSET counted
      PROVE  /\ SumFunction([d \in days |-> Cardinality({e \in E : DayOfHour(e.at) = d})]) = Cardinality(E)
             /\ SumFunction([j \in mine |-> Cardinality({e \in E : e.job = j})]) = Cardinality(E)
  <2> DEFINE day == [e \in E |-> DayOfHour(e.at)]  job == [e \in E |-> e.job]
             D == days  M == mine  C == counted
  <2>1. IsFiniteSet(E) /\ IsFiniteSet(D) /\ IsFiniteSet(M)
    BY <1>1, <1>2, FS_Subset
  <2>2. \A e \in E : day[e] \in D /\ job[e] \in M
    BY <1>3
  <2> HIDE DEF D, M
  <2>3. SumFunction([d \in D |-> Cardinality({e \in E : day[e] = d})]) = Cardinality(E)
    <3> HIDE DEF day, job
    <3> QED BY <2>1, <2>2, SumOfParts
  <2>4. SumFunction([j \in M |-> Cardinality({e \in E : job[e] = j})]) = Cardinality(E)
    <3> HIDE DEF day, job
    <3> QED BY <2>1, <2>2, SumOfParts
  <2>5. \A d : {e \in E : day[e] = d} = {e \in E : DayOfHour(e.at) = d} /\ {e \in E : job[e] = d} = {e \in E : e.job = d}
    OBVIOUS
  <2> HIDE DEF day, job
  <2> QED BY <2>3, <2>4, <2>5 DEF D, M
<1>5. runs = Cardinality(counted) /\ fails = Cardinality(failing)
  <2>1. \A j \in mine : /\ rows[j].runs = Cardinality({e \in counted : e.job = j})
                        /\ rows[j].fails = Cardinality({e \in failing : e.job = j})
    <3>1. \A j : {e \in {c \in counted : c.job = j} : Failed(e, dismissed)} = {e \in failing : e.job = j}
      OBVIOUS
    <3> HIDE DEF counted, dismissed, failing, mine
    <3> QED BY <3>1 DEF JobRow
  <2>2. failing \in SUBSET counted
    OBVIOUS
  <2> HIDE DEF rows, mine, counted, failing
  <2>3. [j \in mine |-> rows[j].runs] = [j \in mine |-> Cardinality({e \in counted : e.job = j})]
    BY <2>1
  <2>4. [j \in mine |-> rows[j].fails] = [j \in mine |-> Cardinality({e \in failing : e.job = j})]
    BY <2>1
  <2> QED BY <1>4, <2>2, <2>3, <2>4
<1>6. drill.trend = [d \in days |-> DayRow(counted, dismissed, d)] /\ drill.jobs = rows
  BY DEF DrillDown, Trend
<1>7. drill.summary.runs = runs /\ drill.summary.fails = fails
  <2> DEFINE head == [runs |-> runs, fails |-> fails, rate |-> Percent(fails, runs),
                      streak |-> Max({0} \cup {rows[j].streak : j \in mine}),
                      failed |-> Latest({e.at : e \in failing}), open |-> Cardinality(open)]
  <2>1. \E more : drill.summary = Joined(head, more)
    <3>1. drill.summary = Classified(head, period, w.now, rules)
      BY DEF DrillDown
    <3> HIDE DEF head, drill
    <3> QED BY <3>1 DEF Classified
  <2>2. "runs" \in DOMAIN head /\ "fails" \in DOMAIN head /\ head.runs = runs /\ head.fails = fails
    OBVIOUS
  <2> HIDE DEF head, drill, runs, fails
  <2> QED BY <2>1, <2>2, JoinKeeps
<1>8. Summed(drill.jobs, "runs") = runs
  <2>1. DOMAIN rows = mine
    OBVIOUS
  <2> HIDE DEF rows, mine
  <2>2. Summed(rows, "runs") = SumFunction([j \in mine |-> rows[j].runs])
    BY <2>1 DEF Summed
  <2> HIDE DEF drill
  <2> QED BY <1>6, <2>2
<1>9. Summed(drill.trend, "runs") = Cardinality(counted) /\ Summed(drill.trend, "fails") = Cardinality(failing)
  <2> DEFINE trend == [d \in days |-> DayRow(counted, dismissed, d)]
  <2>1. \A d \in days : /\ trend[d].runs = Cardinality({e \in counted : DayOfHour(e.at) = d})
                        /\ trend[d].fails = Cardinality({e \in failing : DayOfHour(e.at) = d})
    <3>1. \A d : {e \in {c \in counted : DayOfHour(c.at) = d} : Failed(e, dismissed)}
                 = {e \in failing : DayOfHour(e.at) = d}
      OBVIOUS
    <3> HIDE DEF counted, dismissed, failing, days
    <3> QED BY <3>1 DEF DayRow
  <2>2. failing \in SUBSET counted /\ DOMAIN trend = days
    OBVIOUS
  <2> HIDE DEF trend, counted, failing, days
  <2>3. [d \in days |-> trend[d].runs] = [d \in days |-> Cardinality({e \in counted : DayOfHour(e.at) = d})]
    BY <2>1
  <2>4. [d \in days |-> trend[d].fails] = [d \in days |-> Cardinality({e \in failing : DayOfHour(e.at) = d})]
    BY <2>1
  <2>5. Summed(trend, "runs") = Cardinality(counted) /\ Summed(trend, "fails") = Cardinality(failing)
    BY <1>4, <2>2, <2>3, <2>4 DEF Summed
  <2>6. drill.trend = trend
    BY <1>6 DEF trend, counted, days
  <2> HIDE DEF drill
  <2> QED BY <2>5, <2>6
<1> HIDE DEF drill, runs, fails, counted, failing
<1> QED BY <1>5, <1>7, <1>8, <1>9 DEF drill

\* The groups of a break-down add up to the issues of the period, and to the
\* open ones of them.
LEMMA GroupsAddUp ==
  ASSUME NEW w \in Worlds, NEW period \in Periods, NEW issues \in SUBSET w.issues, NEW by
  PROVE  LET groups == Breakdown(issues, by, period, w.now)
             counted == {i \in issues : Within(i.created, period)}
         IN /\ Summed(groups, "count") = Cardinality(counted)
            /\ Summed(groups, "open") = Cardinality({i \in counted : Open(i)})
<1> DEFINE counted == {i \in issues : Within(i.created, period)}
           opened == {i \in counted : Open(i)}
           found == {GroupOf(i, by) : i \in counted}
           days == IF by = "day" THEN DayOfHour(period.from)..DayOfHour(Min({period.to, w.now})) ELSE {}
           K == found \cup days
           group == [i \in counted |-> GroupOf(i, by)]
           rows == Breakdown(issues, by, period, w.now)
<1>1. IsFiniteSet(counted) /\ IsFiniteSet(opened)
  BY WorldsAssumption, FS_Subset DEF Rows
<1>2. IsFiniteSet(K)
  <2>1. IsFiniteSet(found)
    <3>1. group \in Surjection(counted, found)
      <4> HIDE DEF counted
      <4>1. group \in [counted -> found] /\ \A g \in found : \E i \in counted : group[i] = g
        OBVIOUS
      <4> HIDE DEF group, found
      <4> QED BY <4>1 DEF Surjection
    <3> HIDE DEF group, counted, found
    <3> QED BY <1>1, <3>1, FS_Surjection
  <2>2. IsFiniteSet(days)
    <3>1. {period.from, period.to, w.now} \subseteq Int
      BY FiguresAssumption
    <3>2. Min({period.to, w.now}) \in Int
      <4>1. \E m \in {period.to, w.now} : \A n \in {period.to, w.now} : m <= n
        BY <3>1
      <4>2. Min({period.to, w.now}) \in {period.to, w.now}
        BY <4>1 DEF Min
      <4> QED BY <3>1, <4>2
    <3>3. HoursADay \in Nat /\ HoursADay > 0
      BY HealthAssumption
    <3>4. \A n \in Int : DayOfHour(n) \in Int
      BY <3>3 DEF DayOfHour
    <3> DEFINE a == DayOfHour(period.from)  b == DayOfHour(Min({period.to, w.now}))
    <3>5. a \in Int /\ b \in Int
      BY <3>1, <3>2, <3>4
    <3> HIDE DEF a, b
    <3>6. IsFiniteSet(a..b)
      BY <3>5, FS_Interval
    <3> QED BY <3>6, FS_EmptySet DEF a, b
  <2> HIDE DEF found, days
  <2> QED BY <2>1, <2>2, FS_Union
<1>3. \A i \in counted : group[i] \in K
  OBVIOUS
<1>4. ASSUME NEW E \in SUBSET counted
      PROVE  SumFunction([g \in K |-> Cardinality({i \in E : group[i] = g})]) = Cardinality(E)
  <2>1. IsFiniteSet(E) /\ \A i \in E : group[i] \in K
    BY <1>1, <1>3, FS_Subset
  <2> HIDE DEF K, group, counted
  <2> QED BY <1>2, <2>1, SumOfParts
<1>5. rows = [g \in K |-> [count |-> Cardinality({i \in counted : GroupOf(i, by) = g}),
                           open |-> Cardinality({i \in counted : GroupOf(i, by) = g /\ Open(i)})]]
  BY DEF Breakdown
<1>6. \A g : /\ {i \in counted : GroupOf(i, by) = g} = {i \in counted : group[i] = g}
             /\ {i \in counted : GroupOf(i, by) = g /\ Open(i)} = {i \in opened : group[i] = g}
  OBVIOUS
<1>7. opened \in SUBSET counted
  OBVIOUS
<1> HIDE DEF rows, K, group, counted, opened
<1>8. /\ DOMAIN rows = K
      /\ \A g \in K : /\ rows[g].count = Cardinality({i \in counted : group[i] = g})
                      /\ rows[g].open = Cardinality({i \in opened : group[i] = g})
  BY <1>5, <1>6
<1>9. /\ [g \in K |-> rows[g].count] = [g \in K |-> Cardinality({i \in counted : group[i] = g})]
      /\ [g \in K |-> rows[g].open] = [g \in K |-> Cardinality({i \in opened : group[i] = g})]
  BY <1>8
<1>10. Summed(rows, "count") = Cardinality(counted) /\ Summed(rows, "open") = Cardinality(opened)
  BY <1>4, <1>7, <1>8, <1>9 DEF Summed
<1> QED BY <1>10 DEF rows, counted, opened

\* The issues of a world are open, in progress or closed.
LEMMA StatesAddUp ==
  ASSUME NEW w \in Worlds, NEW issues \in SUBSET w.issues
  PROVE  LET stats == IssueStats(issues)
         IN /\ stats.total = Cardinality(issues)
            /\ Cardinality({i \in issues : Open(i)}) = stats.open + stats.working
            /\ stats.open + stats.working + stats.closed = stats.total
<1> DEFINE A == {i \in issues : i.status = "open"}
           B == {i \in issues : i.status = "in_progress"}
           C == {i \in issues : Closed(i)}
           O == {i \in issues : Open(i)}
<1>1. A \cap B = {} /\ A \cup B = O
  BY DEF Open
<1>2. O \cap C = {} /\ O \cup C = issues
  BY FiguresAssumption DEF Open, Closed
<1>3. IsFiniteSet(issues) /\ IsFiniteSet(O)
  BY WorldsAssumption, FS_Subset DEF Rows
<1>4. LET stats == IssueStats(issues)
      IN /\ stats.total = Cardinality(issues) /\ stats.open = Cardinality(A)
         /\ stats.working = Cardinality(B) /\ stats.closed = Cardinality(C)
  BY DEF IssueStats
<1> HIDE DEF A, B, C, O
<1>5. Cardinality(O) = Cardinality(A) + Cardinality(B)
  BY <1>1, <1>3, TwoParts
<1>6. Cardinality(issues) = Cardinality(O) + Cardinality(C)
  BY <1>2, <1>3, TwoParts
<1> QED BY <1>4, <1>5, <1>6 DEF O

\* The issues a user of the assistant asks for in a period.
LEMMA IssuesOfPeriod ==
  ASSUME NEW w, NEW u, NEW period
  PROVE  LET asked == Filtered(w, {i \in w.issues : ToolIssue(w, u, i)}, Everything)
         IN /\ asked \in SUBSET w.issues
            /\ {i \in asked : Within(i.created, period)} = ToolIssues(w, u, period, Everything)
BY DEF Filtered, ToolIssues

\* The parts of every page add up to its whole.
LEMMA PartsDo ==
  ASSUME Asking
  PROVE  PartsAddUp
<1> SUFFICES ASSUME ask.about = "figures" PROVE PartsAddUp
  BY DEF PartsAddUp
<1> DEFINE u == ask.user
           w == ask.world
           period == ask.period
           stats == ToolStats(w, u, period, Everything)
           grouped(by) == ToolBreakdown(w, u, by, period, Everything)
           asked == Filtered(w, {i \in w.issues : ToolIssue(w, u, i)}, Everything)
           issues == ToolIssues(w, u, period, Everything)
<1>1. w \in Worlds /\ period \in Periods
  BY DEF Asking
<1>2. ASSUME NEW x \in DOMAIN w.products, ProductDrills(w, u, x)
      PROVE  LET drill == DrillPage(w, u, x, period, DefaultRules)
             IN /\ Summed(drill.trend, "runs") = drill.summary.runs
                /\ Summed(drill.trend, "fails") = drill.summary.fails
                /\ drill.of <= MaxJobs => Summed(drill.jobs, "runs") = drill.summary.runs
  <2> DEFINE open == {i \in OpenOf(w, {x}) : AnalyticsIssue(w, u, i)}
             rules == AnomalyRules(DefaultRules)
             down == DrillDown(x, w.jobs, w.execs, w.issues, open, period, w.now, rules)
             part == Drilled(w, x, open, period, DefaultRules)
             drill == DrillPage(w, u, x, period, DefaultRules)
  <2>1. /\ {"trend", "summary", "jobs", "of"} \subseteq DOMAIN part
        /\ part.trend = down.trend /\ part.summary = down.summary
    <3> HIDE DEF open, w, period
    <3> QED BY DEF Drilled
  <2>2. \E more : drill = Joined(part, more)
    BY <1>2 DEF DrillPage
  <2>3. Listing([rows |-> part.jobs, of |-> part.of], down.jobs, MaxJobs)
    <3> HIDE DEF open, w, period
    <3> QED BY JobsAreCut
  <2> HIDE DEF drill, down, part
  <2>4. drill.trend = down.trend /\ drill.summary = down.summary /\ drill.jobs = part.jobs /\ drill.of = part.of
    BY <2>1, <2>2, JoinKeeps
  <2>5. /\ Summed(down.trend, "runs") = down.summary.runs
        /\ Summed(down.trend, "fails") = down.summary.fails
        /\ Summed(down.jobs, "runs") = down.summary.runs
    <3> HIDE DEF open, rules, w, period
    <3> QED BY <1>1, DrillAddsUp DEF down
  <2>6. part.of <= MaxJobs => Summed(part.jobs, "runs") = Summed(down.jobs, "runs")
    <3> DEFINE answer == [rows |-> part.jobs, of |-> part.of]
    <3>1. answer.rows = part.jobs /\ answer.of = part.of
      OBVIOUS
    <3> HIDE DEF answer
    <3> QED BY <2>3, <3>1, WholeAnswer DEF answer
  <2>7. /\ Summed(drill.trend, "runs") = drill.summary.runs
        /\ Summed(drill.trend, "fails") = drill.summary.fails
        /\ drill.of <= MaxJobs => Summed(drill.jobs, "runs") = drill.summary.runs
    BY <2>4, <2>5, <2>6
  <2> QED BY <2>7 DEF drill
<1>3. asked \in SUBSET w.issues /\ {i \in asked : Within(i.created, period)} = issues
  BY IssuesOfPeriod
<1>4. ASSUME NEW by
      PROVE  grouped(by).of <= MaxRows =>
               /\ Summed(grouped(by).rows, "count") = Cardinality(issues)
               /\ Summed(grouped(by).rows, "open") = Cardinality({i \in issues : Open(i)})
  <2>1. Listing(grouped(by), Breakdown(asked, by, period, w.now), MaxRows)
    BY GroupsAreCut
  <2> HIDE DEF asked, issues, grouped, w, u, period
  <2>2. LET groups == Breakdown(asked, by, period, w.now)
            counted == {i \in asked : Within(i.created, period)}
        IN /\ Summed(groups, "count") = Cardinality(counted)
           /\ Summed(groups, "open") = Cardinality({i \in counted : Open(i)})
    BY <1>1, <1>3, GroupsAddUp
  <2> QED BY <1>3, <2>1, <2>2, WholeAnswer
<1>5. /\ stats.total = Cardinality(issues)
      /\ Cardinality({i \in issues : Open(i)}) = stats.open + stats.working
      /\ stats.open + stats.working + stats.closed = stats.total
  <2> DEFINE figures == IssueStats(issues)
  <2>1. {"total", "open", "working", "closed"} \subseteq DOMAIN figures
    <3> HIDE DEF issues
    <3> QED BY DEF IssueStats
  <2>2. \E more : stats = Joined(figures, more)
    BY DEF ToolStats
  <2> HIDE DEF stats, figures
  <2>3. /\ stats.total = figures.total /\ stats.open = figures.open
        /\ stats.working = figures.working /\ stats.closed = figures.closed
    BY <2>1, <2>2, JoinKeeps
  <2>4. issues \in SUBSET w.issues
    BY <1>3
  <2>5. /\ figures.total = Cardinality(issues)
        /\ Cardinality({i \in issues : Open(i)}) = figures.open + figures.working
        /\ figures.open + figures.working + figures.closed = figures.total
    <3> HIDE DEF issues, w
    <3> QED BY <1>1, <2>4, StatesAddUp DEF figures
  <2> QED BY <2>3, <2>5
<1> HIDE DEF stats, grouped, issues, asked
<1>6. /\ \A by : grouped(by).of <= MaxRows => Summed(grouped(by).rows, "count") = stats.total
      /\ grouped("day").of <= MaxRows => Summed(grouped("day").rows, "open") = stats.open + stats.working
  BY <1>4, <1>5
<1> QED BY <1>2, <1>5, <1>6, Zenon DEF PartsAddUp, Summed, stats, grouped

-----------------------------------------------------------------------------
(* Dismissed failures.                                                        *)

\* A run as it would be had it succeeded, if its alert was dismissed, and the
\* world of these runs.
Fine(w, e) == IF <<e.job, e.run>> \in Dismissed(w.issues) THEN [e EXCEPT !.status = "completed"] ELSE e
Kinder(w) == [w EXCEPT !.execs = {Fine(w, e) : e \in w.execs}]

\* Runs and what they would be.
Meant(w, S, T) == S \in SUBSET w.execs /\ T = {Fine(w, e) : e \in S}

\* They differ in how they ended.
LEMMA FineIsTheRun ==
  ASSUME NEW w \in Worlds, NEW e \in w.execs
  PROVE  Fine(w, e).job = e.job /\ Fine(w, e).run = e.run /\ Fine(w, e).at = e.at
<1>1. e = [job |-> e.job, run |-> e.run, status |-> e.status, at |-> e.at]
  BY FiguresAssumption
<1>2. "job" \in DOMAIN e /\ "run" \in DOMAIN e /\ "at" \in DOMAIN e
  BY <1>1
<1> QED BY <1>2 DEF Fine

\* For whoever knows the issues of its job, a run fails if it would have.
LEMMA FineFails ==
  ASSUME NEW w \in Worlds, NEW e \in w.execs, NEW A \in SUBSET w.issues,
         \A i \in w.issues : i.job = e.job => i \in A
  PROVE  Failed(e, Dismissed(A)) <=> Failed(Fine(w, e), Dismissed(A))
<1>1. CASE <<e.job, e.run>> \in Dismissed(w.issues)
  <2>1. <<e.job, e.run>> \in Dismissed(A)
    BY <1>1 DEF Dismissed
  <2>2. <<Fine(w, e).job, Fine(w, e).run>> = <<e.job, e.run>>
    BY FineIsTheRun
  <2> QED BY <2>1, <2>2 DEF Failed
<1>2. CASE <<e.job, e.run>> \notin Dismissed(w.issues)
  BY <1>2 DEF Fine
<1> QED BY <1>1, <1>2

\* What holds of a run if, and only if, of what it would be, picks runs that
\* correspond.
LEMMA MeantParts ==
  ASSUME NEW w, NEW S, NEW T, Meant(w, S, T), NEW P \in SUBSET S, NEW Q \in SUBSET T,
         \A e \in S : e \in P <=> Fine(w, e) \in Q
  PROVE  Meant(w, P, Q)
BY DEF Meant

\* Runs that correspond are as many, and of the same times.
LEMMA MeantCounts ==
  ASSUME NEW w \in Worlds, NEW S, NEW T, Meant(w, S, T)
  PROVE  Cardinality(T) = Cardinality(S) /\ {e.at : e \in T} = {e.at : e \in S}
<1> DEFINE g == [e \in S |-> Fine(w, e)]
<1>1. S \in SUBSET w.execs /\ T = {Fine(w, e) : e \in S}
  BY DEF Meant
<1>2. \A e \in S : Fine(w, e).job = e.job /\ Fine(w, e).run = e.run /\ Fine(w, e).at = e.at
  BY <1>1, FineIsTheRun
<1>3. \A e, f \in S : g[e] = g[f] => e = f
  <2>1. \A e, f \in S : e.job = f.job /\ e.run = f.run => e = f
    BY <1>1, FiguresAssumption
  <2>2. \A e \in S : g[e] = Fine(w, e)
    OBVIOUS
  <2> HIDE DEF g
  <2> QED BY <1>2, <2>1, <2>2
<1>4. IsFiniteSet(S)
  BY <1>1, FiguresAssumption, FS_Subset
<1>5. (\A e \in S : g[e] \in T) /\ \A f \in T : \E e \in S : f = g[e]
  BY <1>1
<1> HIDE DEF g
<1>6. Cardinality(T) = Cardinality(S)
  BY <1>3, <1>4, <1>5, PairedOff
<1>7. {e.at : e \in T} = {e.at : e \in S}
  BY <1>1, <1>2
<1> QED BY <1>6, <1>7

\* Runs of one job that fail together have the same streak.
LEMMA MeantStreak ==
  ASSUME NEW w \in Worlds, NEW S, NEW T, Meant(w, S, T), NEW j, \A e \in S : e.job = j,
         NEW D, \A e \in S : Failed(e, D) <=> Failed(Fine(w, e), D)
  PROVE  Streak(NewestFirst(T), D) = Streak(NewestFirst(S), D)
<1> DEFINE g == [e \in S |-> Fine(w, e)]
<1>1. S \in SUBSET w.execs /\ T = {Fine(w, e) : e \in S}
  BY DEF Meant
<1>2. \A e \in S : g[e].run = e.run /\ g[e].at = e.at
  BY <1>1, FineIsTheRun
<1>3. OneJobs(S)
  BY <1>1, WorldRecords, RunsOfJob
<1>4. (\A e \in S : g[e] \in T) /\ (\A f \in T : \E e \in S : f = g[e])
      /\ \A e \in S : Failed(e, D) <=> Failed(g[e], D)
  BY <1>1
<1> HIDE DEF g
<1>5. IsFiniteSet(T)
  <2>1. IsFiniteSet(S) /\ \A e, f \in S : g[e] = g[f] => e = f
    BY <1>2, <1>3 DEF OneJobs
  <2> QED BY <1>4, <2>1, PairedOff
<1>6. OneJobs(T)
  <2>1. \A f \in T : f.run \in Int /\ f.at \in Int
    BY <1>2, <1>3, <1>4 DEF OneJobs
  <2>2. \A e, f \in T : e.run = f.run => e = f
    BY <1>2, <1>3, <1>4 DEF OneJobs
  <2> QED BY <1>5, <2>1, <2>2 DEF OneJobs
<1> QED BY <1>2, <1>3, <1>4, <1>6, SameStreak

\* The row of a job.
LEMMA FineJobRow ==
  ASSUME NEW w \in Worlds, NEW S, NEW T, Meant(w, S, T), NEW j, NEW open, NEW D,
         \A e \in S : e.job = j => (Failed(e, D) <=> Failed(Fine(w, e), D))
  PROVE  JobRow(j, T, D, open) = JobRow(j, S, D, open)
<1> DEFINE P == {e \in S : e.job = j}
           Q == {e \in T : e.job = j}
           FP == {e \in P : Failed(e, D)}
           FQ == {e \in Q : Failed(e, D)}
<1>1. S \in SUBSET w.execs /\ T = {Fine(w, e) : e \in S}
  BY DEF Meant
<1>2. \A e \in S : Fine(w, e).job = e.job
  BY <1>1, FineIsTheRun
<1>3. Meant(w, P, Q)
  <2>1. P \in SUBSET S /\ Q \in SUBSET T /\ \A e \in S : e \in P <=> Fine(w, e) \in Q
    BY <1>1, <1>2
  <2> HIDE DEF P, Q
  <2> QED BY <2>1, MeantParts
<1>4. Meant(w, FP, FQ)
  <2>1. FP \in SUBSET P /\ FQ \in SUBSET Q /\ \A e \in P : e \in FP <=> Fine(w, e) \in FQ
    BY <1>1, <1>2
  <2> HIDE DEF P, Q, FP, FQ
  <2> QED BY <1>3, <2>1, MeantParts
<1>5. (\A e \in P : e.job = j) /\ (\A e \in P : Failed(e, D) <=> Failed(Fine(w, e), D))
  OBVIOUS
<1>6. JobRow(j, T, D, open)
      = [runs |-> Cardinality(Q), fails |-> Cardinality(FQ), rate |-> Percent(Cardinality(FQ), Cardinality(Q)),
         streak |-> Streak(NewestFirst(Q), D), failed |-> Latest({e.at : e \in FQ}),
         open |-> Cardinality({i \in open : i.job = j})]
  BY DEF JobRow
<1>7. JobRow(j, S, D, open)
      = [runs |-> Cardinality(P), fails |-> Cardinality(FP), rate |-> Percent(Cardinality(FP), Cardinality(P)),
         streak |-> Streak(NewestFirst(P), D), failed |-> Latest({e.at : e \in FP}),
         open |-> Cardinality({i \in open : i.job = j})]
  BY DEF JobRow
<1> HIDE DEF P, Q, FP, FQ
<1>8. Cardinality(Q) = Cardinality(P) /\ Cardinality(FQ) = Cardinality(FP) /\ {e.at : e \in FQ} = {e.at : e \in FP}
  BY <1>3, <1>4, MeantCounts
<1>9. Streak(NewestFirst(Q), D) = Streak(NewestFirst(P), D)
  BY <1>3, <1>5, MeantStreak
<1> QED BY <1>6, <1>7, <1>8, <1>9

\* A day of the trend.
LEMMA FineDayRow ==
  ASSUME NEW w \in Worlds, NEW S, NEW T, Meant(w, S, T), NEW d, NEW D,
         \A e \in S : Failed(e, D) <=> Failed(Fine(w, e), D)
  PROVE  DayRow(T, D, d) = DayRow(S, D, d)
<1> DEFINE P == {e \in S : DayOfHour(e.at) = d}
           Q == {e \in T : DayOfHour(e.at) = d}
           FP == {e \in P : Failed(e, D)}
           FQ == {e \in Q : Failed(e, D)}
<1>1. S \in SUBSET w.execs /\ T = {Fine(w, e) : e \in S}
  BY DEF Meant
<1>2. \A e \in S : Fine(w, e).at = e.at
  BY <1>1, FineIsTheRun
<1>3. Meant(w, P, Q)
  <2>1. P \in SUBSET S /\ Q \in SUBSET T /\ \A e \in S : e \in P <=> Fine(w, e) \in Q
    BY <1>1, <1>2
  <2> HIDE DEF P, Q
  <2> QED BY <2>1, MeantParts
<1>4. Meant(w, FP, FQ)
  <2>1. FP \in SUBSET P /\ FQ \in SUBSET Q /\ \A e \in P : e \in FP <=> Fine(w, e) \in FQ
    BY <1>1, <1>2
  <2> HIDE DEF P, Q, FP, FQ
  <2> QED BY <1>3, <2>1, MeantParts
<1>5. DayRow(T, D, d) = [runs |-> Cardinality(Q), fails |-> Cardinality(FQ),
                         rate |-> Percent(Cardinality(FQ), Cardinality(Q))]
  BY DEF DayRow
<1>6. DayRow(S, D, d) = [runs |-> Cardinality(P), fails |-> Cardinality(FP),
                         rate |-> Percent(Cardinality(FP), Cardinality(P))]
  BY DEF DayRow
<1> HIDE DEF P, Q, FP, FQ
<1>7. Cardinality(Q) = Cardinality(P) /\ Cardinality(FQ) = Cardinality(FP)
  BY <1>3, <1>4, MeantCounts
<1> QED BY <1>5, <1>6, <1>7

\* The runs of the kinder world.
LEMMA KinderRuns ==
  ASSUME NEW w \in Worlds
  PROVE  /\ Meant(w, w.execs, Kinder(w).execs)
         /\ Kinder(w).projects = w.projects /\ Kinder(w).products = w.products /\ Kinder(w).jobs = w.jobs
         /\ Kinder(w).issues = w.issues /\ Kinder(w).now = w.now
<1>1. "execs" \in DOMAIN w
  BY FiguresAssumption
<1> QED BY <1>1 DEF Kinder, Meant

\* The drill-down of a product.
LEMMA FineDrillDown ==
  ASSUME NEW w \in Worlds, NEW x, NEW open, NEW period, NEW rules
  PROVE  DrillDown(x, w.jobs, Kinder(w).execs, w.issues, open, period, w.now, rules)
         = DrillDown(x, w.jobs, w.execs, w.issues, open, period, w.now, rules)
<1> DEFINE mine == {j \in DOMAIN w.jobs : w.jobs[j] = x}
           known == {i \in w.issues : i.job \in mine}
           D == Dismissed(known)
           S == {e \in w.execs : e.job \in mine /\ Within(e.at, period)}
           T == {e \in Kinder(w).execs : e.job \in mine /\ Within(e.at, period)}
           FS == {e \in S : Failed(e, D)}
           FT == {e \in T : Failed(e, D)}
           rowsS == [j \in mine |-> JobRow(j, S, D, open)]
           rowsT == [j \in mine |-> JobRow(j, T, D, open)]
           head(rows, times) ==
             LET runs == SumFunction([j \in mine |-> rows[j].runs])
                 fails == SumFunction([j \in mine |-> rows[j].fails])
             IN Classified(
                  [runs |-> runs, fails |-> fails, rate |-> Percent(fails, runs),
                   streak |-> Max({0} \cup {rows[j].streak : j \in mine}),
                   failed |-> Latest(times), open |-> Cardinality(open)],
                  period, w.now, rules)
<1>1. Meant(w, w.execs, Kinder(w).execs)
  BY KinderRuns
<1>2. \A e \in w.execs : Fine(w, e).job = e.job /\ Fine(w, e).at = e.at
  BY FineIsTheRun
<1>3. Meant(w, S, T)
  <2>1. S \in SUBSET w.execs /\ T \in SUBSET Kinder(w).execs /\ \A e \in w.execs : e \in S <=> Fine(w, e) \in T
    <3>1. \A e \in w.execs : Fine(w, e) \in Kinder(w).execs
      BY <1>1 DEF Meant
    <3> HIDE DEF mine
    <3> QED BY <1>2, <3>1
  <2> HIDE DEF S, T
  <2> QED BY <1>1, <2>1, MeantParts
<1>4. \A e \in S : Failed(e, D) <=> Failed(Fine(w, e), D)
  <2>1. \A e \in S : e \in w.execs /\ \A i \in w.issues : i.job = e.job => i \in known
    OBVIOUS
  <2>2. known \in SUBSET w.issues
    OBVIOUS
  <2> HIDE DEF S, known
  <2> QED BY <2>1, <2>2, FineFails
<1>5. Meant(w, FS, FT)
  <2>1. S \in SUBSET w.execs /\ T = {Fine(w, e) : e \in S}
    BY <1>3 DEF Meant
  <2> HIDE DEF S, T, D
  <2>2. FS \in SUBSET S /\ FT \in SUBSET T /\ \A e \in S : e \in FS <=> Fine(w, e) \in FT
    BY <1>4, <2>1
  <2> HIDE DEF FS, FT
  <2> QED BY <1>3, <2>2, MeantParts
<1>6. DrillDown(x, w.jobs, w.execs, w.issues, open, period, w.now, rules)
      = [jobs |-> rowsS, trend |-> Trend(S, D, period), summary |-> head(rowsS, {e.at : e \in FS})]
  BY DEF DrillDown
<1>7. DrillDown(x, w.jobs, Kinder(w).execs, w.issues, open, period, w.now, rules)
      = [jobs |-> rowsT, trend |-> Trend(T, D, period), summary |-> head(rowsT, {e.at : e \in FT})]
  BY DEF DrillDown
<1> HIDE DEF S, T, D, FS, FT, mine
<1>8. rowsT = rowsS
  <2>1. \A j \in mine : JobRow(j, T, D, open) = JobRow(j, S, D, open)
    BY <1>3, <1>4, FineJobRow
  <2> QED BY <2>1
<1>9. Trend(T, D, period) = Trend(S, D, period)
  <2>1. \A d : DayRow(T, D, d) = DayRow(S, D, d)
    BY <1>3, <1>4, FineDayRow
  <2> QED BY <2>1 DEF Trend
<1>10. {e.at : e \in FT} = {e.at : e \in FS}
  BY <1>5, MeantCounts
<1> HIDE DEF rowsS, rowsT, head
<1> QED BY <1>6, <1>7, <1>8, <1>9, <1>10

\* A row of the overview.
LEMMA FineRow ==
  ASSUME NEW w \in Worlds, NEW x, NEW open, NEW period, NEW rules
  PROVE  OverviewRow(x, w.jobs, Kinder(w).execs, w.issues, open, period, w.now, rules)
         = OverviewRow(x, w.jobs, w.execs, w.issues, open, period, w.now, rules)
<1> DEFINE runs == Kinder(w).execs
<1>1. RecordedOnce(runs)
  <2>1. runs = {Fine(w, e) : e \in w.execs} /\ IsFiniteSet(w.execs)
    BY KinderRuns, WorldRecords DEF Meant, RecordedOnce
  <2>2. \A e \in w.execs : Fine(w, e).job = e.job /\ Fine(w, e).run = e.run /\ Fine(w, e).at = e.at
    BY FineIsTheRun
  <2>3. \A e, f \in w.execs : e.job = f.job /\ e.run = f.run => e = f
    BY WorldRecords DEF RecordedOnce
  <2>4. \A e \in w.execs : e.run \in Int /\ e.at \in Int
    BY WorldRecords DEF RecordedOnce
  <2>5. IsFiniteSet(runs)
    <3> DEFINE g == [e \in w.execs |-> Fine(w, e)]
    <3>1. \A e \in w.execs : g[e] = Fine(w, e)
      OBVIOUS
    <3> HIDE DEF g, runs
    <3>2. \A e, f \in w.execs : g[e] = g[f] => e = f
      BY <2>2, <2>3, <3>1
    <3>3. (\A e \in w.execs : g[e] \in runs) /\ \A f \in runs : \E e \in w.execs : f = g[e]
      BY <2>1, <3>1
    <3> QED BY <2>1, <3>2, <3>3, PairedOff
  <2> HIDE DEF runs
  <2>6. \A f \in runs : f.run \in Int /\ f.at \in Int
    BY <2>1, <2>2, <2>4
  <2>7. \A e, f \in runs : e.job = f.job /\ e.run = f.run => e = f
    BY <2>1, <2>2, <2>3
  <2> QED BY <2>5, <2>6, <2>7 DEF RecordedOnce
<1>2. OverviewRow(x, w.jobs, w.execs, w.issues, open, period, w.now, rules)
      = DrillDown(x, w.jobs, w.execs, w.issues, IssuesOf(open, x), period, w.now, rules).summary
  BY WorldRecords, RowIsSummary
<1>3. OverviewRow(x, w.jobs, runs, w.issues, open, period, w.now, rules)
      = DrillDown(x, w.jobs, runs, w.issues, IssuesOf(open, x), period, w.now, rules).summary
  <2> HIDE DEF runs
  <2> QED BY <1>1, RowIsSummary
<1> QED BY <1>2, <1>3, FineDrillDown

\* What a user reads of two worlds that differ in their runs at most.
LEMMA KinderReach ==
  ASSUME NEW w \in Worlds, NEW u, NEW v, v = Kinder(w)
  PROVE  /\ \A p : ScopedProducts(v, u, p) = ScopedProducts(w, u, p) /\ ToolProducts(v, u, p) = ToolProducts(w, u, p)
         /\ \A P : /\ {i \in OpenOf(v, P) : AnalyticsIssue(v, u, i)} = {i \in OpenOf(w, P) : AnalyticsIssue(w, u, i)}
                   /\ ToolOpen(v, u, P) = ToolOpen(w, u, P)
         /\ \A x : (ProductDrills(v, u, x) <=> ProductDrills(w, u, x)) /\ (ToolProduct(v, u, x) <=> ToolProduct(w, u, x))
         /\ \A i : ToolIssue(v, u, i) <=> ToolIssue(w, u, i)
         /\ \A period, filter : /\ ScopedIssues(v, u, period, filter) = ScopedIssues(w, u, period, filter)
                                /\ ToolIssues(v, u, period, filter) = ToolIssues(w, u, period, filter)
         /\ \A x, shown, period, rules : Row(v, x, shown, period, rules) = Row(w, x, shown, period, rules)
<1>1. v.projects = w.projects /\ v.products = w.products /\ v.jobs = w.jobs /\ v.issues = w.issues /\ v.now = w.now
  BY KinderRuns
<1>2. \A p : ScopedProducts(v, u, p) = ScopedProducts(w, u, p) /\ ToolProducts(v, u, p) = ToolProducts(w, u, p)
  BY <1>1 DEF ScopedProducts, AnalyticsProduct, ProductReach, ToolProducts, ToolProduct
<1>3. \A i : /\ AnalyticsIssue(v, u, i) <=> AnalyticsIssue(w, u, i)
             /\ ToolIssue(v, u, i) <=> ToolIssue(w, u, i)
             /\ ProjectOf(v, i) = ProjectOf(w, i)
  BY <1>1 DEF AnalyticsIssue, ToolIssue, InReach, ProjectOf
<1>4. \A P : OpenOf(v, P) = OpenOf(w, P)
  BY <1>1 DEF OpenOf
<1>5. \A P : /\ {i \in OpenOf(v, P) : AnalyticsIssue(v, u, i)} = {i \in OpenOf(w, P) : AnalyticsIssue(w, u, i)}
             /\ ToolOpen(v, u, P) = ToolOpen(w, u, P)
  BY <1>3, <1>4 DEF ToolOpen
<1>6. \A x : (ProductDrills(v, u, x) <=> ProductDrills(w, u, x)) /\ (ToolProduct(v, u, x) <=> ToolProduct(w, u, x))
  BY <1>1 DEF ProductDrills, ProductReach, ToolProduct
<1>7. \A period, filter : /\ ScopedIssues(v, u, period, filter) = ScopedIssues(w, u, period, filter)
                          /\ ToolIssues(v, u, period, filter) = ToolIssues(w, u, period, filter)
  BY <1>1, <1>3 DEF ScopedIssues, ToolIssues, Filtered
<1>8. ASSUME NEW x, NEW shown, NEW period, NEW rules
      PROVE  Row(v, x, shown, period, rules) = Row(w, x, shown, period, rules)
  BY <1>1, FineRow DEF Row
<1> QED BY <1>2, <1>3, <1>5, <1>6, <1>7, <1>8

\* The overview, and what the assistant compares.
LEMMA KinderOverview ==
  ASSUME NEW w \in Worlds, NEW u, NEW period
  PROVE  /\ HealthPage(Kinder(w), u, period, Unset, DefaultRules) = HealthPage(w, u, period, Unset, DefaultRules)
         /\ ToolCompare(Kinder(w), u, period, Unset) = ToolCompare(w, u, period, Unset)
<1> DEFINE v == Kinder(w)
           P == ScopedProducts(w, u, Unset)
           shown == {i \in OpenOf(w, P) : AnalyticsIssue(w, u, i)}
           rows == [x \in P |-> Row(w, x, shown, period, DefaultRules)]
           rowsv == [x \in P |-> Row(v, x, shown, period, DefaultRules)]
           page(rs) ==
             [rows |-> rs,
              anomalies |-> Cardinality({x \in P : rs[x].reasons # {}}),
              rate |-> IF P = {} THEN 0 ELSE Rounded(SumFunction([x \in P |-> rs[x].rate]), Cardinality(P)),
              risky |-> SumFunction([x \in {y \in P : rs[y].severity \in {"risk", "anomaly"}} |-> rs[x].open])]
<1> HIDE DEF v
<1>1. v = Kinder(w)
  BY DEF v
<1>2. ScopedProducts(v, u, Unset) = P /\ {i \in OpenOf(v, P) : AnalyticsIssue(v, u, i)} = shown
  BY <1>1, KinderReach
<1>3. rowsv = rows
  <2>1. \A x : Row(v, x, shown, period, DefaultRules) = Row(w, x, shown, period, DefaultRules)
    BY <1>1, KinderReach
  <2> HIDE DEF P, shown
  <2> QED BY <2>1
<1>4. HealthPage(w, u, period, Unset, DefaultRules) = page(rows)
  BY DEF HealthPage
<1>5. HealthPage(v, u, period, Unset, DefaultRules) = page(rowsv)
  <2> HIDE DEF P, shown
  <2> QED BY <1>2 DEF HealthPage
<1>6. HealthRows(v, u, period, Unset) = HealthRows(w, u, period, Unset)
  BY <1>1, KinderReach DEF HealthRows
<1>7. ToolCompare(v, u, period, Unset) = ToolCompare(w, u, period, Unset)
  BY <1>1, <1>6, KinderReach DEF ToolCompare
<1> HIDE DEF page, rows, rowsv
<1> QED BY <1>3, <1>4, <1>5, <1>7 DEF v

\* The pages of a product.
LEMMA KinderProduct ==
  ASSUME NEW w \in Worlds, NEW u, NEW period, NEW x
  PROVE  /\ DrillPage(Kinder(w), u, x, period, DefaultRules) = DrillPage(w, u, x, period, DefaultRules)
         /\ ToolAssets(Kinder(w), u, x) = ToolAssets(w, u, x)
<1> DEFINE v == Kinder(w)
<1> HIDE DEF v
<1>1. v = Kinder(w)
  BY DEF v
<1>2. v.projects = w.projects /\ v.products = w.products /\ v.jobs = w.jobs /\ v.issues = w.issues /\ v.now = w.now
  BY <1>1, KinderRuns
<1>3. DrillPage(v, u, x, period, DefaultRules) = DrillPage(w, u, x, period, DefaultRules)
  <2> DEFINE open == {i \in OpenOf(w, {x}) : AnalyticsIssue(w, u, i)}
             listed == ScopedIssues(w, u, period, [Everything EXCEPT !.product = x])
  <2>1. /\ {i \in OpenOf(v, {x}) : AnalyticsIssue(v, u, i)} = open
        /\ ScopedIssues(v, u, period, [Everything EXCEPT !.product = x]) = listed
        /\ ProductDrills(v, u, x) <=> ProductDrills(w, u, x)
    BY <1>1, KinderReach
  <2>2. \A rules : DrillDown(x, v.jobs, v.execs, v.issues, open, period, v.now, rules)
                   = DrillDown(x, w.jobs, w.execs, w.issues, open, period, w.now, rules)
    BY <1>1, <1>2, FineDrillDown
  <2> HIDE DEF open, listed
  <2> DEFINE page == Drilled(w, x, open, period, DefaultRules)
  <2>5. Drilled(v, x, open, period, DefaultRules) = page
    BY <2>2 DEF Drilled
  <2> HIDE DEF page
  <2>3. DrillPage(v, u, x, period, DefaultRules)
        = IF ~ProductDrills(v, u, x) THEN Forbidden
          ELSE Joined(page, [issues |-> Top(LatestFirst(listed), MaxIssues)])
    BY <2>1, <2>5 DEF DrillPage
  <2>4. DrillPage(w, u, x, period, DefaultRules)
        = IF ~ProductDrills(w, u, x) THEN Forbidden
          ELSE Joined(page, [issues |-> Top(LatestFirst(listed), MaxIssues)])
    BY DEF DrillPage, open, listed, page
  <2> QED BY <2>1, <2>3, <2>4
<1>4. ToolAssets(v, u, x) = ToolAssets(w, u, x)
  <2> DEFINE mine == AnyOf({j \in DOMAIN w.jobs : w.jobs[j] = x}, MaxRows)
             known == {i \in w.issues : i.job \in mine}
             D == Dismissed(known)
             issues(j) == {i \in w.issues : i.product = x /\ i.job = j /\ ToolIssue(w, u, i)}
             S(j) == {e \in w.execs : e.job = j /\ Within(e.at, Recent(w))}
             T(j) == {e \in v.execs : e.job = j /\ Within(e.at, Recent(w))}
             FS(j) == {e \in S(j) : Failed(e, D)}
             FT(j) == {e \in T(j) : Failed(e, D)}
             row(j, runs, fails) ==
               [open |-> Cardinality({i \in issues(j) : Open(i)}),
                recent |-> Cardinality({i \in issues(j) : i.created >= Recent(w).from}),
                runs |-> Cardinality(runs), fails |-> Cardinality(fails)]
  <2>1. (ToolProduct(v, u, x) <=> ToolProduct(w, u, x)) /\ Recent(v) = Recent(w)
        /\ \A i : ToolIssue(v, u, i) <=> ToolIssue(w, u, i)
    BY <1>1, <1>2, KinderReach DEF Recent
  <2>2. ASSUME NEW j \in mine
        PROVE  Cardinality(T(j)) = Cardinality(S(j)) /\ Cardinality(FT(j)) = Cardinality(FS(j))
    <3> DEFINE A == S(j)  B == T(j)  FA == FS(j)  FB == FT(j)
    <3>1. Meant(w, w.execs, v.execs) /\ \A e \in w.execs : Fine(w, e).job = e.job /\ Fine(w, e).at = e.at
      BY <1>1, KinderRuns, FineIsTheRun
    <3>2. A \in SUBSET w.execs /\ B \in SUBSET v.execs /\ \A e \in w.execs : e \in A <=> Fine(w, e) \in B
      BY <3>1 DEF Meant
    <3>3. Meant(w, A, B)
      <4> HIDE DEF A, B
      <4> QED BY <3>1, <3>2, MeantParts
    <3>4. \A e \in A : Failed(e, D) <=> Failed(Fine(w, e), D)
      <4>1. \A e \in A : e \in w.execs /\ \A i \in w.issues : i.job = e.job => i \in known
        OBVIOUS
      <4>2. known \in SUBSET w.issues
        OBVIOUS
      <4> HIDE DEF A, known
      <4> QED BY <4>1, <4>2, FineFails
    <3>5. FA = {e \in A : Failed(e, D)} /\ FB = {e \in B : Failed(e, D)}
      OBVIOUS
    <3> HIDE DEF A, B, FA, FB, D
    <3>6. FA \in SUBSET A /\ FB \in SUBSET B /\ \A e \in A : e \in FA <=> Fine(w, e) \in FB
      BY <3>3, <3>4, <3>5 DEF Meant
    <3>7. Meant(w, FA, FB)
      BY <3>3, <3>6, MeantParts
    <3>8. Cardinality(B) = Cardinality(A) /\ Cardinality(FB) = Cardinality(FA)
      BY <3>3, <3>7, MeantCounts
    <3> QED BY <3>8 DEF A, B, FA, FB, D
  <2>3. ToolAssets(w, u, x)
        = IF ~ToolProduct(w, u, x) THEN Forbidden ELSE [j \in mine |-> row(j, S(j), FS(j))]
    BY DEF ToolAssets
  <2>4. ToolAssets(v, u, x)
        = IF ~ToolProduct(v, u, x) THEN Forbidden ELSE [j \in mine |-> row(j, T(j), FT(j))]
    BY <1>2, <2>1 DEF ToolAssets
  <2>5. \A j \in mine : row(j, S(j), FS(j)) = row(j, T(j), FT(j))
    BY <2>2
  <2> HIDE DEF mine, row, S, T, FS, FT
  <2> QED BY <2>1, <2>3, <2>4, <2>5
<1> QED BY <1>3, <1>4 DEF v

\* The history of a job.
LEMMA KinderHistory ==
  ASSUME NEW w \in Worlds, NEW u, NEW j, NEW days
  PROVE  ToolHistory(Kinder(w), u, j, days) = ToolHistory(w, u, j, days)
<1> DEFINE v == Kinder(w)
           known == {i \in w.issues : i.job = j}
           D == Dismissed(known)
           S == {e \in w.execs : e.job = j /\ e.at >= w.now - days * HoursADay}
           T == {e \in v.execs : e.job = j /\ e.at >= w.now - days * HoursADay}
           FS == {e \in S : Failed(e, D)}
           FT == {e \in T : Failed(e, D)}
           history(runs, fails, good) ==
             [runs |-> Cardinality(runs), fails |-> Cardinality(fails),
              rate |-> Percent(Cardinality(fails), Cardinality(runs)),
              streak |-> Streak(NewestFirst(runs), D), failed |-> Latest({e.at : e \in fails}),
              succeeded |-> Latest({e.at : e \in good})]
<1> HIDE DEF v
<1>1. v = Kinder(w)
  BY DEF v
<1>2. v.projects = w.projects /\ v.products = w.products /\ v.jobs = w.jobs /\ v.issues = w.issues /\ v.now = w.now
      /\ Meant(w, w.execs, v.execs)
  BY <1>1, KinderRuns
<1>3. ToolJob(v, u, j) <=> ToolJob(w, u, j)
  BY <1>1, <1>2, KinderReach DEF ToolJob
<1>4. \A e \in w.execs : Fine(w, e).job = e.job /\ Fine(w, e).at = e.at
  BY FineIsTheRun
<1>5. Meant(w, S, T)
  <2>1. S \in SUBSET w.execs /\ T \in SUBSET v.execs /\ \A e \in w.execs : e \in S <=> Fine(w, e) \in T
    BY <1>2, <1>4 DEF Meant
  <2> HIDE DEF S, T
  <2> QED BY <1>2, <2>1, MeantParts
<1>6. \A e \in S : Failed(e, D) <=> Failed(Fine(w, e), D)
  <2>1. \A e \in S : e \in w.execs /\ \A i \in w.issues : i.job = e.job => i \in known
    OBVIOUS
  <2>2. known \in SUBSET w.issues
    OBVIOUS
  <2> HIDE DEF S, known
  <2> QED BY <2>1, <2>2, FineFails
<1>7. Meant(w, FS, FT) /\ Meant(w, S \ FS, T \ FT)
  <2>1. S \in SUBSET w.execs /\ T = {Fine(w, e) : e \in S}
    BY <1>5 DEF Meant
  <2> DEFINE GS == S \ FS  GT == T \ FT
  <2>2. FS \in SUBSET S /\ FT \in SUBSET T /\ \A e \in S : e \in FS <=> Fine(w, e) \in FT
    <3> HIDE DEF S, T, D
    <3> QED BY <1>6, <2>1
  <2>3. GS \in SUBSET S /\ GT \in SUBSET T /\ \A e \in S : e \in GS <=> Fine(w, e) \in GT
    <3> HIDE DEF S, T, FS, FT
    <3> QED BY <2>1, <2>2
  <2> HIDE DEF S, T, FS, FT, GS, GT
  <2>4. Meant(w, FS, FT)
    BY <1>5, <2>2, MeantParts
  <2>5. Meant(w, GS, GT)
    BY <1>5, <2>3, MeantParts
  <2> QED BY <2>4, <2>5 DEF GS, GT
<1>8. (\A e \in S : e.job = j)
  OBVIOUS
<1>9. ToolHistory(w, u, j, days) = IF ~ToolJob(w, u, j) THEN Forbidden ELSE history(S, FS, S \ FS)
  BY DEF ToolHistory
<1>10. ToolHistory(v, u, j, days) = IF ~ToolJob(v, u, j) THEN Forbidden ELSE history(T, FT, T \ FT)
  BY <1>2 DEF ToolHistory
<1> HIDE DEF S, T, D
<1>11. Streak(NewestFirst(T), D) = Streak(NewestFirst(S), D)
  BY <1>5, <1>6, <1>8, MeantStreak
<1> DEFINE GS == S \ FS  GT == T \ FT
<1>12. Meant(w, GS, GT)
  BY <1>7
<1> HIDE DEF FS, FT, GS, GT
<1>13. /\ Cardinality(T) = Cardinality(S) /\ Cardinality(FT) = Cardinality(FS)
       /\ {e.at : e \in FT} = {e.at : e \in FS} /\ {e.at : e \in GT} = {e.at : e \in GS}
  BY <1>5, <1>7, <1>12, MeantCounts
<1>14. history(S, FS, GS) = history(T, FT, GT)
  BY <1>11, <1>13
<1> HIDE DEF history
<1> QED BY <1>1, <1>3, <1>9, <1>10, <1>14 DEF GS, GT

\* A dismissed failure counts as a success in every figure.
LEMMA DismissedAreFine ==
  ASSUME Asking
  PROVE  DismissedIsSuccess
<1> SUFFICES ASSUME ask.about = "figures" PROVE DismissedIsSuccess
  BY DEF DismissedIsSuccess
<1> DEFINE w == ask.world  u == ask.user  period == ask.period  kinder == Kinder(w)
<1>1. w \in Worlds
  BY DEF Asking
<1>2. kinder = [w EXCEPT !.execs = {IF <<e.job, e.run>> \in Dismissed(w.issues) THEN [e EXCEPT !.status = "completed"]
                                    ELSE e : e \in w.execs}]
  BY DEF Kinder, Fine
<1> HIDE DEF kinder
<1>3. kinder = Kinder(w)
  BY DEF kinder
<1>4. /\ HealthPage(w, u, period, Unset, DefaultRules) = HealthPage(kinder, u, period, Unset, DefaultRules)
      /\ ToolCompare(w, u, period, Unset) = ToolCompare(kinder, u, period, Unset)
  BY <1>1, <1>3, KinderOverview
<1>5. \A x \in DOMAIN w.products :
        /\ DrillPage(w, u, x, period, DefaultRules) = DrillPage(kinder, u, x, period, DefaultRules)
        /\ ToolAssets(w, u, x) = ToolAssets(kinder, u, x)
  BY <1>1, <1>3, KinderProduct
<1>6. \A j \in DOMAIN w.jobs : ToolHistory(w, u, j, 7) = ToolHistory(kinder, u, j, 7)
  BY <1>1, <1>3, KinderHistory
<1> QED BY <1>2, <1>4, <1>5, <1>6, Zenon DEF DismissedIsSuccess

\* The figures of a page, of another page and of the assistant are one set, the
\* parts add up, and no figure counts a dismissed failure, for every user, world
\* and period.
THEOREM FiguresAreOne == Spec => []FiguresHold
<1>1. Asking => FiguresHold
  BY FiguresAre, PartsDo, DismissedAreFine DEF FiguresHold
<1> QED BY <1>1, AlwaysAsking, PTL

-----------------------------------------------------------------------------
(* Timelines.                                                                 *)

\* Places in a sequence come in order.
Earlier(P) == [n \in P |-> {k \in P : k < n}]

\* The elements in their places are those of the sequence, in its order.
LEMMA PlacesKeep ==
  ASSUME NEW N \in Nat, NEW P \in SUBSET (1..N)
  PROVE  LET s == InRank(P, Earlier(P))
         IN /\ Cardinality(P) \in Nat /\ DOMAIN s = 1..Cardinality(P)
            /\ \A k \in DOMAIN s : s[k] \in P
            /\ \A n \in P : \E k \in DOMAIN s : s[k] = n
            /\ \A k, l \in DOMAIN s : k < l => s[k] < s[l]
<1> DEFINE s == InRank(P, Earlier(P))
<1>1. \A x, y \in P : x \in Earlier(P)[y] <=> x < y
  BY DEF Earlier
<1>2. \A x \in P : x \in Int
  OBVIOUS
<1>3. Earlier(P) \in [P -> SUBSET P]
  BY DEF Earlier
<1>4. IsFiniteSet(P)
  <2>1. IsFiniteSet(1..N)
    BY FS_Interval
  <2> QED BY <2>1, FS_Subset
<1>5. Ranked(P, Earlier(P))
  <2>1. \A x, y \in P : x \in Earlier(P)[y] => Earlier(P)[x] \subseteq Earlier(P)[y]
    <3>1. ASSUME NEW x \in P, NEW y \in P, x \in Earlier(P)[y], NEW z \in Earlier(P)[x]
          PROVE  z \in Earlier(P)[y]
      <4>1. z \in P
        BY <1>3
      <4>2. z < x /\ x < y
        BY <1>1, <3>1, <4>1
      <4> QED BY <1>1, <1>2, <4>1, <4>2
    <3> QED BY <3>1
  <2>2. \A x \in P : x \notin Earlier(P)[x]
    BY <1>1, <1>2
  <2>3. \A x, y \in P : x # y => x \in Earlier(P)[y] \/ y \in Earlier(P)[x]
    BY <1>1, <1>2
  <2> QED BY <1>3, <1>4, <2>1, <2>2, <2>3 DEF Ranked
<1>6. /\ Cardinality(P) \in Nat /\ DOMAIN s = 1..Cardinality(P)
      /\ \A k \in DOMAIN s : s[k] \in P
      /\ \A n \in P : \E k \in DOMAIN s : s[k] = n
      /\ \A k, l \in DOMAIN s : k < l => s[k] \in Earlier(P)[s[l]]
  BY <1>5, OrderKeeps
<1> HIDE DEF s
<1> QED BY <1>1, <1>6 DEF s

\* What a line has of an entry.
Fields == {"about", "at", "title", "action"}

\* The places the lines of a merged timeline come from: entries of the issue are
\* lines of their own, and so are the notes to its assignee; a note has a line of
\* its title and time.
MergesTo(E, M, kept) ==
  /\ kept \in [DOMAIN M -> DOMAIN E]
  /\ \A k \in DOMAIN M : /\ IsNote(M[k]) <=> IsNote(E[kept[k]])
                         /\ ~IsNote(E[kept[k]]) => M[k] = E[kept[k]]
  /\ \A k, l \in DOMAIN M : k < l => kept[k] < kept[l]
  /\ \A n \in DOMAIN E : ~IsNote(E[n]) \/ E[n].action \in {"issue_assigned", "issue_reassigned"} =>
       \E k \in DOMAIN M : kept[k] = n /\ M[k] = E[n]
  /\ \A n \in DOMAIN E : IsNote(E[n]) =>
       \E k \in DOMAIN M : IsNote(M[k]) /\ M[k].title = E[n].title /\ M[k].at = E[n].at

\* Merging drops notes only, each for an earlier one of its batch.
LEMMA MergeKeeps ==
  ASSUME NEW N \in Nat, NEW E, DOMAIN E = 1..N, \A n \in 1..N : Fields \subseteq DOMAIN E[n]
  PROVE  /\ \E kept : MergesTo(E, Merged(E), kept)
         /\ \E K \in Nat : DOMAIN Merged(E) = 1..K
<1> DEFINE first(n) == ~\E k \in 1..(n - 1) : SameBatch(E[k], E[n])
           receivers(n) == {E[k].to : k \in {j \in DOMAIN E : SameBatch(E[j], E[n])}}
           line(n) == IF Cardinality(receivers(n)) > 1 THEN [E[n] EXCEPT !.to = Unset] ELSE E[n]
           P == {n \in DOMAIN E : first(n)}
           kept == Ordered(P, LAMBDA a, b : a < b)
           M == Merged(E)
<1>1. M = [k \in DOMAIN kept |-> line(kept[k])]
  BY DEF Merged
<1>2. P \in SUBSET (1..N)
  OBVIOUS
<1>3. /\ Cardinality(P) \in Nat /\ DOMAIN kept = 1..Cardinality(P)
      /\ \A k \in DOMAIN kept : kept[k] \in P
      /\ \A n \in P : \E k \in DOMAIN kept : kept[k] = n
      /\ \A k, l \in DOMAIN kept : k < l => kept[k] < kept[l]
  <2> HIDE DEF P
  <2>1. kept = InRank(P, Earlier(P))
    BY DEF Ordered, InRank, Earlier
  <2> HIDE DEF kept
  <2> QED BY <1>2, <2>1, PlacesKeep
<1>4. ASSUME NEW n \in 1..N
      PROVE  /\ line(n).about = E[n].about /\ line(n).title = E[n].title /\ line(n).at = E[n].at
             /\ ~OwnerNote(E[n]) => first(n) /\ line(n) = E[n]
  <2>1. Fields \subseteq DOMAIN E[n]
    OBVIOUS
  <2>2. line(n).about = E[n].about /\ line(n).title = E[n].title /\ line(n).at = E[n].at
    <3> DEFINE changed == [E[n] EXCEPT !.to = Unset]
    <3>1. changed.about = E[n].about /\ changed.title = E[n].title /\ changed.at = E[n].at
      BY <2>1 DEF Fields
    <3> HIDE DEF changed
    <3>2. line(n) = changed \/ line(n) = E[n]
      BY DEF changed
    <3> HIDE DEF line
    <3> QED BY <3>1, <3>2
  <2>3. ASSUME ~OwnerNote(E[n]) PROVE first(n) /\ line(n) = E[n]
    <3>1. first(n) /\ receivers(n) = {}
      BY <2>3 DEF SameBatch
    <3>2. ~(Cardinality({}) > 1)
      BY FS_EmptySet
    <3> HIDE DEF receivers
    <3> QED BY <3>1, <3>2
  <2> QED BY <2>2, <2>3
<1>5. \A n \in 1..N : ~IsNote(E[n]) \/ E[n].action \in {"issue_assigned", "issue_reassigned"} => ~OwnerNote(E[n])
  BY DEF OwnerNote
<1>6. ASSUME NEW n \in 1..N
      PROVE  \E k \in 1..N : first(k) /\ (k = n \/ SameBatch(E[k], E[n]))
  <2>1. CASE first(n)
    BY <2>1
  <2>2. CASE ~first(n)
    <3> DEFINE Q == {k \in 1..(n - 1) : SameBatch(E[k], E[n])}
    <3>1. Q \in SUBSET Nat /\ Q # {}
      BY <2>2
    <3> DEFINE k == Min(Q)
    <3>2. k \in Q /\ \A j \in Q : k <= j
      <4> HIDE DEF Q
      <4> QED BY <3>1, Least
    <3> HIDE DEF k
    <3>3. k \in 1..N /\ SameBatch(E[k], E[n]) /\ k < n
      BY <3>2
    <3>4. ASSUME NEW j \in 1..(k - 1), SameBatch(E[j], E[k]) PROVE FALSE
      <4>1. SameBatch(E[j], E[n])
        BY <3>3, <3>4 DEF SameBatch
      <4>2. j \in Q /\ j < k
        BY <3>3, <4>1
      <4> HIDE DEF Q
      <4> QED BY <3>2, <3>3, <4>2
    <3> QED BY <3>3, <3>4
  <2> QED BY <2>1, <2>2
<1>7. /\ DOMAIN M = DOMAIN kept
      /\ \A k \in DOMAIN M : kept[k] \in 1..N /\ first(kept[k]) /\ M[k] = line(kept[k])
      /\ \A n \in 1..N : first(n) => \E k \in DOMAIN M : kept[k] = n
  BY <1>1, <1>3
<1>8. kept = [k \in DOMAIN M |-> kept[k]]
  BY <1>7 DEF Ordered
<1> HIDE DEF P, kept, line, first, M
<1>9. ASSUME NEW k \in DOMAIN M
      PROVE  /\ IsNote(M[k]) <=> IsNote(E[kept[k]])
             /\ ~IsNote(E[kept[k]]) => M[k] = E[kept[k]]
             /\ M[k].title = E[kept[k]].title /\ M[k].at = E[kept[k]].at
  BY <1>4, <1>5, <1>7 DEF IsNote
<1>10. ASSUME NEW n \in 1..N, ~IsNote(E[n]) \/ E[n].action \in {"issue_assigned", "issue_reassigned"}
       PROVE  \E k \in DOMAIN M : kept[k] = n /\ M[k] = E[n]
  <2>1. first(n) /\ line(n) = E[n]
    BY <1>4, <1>5, <1>10
  <2> QED BY <1>7, <2>1
<1>11. ASSUME NEW n \in 1..N, IsNote(E[n])
       PROVE  \E k \in DOMAIN M : IsNote(M[k]) /\ M[k].title = E[n].title /\ M[k].at = E[n].at
  <2>1. PICK j \in 1..N : first(j) /\ (j = n \/ SameBatch(E[j], E[n]))
    BY <1>6
  <2>2. IsNote(E[j]) /\ E[j].title = E[n].title /\ E[j].at = E[n].at
    BY <1>11, <2>1 DEF SameBatch, OwnerNote
  <2>3. PICK k \in DOMAIN M : kept[k] = j
    BY <1>7, <2>1
  <2> QED BY <1>9, <2>2, <2>3
<1>12. kept \in [DOMAIN M -> DOMAIN E]
  BY <1>7, <1>8
<1>13. MergesTo(E, M, kept)
  BY <1>3, <1>7, <1>9, <1>10, <1>11, <1>12 DEF MergesTo
<1>14. \E K \in Nat : DOMAIN M = 1..K
  BY <1>3, <1>7
<1> QED BY <1>13, <1>14 DEF M

\* What a timeline keeps of one issue.
KeepsTimeline(logs, issue) ==
  LET shown == Timeline(logs, issue)
      events == Lifecycle(logs, issue)
      row == Summary(logs, issue, Unset)
      places == {n \in DOMAIN shown : ~IsNote(shown[n])}
      notes == {e \in logs : e.issue = issue /\ IsNote(e) /\ e.action # "issue_created"}
  IN /\ {shown[n] : n \in places} = Range(events)
     /\ \A n, k \in places : n < k =>
          \E i, j \in DOMAIN events : i < j /\ events[i] = shown[n] /\ events[j] = shown[k]
     /\ row.events = Cardinality(places)
     /\ \A n \in places : (\A k \in places : k <= n) => row.latest.at = shown[n].at
     /\ \A e \in notes :
          /\ e.action \in {"issue_assigned", "issue_reassigned"} => \E n \in DOMAIN shown : shown[n] = e
          /\ \E n \in DOMAIN shown : IsNote(shown[n]) /\ shown[n].title = e.title /\ shown[n].at = e.at

\* The timeline of an issue has its life cycle in order, and a line for every note.
LEMMA TimelineShows ==
  ASSUME NEW logs \in Trails, NEW issue
  PROVE  KeepsTimeline(logs, issue)
<1> DEFINE about == About(logs, issue)
           life == {e \in about : ~IsNote(e)}
           told == {e \in about : ~(IsNote(e) /\ e.action = "issue_created")}
           E == OldestFirst(told)
           events == OldestFirst(life)
           M == Merged(E)
           places == {n \in DOMAIN M : ~IsNote(M[n])}
           notes == {e \in logs : e.issue = issue /\ IsNote(e) /\ e.action # "issue_created"}
           row == Summary(logs, issue, Unset)
<1>1. /\ Rows(logs)
      /\ \A e \in logs : e.at \in Int /\ e.about \in {"issue", "notification"} /\ Fields \subseteq DOMAIN e
  BY WorldsAssumption DEF Fields
<1>2. about \in SUBSET logs /\ life \in SUBSET told /\ told \in SUBSET logs /\ notes \in SUBSET told
      /\ life \in SUBSET logs /\ \A e \in life : ~IsNote(e)
  BY <1>1 DEF About, IsNote
<1>3. \A e \in told : ~IsNote(e) => e \in life
  OBVIOUS
<1>4. Rows(told) /\ Rows(life) /\ (\A e \in told : e.at \in Int) /\ \A e \in life : e.at \in Int
  BY <1>1, <1>2, RowsOf
<1> HIDE DEF about, life, told
<1>5. /\ E \in Seq(told) /\ Cardinality(told) \in Nat /\ DOMAIN E = 1..Cardinality(told)
      /\ \A x \in told : \E n \in DOMAIN E : E[n] = x
      /\ \A n, k \in DOMAIN E : n < k => Older(E[n], E[k])
  BY <1>4, OldestKeeps
<1>6. /\ events \in Seq(life) /\ Cardinality(life) \in Nat /\ DOMAIN events = 1..Cardinality(life)
      /\ Len(events) = Cardinality(life)
      /\ \A x \in life : \E n \in DOMAIN events : events[n] = x
      /\ \A n, k \in DOMAIN events : n < k => Older(events[n], events[k])
      /\ \A x, y \in life : Older(x, y) => x # y /\ ~Older(y, x)
  BY <1>4, OldestKeeps
<1>7. (\A n \in DOMAIN E : E[n] \in told) /\ \A n \in DOMAIN events : events[n] \in life
  <2> HIDE DEF E, events
  <2> QED BY <1>5, <1>6
<1>8. Timeline(logs, issue) = M /\ Lifecycle(logs, issue) = events
  BY DEF Timeline, Lifecycle, told, life, about
<1>9. /\ row.events = Len(events)
      /\ events # <<>> => row.latest.at = events[Len(events)].at
  BY DEF Summary, Lifecycle, life, about
<1> HIDE DEF E, events
<1>10. /\ \E kept : MergesTo(E, M, kept)
       /\ \E K \in Nat : DOMAIN M = 1..K
  <2>1. \A n \in 1..Cardinality(told) : Fields \subseteq DOMAIN E[n]
    BY <1>1, <1>2, <1>5, <1>7
  <2> QED BY <1>5, <2>1, MergeKeeps
<1>11. PICK kept : MergesTo(E, M, kept)
  BY <1>10
<1>12. PICK K \in Nat : DOMAIN M = 1..K
  BY <1>10
<1> HIDE DEF M, row, notes
<1>13. ASSUME NEW n \in places PROVE M[n] \in life /\ M[n] = E[kept[n]] /\ kept[n] \in DOMAIN E
  <2>1. n \in DOMAIN M /\ ~IsNote(M[n]) /\ kept[n] \in DOMAIN E
    BY <1>11 DEF MergesTo
  <2>2. M[n] = E[kept[n]]
    BY <1>11, <2>1 DEF MergesTo
  <2> QED BY <1>3, <1>7, <2>1, <2>2
<1>14. \A e \in life : \E n \in places : M[n] = e
  <2>1. ASSUME NEW e \in life PROVE \E n \in places : M[n] = e
    <3>1. PICK m \in DOMAIN E : E[m] = e
      BY <1>2, <1>5
    <3>2. ~IsNote(E[m])
      BY <1>2, <3>1
    <3>3. PICK k \in DOMAIN M : M[k] = E[m]
      BY <1>11, <3>2 DEF MergesTo
    <3> QED BY <3>1, <3>2, <3>3
  <2> QED BY <2>1
<1>15. ASSUME NEW n \in places, NEW k \in places, n < k PROVE Older(M[n], M[k])
  <2>1. kept[n] < kept[k]
    BY <1>11, <1>15 DEF MergesTo
  <2> QED BY <1>5, <1>13, <2>1
<1>16. \A n \in places : n \in Int
  BY <1>12
<1>17. ASSUME NEW n \in places, NEW k \in places, n < k
       PROVE  \E i, j \in DOMAIN events : i < j /\ events[i] = M[n] /\ events[j] = M[k]
  <2>1. PICK i \in DOMAIN events : events[i] = M[n]
    BY <1>6, <1>13
  <2>2. PICK j \in DOMAIN events : events[j] = M[k]
    BY <1>6, <1>13
  <2>3. Older(M[n], M[k])
    BY <1>15, <1>17
  <2>4. M[n] \in life /\ M[k] \in life
    BY <1>13
  <2>5. M[n] # M[k] /\ ~Older(M[k], M[n])
    BY <1>6, <2>3, <2>4
  <2>6. i # j /\ ~(j < i)
    BY <1>6, <2>1, <2>2, <2>5
  <2>7. i \in Int /\ j \in Int
    BY <1>6
  <2> QED BY <2>1, <2>2, <2>6, <2>7
<1>18. {M[n] : n \in places} = Range(events)
  <2>1. Range(events) = life
    BY <1>6, <1>7 DEF Range
  <2> QED BY <1>13, <1>14, <2>1
<1>19. Cardinality(places) = Cardinality(life)
  <2> DEFINE f == [n \in places |-> M[n]]
  <2>1. IsFiniteSet(places)
    <3>1. IsFiniteSet(1..K) /\ places \in SUBSET (1..K)
      BY <1>12, FS_Interval
    <3> QED BY <3>1, FS_Subset
  <2>2. \A n, k \in places : M[n] = M[k] => n = k
    <3>1. ASSUME NEW n \in places, NEW k \in places, n # k PROVE M[n] # M[k]
      <4>1. n < k \/ k < n
        BY <1>16, <3>1
      <4>2. Older(M[n], M[k]) \/ Older(M[k], M[n])
        BY <1>15, <4>1
      <4>3. M[n] \in life /\ M[k] \in life
        BY <1>13
      <4> QED BY <1>6, <4>2, <4>3
    <3> QED BY <3>1
  <2> HIDE DEF places
  <2>3. f \in Surjection(places, life)
    BY <1>13, <1>14 DEF Surjection
  <2>4. f \in Injection(places, life)
    BY <1>13, <2>2 DEF Injection, IsInjective
  <2> HIDE DEF f
  <2> QED BY <2>1, <2>3, <2>4, FS_Surjection
<1>20. ASSUME NEW n \in places, \A k \in places : k <= n
       PROVE  row.latest.at = M[n].at
  <2>1. PICK i \in DOMAIN events : events[i] = M[n]
    BY <1>6, <1>13
  <2>2. Len(events) \in DOMAIN events /\ events # <<>> /\ i <= Len(events)
    BY <1>6, <2>1
  <2>3. PICK k \in places : M[k] = events[Len(events)]
    BY <1>7, <1>14, <2>2
  <2>4. k <= n
    BY <1>20
  <2>5. ASSUME k # n PROVE FALSE
    <3>1. k < n
      BY <1>16, <2>4, <2>5
    <3>2. Older(M[k], M[n]) /\ M[k] \in life /\ M[n] \in life
      BY <1>13, <1>15, <3>1
    <3>3. i # Len(events)
      BY <1>6, <2>1, <2>3, <3>2
    <3>4. i < Len(events)
      BY <1>6, <2>2, <3>3
    <3>5. Older(M[n], M[k])
      BY <1>6, <2>1, <2>2, <2>3, <3>4
    <3> QED BY <1>6, <3>2, <3>5
  <2> QED BY <1>9, <2>2, <2>3, <2>5
<1>21. ASSUME NEW e \in notes
       PROVE  /\ e.action \in {"issue_assigned", "issue_reassigned"} => \E n \in DOMAIN M : M[n] = e
              /\ \E n \in DOMAIN M : IsNote(M[n]) /\ M[n].title = e.title /\ M[n].at = e.at
  <2>1. e \in told /\ IsNote(e)
    BY <1>2 DEF notes
  <2>2. PICK m \in DOMAIN E : E[m] = e
    BY <1>5, <2>1
  <2> QED BY <1>11, <2>1, <2>2 DEF MergesTo
<1> HIDE DEF places
<1>22. /\ {M[n] : n \in places} = Range(events)
       /\ \A n, k \in places : n < k =>
            \E i, j \in DOMAIN events : i < j /\ events[i] = M[n] /\ events[j] = M[k]
       /\ row.events = Cardinality(places)
       /\ \A n \in places : (\A k \in places : k <= n) => row.latest.at = M[n].at
       /\ \A e \in notes :
            /\ e.action \in {"issue_assigned", "issue_reassigned"} => \E n \in DOMAIN M : M[n] = e
            /\ \E n \in DOMAIN M : IsNote(M[n]) /\ M[n].title = e.title /\ M[n].at = e.at
  BY <1>6, <1>9, <1>17, <1>18, <1>19, <1>20, <1>21
<1> QED BY <1>8, <1>22 DEF KeepsTimeline, places, notes, row

\* Every timeline keeps what happened to its issue (_merge_admin_notifications).
THEOREM TimelinesKeep == Spec => []TimelineKeeps
<1>1. Asking => TimelineKeeps
  <2>1. Asking /\ ask.about = "trail" => ask.logs \in Trails
    BY DEF Asking
  <2>2. (ask.about = "trail" => \A issue : KeepsTimeline(ask.logs, issue)) => TimelineKeeps
    BY Zenon DEF TimelineKeeps, KeepsTimeline
  <2> QED BY <2>1, <2>2, TimelineShows
<1> QED BY <1>1, AlwaysAsking, PTL

-----------------------------------------------------------------------------
(* Forms.                                                                     *)

\* A look-up that fails says so, and one that does not has found something.
Answer(a) == a.error = "none" <=> a.id # Unset

\* A set of what has an id.
Known(matches) == \A m \in matches : m.id # Unset

\* The two forms an answer has.
LEMMA AnswerFields ==
  /\ \A id : Forms!Found(id).id = id /\ Forms!Found(id).error = "none"
  /\ \A error : Forms!Failed(error).id = Unset /\ Forms!Failed(error).error = error
BY DEF Forms!Found, Forms!Failed

\* The only match of several is one of them.
LEMMA OneMatch ==
  ASSUME NEW matches, Known(matches)
  PROVE  LET a == Forms!Single(matches)
         IN Answer(a) /\ (a.id # Unset => \E m \in matches : m.id = a.id)
<1> DEFINE a == Forms!Single(matches)
           m == CHOOSE m \in matches : TRUE
<1>1. CASE matches # {} /\ Forms!Sole(matches)
  <2>1. m \in matches
    BY <1>1
  <2>2. a = Forms!Found(m.id)
    BY <1>1 DEF Forms!Single
  <2> HIDE DEF m, a
  <2> QED BY <2>1, <2>2, AnswerFields DEF Answer, Known, a
<1>2. CASE matches = {} \/ ~Forms!Sole(matches)
  <2>1. a = Forms!Failed("missing") \/ a = Forms!Failed("ambiguous")
    BY <1>2 DEF Forms!Single
  <2> HIDE DEF a
  <2>2. a.id = Unset /\ a.error # "none"
    BY <2>1, AnswerFields
  <2> QED BY <2>2 DEF Answer, a
<1> QED BY <1>1, <1>2

\* A project is found by a name that was given.
LEMMA ProjectAnswers ==
  ASSUME NEW cml \in Clusters, NEW name
  PROVE  LET a == Forms!ProjectId(cml, name)
         IN Answer(a) /\ (a.id # Unset => name # NoText)
<1> DEFINE matches == {p \in cml.projects : p.name = name}
           a == Forms!ProjectId(cml, name)
<1>1. Known(matches) /\ (matches # {} => name # NoText)
  BY FormsAssumption DEF Known
<1>2. a = Forms!Failed("down") \/ a = Forms!Single(matches)
  BY DEF Forms!ProjectId
<1> HIDE DEF a, matches
<1>3. Answer(Forms!Failed("down")) /\ Forms!Failed("down").id = Unset
  BY AnswerFields DEF Answer
<1>4. /\ Answer(Forms!Single(matches))
      /\ Forms!Single(matches).id # Unset => \E m \in matches : m.id = Forms!Single(matches).id
  BY <1>1, OneMatch
<1> QED BY <1>1, <1>2, <1>3, <1>4 DEF a

\* A job is found in a CML that answers, among its jobs.
LEMMA JobAnswers ==
  ASSUME NEW cml \in Clusters, NEW project, NEW name
  PROVE  LET a == Forms!JobId(cml, project, name)
         IN Answer(a) /\ (a.id # Unset => cml.up /\ \E j \in cml.jobs : j.id = a.id)
<1> DEFINE matches == {j \in cml.jobs : j.project = project /\ j.name = name}
           a == Forms!JobId(cml, project, name)
<1>1. Known(matches)
  BY FormsAssumption DEF Known
<1>2. a = IF ~cml.up THEN Forms!Failed("down") ELSE Forms!Single(matches)
  BY DEF Forms!JobId
<1>3. \A m \in matches : m \in cml.jobs
  OBVIOUS
<1> HIDE DEF a, matches
<1>4. Answer(Forms!Failed("down")) /\ Forms!Failed("down").id = Unset
  BY AnswerFields DEF Answer
<1>5. /\ Answer(Forms!Single(matches))
      /\ Forms!Single(matches).id # Unset => \E m \in matches : m.id = Forms!Single(matches).id
  BY <1>1, OneMatch
<1> QED BY <1>2, <1>3, <1>4, <1>5 DEF a

\* So is an application, by its name, its sub-domain or both.
LEMMA AppAnswers ==
  ASSUME NEW cml \in Clusters, NEW project, NEW name, NEW sub
  PROVE  Answer(Forms!AppId(cml, project, name, sub))
<1> DEFINE within == {a \in cml.apps : a.project = project}
           named == IF name = NoText THEN {} ELSE {a \in within : a.name = name}
           served(apps) == IF sub = NoText THEN {} ELSE {a \in apps : a.sub = sub}
           a == Forms!AppId(cml, project, name, sub)
<1>1. Known(named) /\ Known(served(within)) /\ Known(served(named))
  BY FormsAssumption DEF Known
<1>2. a \in {Forms!Failed("down"), Forms!Failed("ambiguous"), Forms!Single(named),
             Forms!Single(served(within)), Forms!Single(served(named))}
  BY DEF Forms!AppId
<1> HIDE DEF a, within, named, served
<1>3. Answer(Forms!Failed("down")) /\ Answer(Forms!Failed("ambiguous"))
  BY AnswerFields DEF Answer
<1>4. Answer(Forms!Single(named)) /\ Answer(Forms!Single(served(within))) /\ Answer(Forms!Single(served(named)))
  BY <1>1, OneMatch
<1>5. Answer(a)
  BY <1>2, <1>3, <1>4
<1> QED BY <1>5 DEF a

\* What a save makes of an answer, and what its card shows.
LEMMA SavedFields ==
  ASSUME NEW project, NEW answer
  PROVE  LET row == Forms!Saved(project, answer)
         IN /\ project.id = Unset => row.project = Unset /\ row.found = Unset /\ row.error = project.error
            /\ project.id # Unset => row.project = project.id /\ row.found = answer.id /\ row.error = answer.error
BY AnswerFields DEF Forms!Saved, Forms!Unresolved, Forms!Bind

\* What the card of an asset shows of its binding.
LEMMA CardShows ==
  ASSUME NEW row
  PROVE  /\ Forms!BindingStatus(row, TRUE) = "error" <=> row.error # "none"
         /\ Forms!BindingStatus(row, TRUE) = "resolved" <=>
              row.error = "none" /\ row.project # Unset /\ row.found # Unset
         /\ Forms!BindingStatus(row, FALSE) # "resolved"
BY DEF Forms!BindingStatus

\* The project an asset is bound in is found or there is an error.
LEMMA BoundAnswers ==
  ASSUME NEW cml \in Clusters, NEW owning, NEW override
  PROVE  Answer(Forms!BoundProject(cml, owning, override))
<1>1. Answer(Forms!ProjectId(cml, override))
  BY ProjectAnswers
<1>2. owning.id # Unset => Answer(Forms!Found(owning.id))
  BY AnswerFields DEF Answer
<1>3. Answer(Forms!Failed("unbound"))
  BY AnswerFields DEF Answer
<1> QED BY <1>1, <1>2, <1>3 DEF Forms!BoundProject

\* An application that has the sub-domain elsewhere is in another project.
LEMMA ElsewhereFound ==
  ASSUME NEW cml, NEW sub, NEW project, Forms!Elsewhere(cml, sub, project) # Unset
  PROVE  /\ Forms!Elsewhere(cml, sub, project).project # project
         /\ Forms!Elsewhere(cml, sub, project).sub = sub
<1> DEFINE others == IF cml.up /\ sub # NoText THEN {a \in cml.apps : a.project # project /\ a.sub = sub} ELSE {}
<1>1. others # {} /\ Forms!Elsewhere(cml, sub, project) = CHOOSE a \in others : TRUE
  BY DEF Forms!Elsewhere
<1>2. \A a \in others : a.project # project /\ a.sub = sub
  OBVIOUS
<1> HIDE DEF others
<1> QED BY <1>1, <1>2

\* The check of an application form and its save use one look-up.
LEMMA AppForms ==
  ASSUME Asking
  PROVE  AppFormForetells
<1> SUFFICES ASSUME ask.about = "form" PROVE AppFormForetells
  BY DEF AppFormForetells
<1> DEFINE cml == ask.cml
           f == ask.form
           named == f.name # NoText \/ f.sub # NoText
           saved == Forms!SavedApp(cml, f.owning, f.override, f.name, f.sub)
           probe == Forms!AppCheck(cml, f.owning, f.override, f.name, f.sub, "good", "none").binding
           project == Forms!BoundProject(cml, f.owning, f.override)
           answer == Forms!AppId(cml, project.id, f.name, f.sub)
<1>1. cml \in Clusters /\ f \in Assets /\ f.owning # Unset
  BY FormsAssumption DEF Asking
<1>2. Forms!ProbedProject(cml, f.owning, f.override) = project
  BY <1>1 DEF Forms!ProbedProject, Forms!BoundProject
<1>3. probe = Forms!AppProbe(cml, f.owning, f.override, f.name, f.sub)
  BY DEF Forms!AppCheck
<1>4. saved = Forms!Saved(project, IF {f.name, f.sub} = {NoText} THEN Forms!NotAsked ELSE answer)
  BY DEF Forms!SavedApp
<1>5. Answer(project) /\ Answer(answer)
  BY <1>1, BoundAnswers, AppAnswers
<1>6. CASE ~named
  <2>1. probe = [ok |-> "unasked", id |-> Unset, other |-> Unset]
    BY <1>3, <1>6 DEF Forms!AppProbe
  <2>2. probe.ok = "unasked" /\ probe.other = Unset
    BY <2>1
  <2> HIDE DEF probe, saved, named
  <2> QED BY <1>6, <2>2 DEF AppFormForetells, probe, saved, named
<1>7. CASE named /\ project.id = Unset
  <2>1. probe = [ok |-> "no", id |-> Unset, other |-> Forms!Elsewhere(cml, f.sub, Unset)]
    BY <1>2, <1>3, <1>7 DEF Forms!AppProbe
  <2>2. probe.ok = "no" /\ probe.other = Forms!Elsewhere(cml, f.sub, Unset)
    BY <2>1
  <2>3. saved.project = Unset /\ saved.error # "none"
    <3> HIDE DEF saved, project, answer
    <3> QED BY <1>4, <1>5, <1>7, SavedFields DEF Answer
  <2>4. named
    BY <1>7
  <2> HIDE DEF probe, saved, named
  <2>5. Forms!BindingStatus(saved, TRUE) = "error"
    BY <2>3, CardShows
  <2>6. probe.other # Unset => probe.other.project # saved.project /\ probe.other.sub = f.sub
    BY <2>2, <2>3, ElsewhereFound
  <2>7. named = TRUE
    BY <2>4 DEF named
  <2> QED BY <2>2, <2>4, <2>5, <2>6, <2>7 DEF AppFormForetells, probe, saved, named
<1>8. CASE named /\ project.id # Unset
  <2>1. probe = IF answer.error = "none" THEN [ok |-> "yes", id |-> answer.id, other |-> Unset]
                ELSE [ok |-> "no", id |-> Unset, other |-> Forms!Elsewhere(cml, f.sub, project.id)]
    BY <1>2, <1>3, <1>8 DEF Forms!AppProbe
  <2>2. {f.name, f.sub} # {NoText}
    BY <1>8
  <2>3. saved.project = project.id /\ saved.found = answer.id /\ saved.error = answer.error
    <3>1. saved = Forms!Saved(project, answer)
      BY <1>4, <2>2
    <3> HIDE DEF saved, project, answer
    <3> QED BY <1>8, <3>1, SavedFields
  <2>4. named = TRUE
    BY <1>8
  <2> HIDE DEF probe, saved, named, project, answer
  <2>5. /\ Forms!BindingStatus(saved, TRUE) = "error" <=> answer.error # "none"
        /\ Forms!BindingStatus(saved, TRUE) = "resolved" <=> answer.error = "none"
    BY <1>5, <1>8, <2>3, CardShows DEF Answer
  <2>6. CASE answer.error = "none"
    <3>1. probe.ok = "yes" /\ probe.id = answer.id /\ probe.other = Unset
      BY <2>1, <2>6
    <3> QED BY <2>3, <2>4, <2>5, <2>6, <3>1 DEF AppFormForetells, probe, saved, named
  <2>7. CASE answer.error # "none"
    <3>1. probe.ok = "no" /\ probe.other = Forms!Elsewhere(cml, f.sub, project.id)
      BY <2>1, <2>7
    <3>2. probe.other # Unset => probe.other.project # saved.project /\ probe.other.sub = f.sub
      BY <2>3, <3>1, ElsewhereFound
    <3> QED BY <2>4, <2>5, <2>7, <3>1, <3>2 DEF AppFormForetells, probe, saved, named
  <2> QED BY <2>6, <2>7
<1> QED BY <1>6, <1>7, <1>8

\* The check of a job form asks by name, its save by the id the project has: the two
\* look-ups are one when that name has that id.
LEMMA JobForms ==
  ASSUME Asking
  PROVE  JobFormForetells
<1> DEFINE cml == ask.cml
           f == ask.form
           saved == Forms!SavedJob(cml, f.owning, f.override, f.name)
           check == Forms!JobCheck(cml, f.owning, f.override, f.name)
           live == Forms!LiveStatus(cml, saved)
           wanted == IF f.override # NoText THEN f.override ELSE f.owning.name
           project == Forms!ProjectId(cml, wanted)
           job == IF project.id = Unset THEN project ELSE Forms!JobId(cml, project.id, f.name)
           bound == Forms!BoundProject(cml, f.owning, f.override)
           answer == IF f.name = NoText THEN Forms!NotAsked ELSE Forms!JobId(cml, bound.id, f.name)
<1> SUFFICES ASSUME ask.about = "form",
                    f.override # NoText \/ Forms!ProjectId(cml, f.owning.name).id = f.owning.id
             PROVE  /\ check.found <=> Forms!BindingStatus(saved, f.name # NoText) = "resolved"
                    /\ check.found => check.id = saved.found /\ live = [polled |-> TRUE, status |-> check.status]
                    /\ ~check.found => ~live.polled
  BY DEF JobFormForetells
<1>1. cml \in Clusters /\ f \in Assets /\ f.owning # Unset
  BY FormsAssumption DEF Asking
<1>2. Answer(project) /\ (project.id # Unset => wanted # NoText)
  BY <1>1, ProjectAnswers
<1>3. bound.id = project.id /\ Answer(bound)
  <2>1. Answer(bound)
    BY <1>1, BoundAnswers
  <2>2. CASE f.override # NoText
    BY <2>1, <2>2 DEF Forms!BoundProject
  <2>3. CASE f.override = NoText
    <3>1. project.id = f.owning.id
      BY <2>3
    <3>2. bound = IF f.owning.id # Unset THEN Forms!Found(f.owning.id) ELSE Forms!Failed("unbound")
      BY <2>3 DEF Forms!BoundProject
    <3> HIDE DEF bound, project
    <3> QED BY <2>1, <3>1, <3>2, AnswerFields
  <2> QED BY <2>2, <2>3
<1>4. saved = Forms!Saved(bound, answer)
  BY DEF Forms!SavedJob
<1>5. check = IF f.name = NoText \/ wanted = NoText
                THEN [ok |-> FALSE, found |-> FALSE, id |-> Unset, status |-> Unset]
              ELSE [ok |-> job.error # "missing", found |-> job.id # Unset, id |-> job.id,
                    status |-> IF job.id = Unset THEN Unset ELSE (CHOOSE j \in cml.jobs : j.id = job.id).run]
  BY <1>1 DEF Forms!JobCheck
<1>6. live = IF saved.project = Unset \/ saved.found = Unset THEN [polled |-> FALSE, status |-> "unresolved"]
             ELSE [polled |-> TRUE,
                   status |-> IF cml.up /\ \E j \in cml.jobs : j.id = saved.found
                              THEN (CHOOSE j \in cml.jobs : j.id = saved.found).run ELSE "error"]
  BY DEF Forms!LiveStatus
<1>7. project.id # Unset /\ f.name # NoText =>
        /\ job = answer /\ Answer(answer)
        /\ answer.id # Unset => cml.up /\ \E j \in cml.jobs : j.id = answer.id
  <2> SUFFICES ASSUME project.id # Unset, f.name # NoText
               PROVE  /\ job = answer /\ Answer(answer)
                      /\ answer.id # Unset => cml.up /\ \E j \in cml.jobs : j.id = answer.id
    OBVIOUS
  <2>1. job = answer /\ answer = Forms!JobId(cml, bound.id, f.name)
    BY <1>3
  <2> HIDE DEF job, answer, bound, project
  <2> QED BY <1>1, <2>1, JobAnswers
<1>8. project.id = Unset => saved.project = Unset /\ saved.found = Unset /\ saved.error # "none"
  <2> HIDE DEF bound, answer, project, saved
  <2> QED BY <1>3, <1>4, SavedFields DEF Answer
<1>9. project.id # Unset => saved.project # Unset /\ saved.found = answer.id /\ saved.error = answer.error
  <2> HIDE DEF bound, answer, project, saved
  <2> QED BY <1>3, <1>4, SavedFields
<1>10. CASE f.name = NoText
  <2>1. ~check.found
    BY <1>5, <1>10
  <2>2. answer.id = Unset
    BY <1>10, AnswerFields DEF Forms!NotAsked
  <2> HIDE DEF saved, check, live, answer, project
  <2>3. saved.found = Unset
    BY <1>8, <1>9, <2>2
  <2>4. ~live.polled
    BY <1>6, <2>3
  <2>5. Forms!BindingStatus(saved, FALSE) # "resolved"
    BY CardShows
  <2>6. (f.name # NoText) = FALSE
    BY <1>10
  <2> QED BY <2>1, <2>4, <2>5, <2>6
<1>11. CASE f.name # NoText /\ project.id = Unset
  <2>1. job.id = Unset
    BY <1>11
  <2>2. ~check.found
    <3> HIDE DEF job, check, wanted
    <3> QED BY <1>5, <2>1
  <2> HIDE DEF saved, check, live, answer, project
  <2>3. ~live.polled
    BY <1>6, <1>8, <1>11
  <2>4. Forms!BindingStatus(saved, TRUE) # "resolved"
    BY <1>8, <1>11, CardShows
  <2>5. (f.name # NoText) = TRUE
    BY <1>11
  <2> QED BY <2>2, <2>3, <2>4, <2>5
<1>12. CASE f.name # NoText /\ project.id # Unset
  <2>1. check = [ok |-> job.error # "missing", found |-> job.id # Unset, id |-> job.id,
                 status |-> IF job.id = Unset THEN Unset ELSE (CHOOSE j \in cml.jobs : j.id = job.id).run]
    BY <1>2, <1>5, <1>12
  <2> HIDE DEF saved, check, live, answer, project, job
  <2>2. job = answer /\ saved.project # Unset /\ saved.found = answer.id /\ saved.error = answer.error
    BY <1>7, <1>9, <1>12
  <2>3. (f.name # NoText) = TRUE
    BY <1>12
  <2>4. Forms!BindingStatus(saved, TRUE) = "resolved" <=> answer.id # Unset
    BY <1>7, <1>12, <2>2, CardShows DEF Answer
  <2>5. CASE answer.id = Unset
    <3>1. check.found <=> FALSE
      BY <2>1, <2>2, <2>5
    <3>2. ~live.polled
      BY <1>6, <2>2, <2>5
    <3> QED BY <2>3, <2>4, <2>5, <3>1, <3>2
  <2>6. CASE answer.id # Unset
    <3>1. /\ check.found <=> TRUE
          /\ check.id = answer.id
          /\ check.status = (CHOOSE j \in cml.jobs : j.id = answer.id).run
      BY <2>1, <2>2, <2>6
    <3>2. live = [polled |-> TRUE, status |-> (CHOOSE j \in cml.jobs : j.id = answer.id).run]
      BY <1>6, <1>7, <1>12, <2>2, <2>6
    <3> QED BY <2>2, <2>3, <2>4, <2>6, <3>1, <3>2
  <2> QED BY <2>5, <2>6
<1> QED BY <1>10, <1>11, <1>12

\* The check of a model form and the drift check read the same list and details.
LEMMA ModelForms ==
  ASSUME Asking
  PROVE  ModelFormForetells
<1> DEFINE mmp == ask.mmp
           repo == ask.repo
           model == ask.model
           check == Forms!ModelCheck(mmp, repo, model)
           verdict == Forms!DriftCheck(mmp, repo, model)
           detail == mmp.models[<<repo, model>>]
<1> SUFFICES ASSUME ask.about = "model"
             PROVE  /\ verdict = "create_issue" => check.ok /\ check.drifted = TRUE
                    /\ verdict = "close_issue" => check.ok /\ check.drifted = FALSE
                    /\ check.drifted = TRUE => verdict \in {"create_issue", "inconclusive"}
  BY DEF ModelFormForetells
<1>1. mmp \in Monitors /\ <<repo, model>> \in DOMAIN mmp.models
  BY FormsAssumption DEF Asking
<1>2. NoText \notin DOMAIN mmp.directory /\ Unset \notin BOOLEAN
  BY <1>1, FormsAssumption
<1>3. detail # Unset /\ repo \in DOMAIN mmp.directory =>
        /\ model \in mmp.directory[repo] /\ model # NoText
        /\ detail.drifted = TRUE \/ detail.drifted = FALSE \/ detail.drifted = Unset
  BY <1>1, FormsAssumption
<1>4. Forms!Detail(mmp, repo, model) = detail
  BY DEF Forms!Detail
<1>5. repo \in DOMAIN mmp.directory => Forms!ListedUnder(mmp, repo) = mmp.directory[repo]
  BY DEF Forms!ListedUnder
<1> HIDE DEF mmp, repo, model, detail
<1>6. CASE ~mmp.set \/ ~mmp.listed
  <2>1. verdict \in {"skipped", "inconclusive"}
    BY <1>6 DEF Forms!DriftCheck
  <2>2. check = Forms!Step(FALSE, FALSE, FALSE, Unset)
    BY <1>6 DEF Forms!ModelCheck
  <2>3. check.drifted = Unset
    BY <2>2 DEF Forms!Step
  <2> HIDE DEF verdict, check
  <2> QED BY <1>2, <2>1, <2>3
<1>7. CASE mmp.set /\ mmp.listed /\ repo \notin DOMAIN mmp.directory
  <2>1. verdict = "skipped"
    BY <1>7 DEF Forms!DriftCheck
  <2>2. check = Forms!Step(TRUE, FALSE, FALSE, Unset) \/ check = Forms!Step(FALSE, FALSE, FALSE, Unset)
    BY <1>7 DEF Forms!ModelCheck
  <2>3. check.drifted = Unset
    BY <2>2 DEF Forms!Step
  <2> HIDE DEF verdict, check
  <2> QED BY <1>2, <2>1, <2>3
<1>8. CASE mmp.set /\ mmp.listed /\ repo \in DOMAIN mmp.directory
  <2>0. repo # NoText
    BY <1>2, <1>8
  <2>1. verdict = IF ~mmp.detailed THEN "inconclusive"
                  ELSE IF detail = Unset THEN "skipped"
                  ELSE IF detail.drifted = Unset \/ ~detail.stamp THEN "inconclusive"
                  ELSE IF detail.drifted THEN "create_issue" ELSE "close_issue"
    BY <1>4, <1>8 DEF Forms!DriftCheck
  <2>2. check = IF model = NoText THEN Forms!Step(TRUE, TRUE, FALSE, Unset)
                ELSE IF model \notin mmp.directory[repo] THEN Forms!Step(FALSE, TRUE, FALSE, Unset)
                ELSE IF ~mmp.detailed THEN Forms!Step(FALSE, TRUE, TRUE, Unset)
                ELSE Forms!Step(TRUE, TRUE, TRUE, IF detail = Unset THEN Unset ELSE detail.drifted)
    BY <1>4, <1>5, <1>8, <2>0 DEF Forms!ModelCheck
  <2> HIDE DEF verdict, check
  <2>4. CASE ~mmp.detailed \/ detail = Unset
    <3>1. verdict \in {"inconclusive", "skipped"}
      BY <2>1, <2>4
    <3>2. check.drifted = Unset
      <4>1. \/ check = Forms!Step(TRUE, TRUE, FALSE, Unset) \/ check = Forms!Step(FALSE, TRUE, FALSE, Unset)
            \/ check = Forms!Step(FALSE, TRUE, TRUE, Unset) \/ check = Forms!Step(TRUE, TRUE, TRUE, Unset)
        BY <2>2, <2>4
      <4> QED BY <4>1 DEF Forms!Step
    <3> QED BY <1>2, <3>1, <3>2
  <2>5. CASE mmp.detailed /\ detail # Unset
    <3>1. check = Forms!Step(TRUE, TRUE, TRUE, detail.drifted)
      BY <1>3, <1>8, <2>2, <2>5
    <3>2. check.ok = TRUE /\ check.drifted = detail.drifted
      BY <3>1 DEF Forms!Step
    <3>3. verdict = IF detail.drifted = Unset \/ ~detail.stamp THEN "inconclusive"
                    ELSE IF detail.drifted THEN "create_issue" ELSE "close_issue"
      BY <2>1, <2>5
    <3> QED BY <1>2, <1>3, <1>8, <2>5, <3>2, <3>3
  <2> QED BY <2>4, <2>5
<1> QED BY <1>6, <1>7, <1>8

\* Whatever CML and the model monitor hold, what a form shows of an asset is what
\* saving it binds and what the monitor judges it by (applications, jobs,
\* run_mmp_verification, check_drift).
THEOREM FormsAreRight == Spec => []FormsForetell
<1>1. Asking => FormsForetell
  BY AppForms, JobForms, ModelForms DEF FormsForetell
<1> QED BY <1>1, AlwaysAsking, PTL
-----------------------------------------------------------------------------
(* Drafts.                                                                    *)

\* The copy of the community modules that the drafts use is the one used here.
LEMMA DraftMin == \A S : Drafting!Min(S) = Min(S)
BY DEF Drafting!Min, Min

\* What has one element is not empty.
LEMMA DraftCard == \A S : Drafting!Cardinality(S) = Cardinality(S)
BY DEF Drafting!Cardinality, Cardinality

\* An asset of a draft, and a draft, have the fields they have.
MakeAsset(kind, project, name, cron, controlm, sub) ==
  [kind |-> kind, project |-> project, name |-> name, cron |-> cron, controlm |-> controlm, sub |-> sub]

IsAsset(a) ==
  /\ a = MakeAsset(a.kind, a.project, a.name, a.cron, a.controlm, a.sub)
  /\ a.kind \in {"job", "app"} /\ Named(a.project) /\ Named(a.name) /\ a.cron \in BOOLEAN

IsDraft(d) ==
  /\ d = [binding |-> d.binding, assets |-> d.assets] /\ Named(d.binding)
  /\ \E k \in Nat : DOMAIN d.assets = 1..k
  /\ d.assets = [n \in DOMAIN d.assets |-> d.assets[n]]
  /\ \A n \in DOMAIN d.assets : IsAsset(d.assets[n])

\* A change of a field of an asset changes that field.
LEMMA FieldChanged ==
  ASSUME NEW k, NEW q, NEW m, NEW d, NEW t, NEW u, NEW a, a = MakeAsset(k, q, m, d, t, u)
  PROVE  /\ \A p : [a EXCEPT !.project = p] = MakeAsset(k, p, m, d, t, u)
         /\ \A x : [a EXCEPT !.name = x] = MakeAsset(k, q, x, d, t, u)
         /\ \A x : [a EXCEPT !.cron = x] = MakeAsset(k, q, m, x, t, u)
         /\ \A x : [a EXCEPT !.sub = x] = MakeAsset(k, q, m, d, t, x)
<1> DEFINE b == MakeAsset(k, q, m, d, t, u)
<1>1. ASSUME NEW p PROVE [b EXCEPT !.project = p] = MakeAsset(k, p, m, d, t, u)
  BY DEF MakeAsset
<1>2. ASSUME NEW p PROVE [b EXCEPT !.name = p] = MakeAsset(k, q, p, d, t, u)
  BY DEF MakeAsset
<1>3. ASSUME NEW p PROVE [b EXCEPT !.cron = p] = MakeAsset(k, q, m, p, t, u)
  BY DEF MakeAsset
<1>4. ASSUME NEW p PROVE [b EXCEPT !.sub = p] = MakeAsset(k, q, m, d, t, p)
  BY DEF MakeAsset
<1> QED BY <1>1, <1>2, <1>3, <1>4, Zenon

\* The name and the cron of a job change together,
LEMMA JobChanged ==
  ASSUME NEW a, IsAsset(a), NEW c
  PROVE  [a EXCEPT !.name = Drafting!Real(@.key), !.cron = @ \/ c] =
           MakeAsset(a.kind, a.project, Drafting!Real(a.name.key), a.cron \/ c, a.controlm, a.sub)
<1> DEFINE n == Drafting!Real(a.name.key)
           e == [a EXCEPT !.name = n]
           f == [e EXCEPT !.cron = a.cron \/ c]
<1>1. a = MakeAsset(a.kind, a.project, a.name, a.cron, a.controlm, a.sub)
  BY DEF IsAsset
<1>2. e = MakeAsset(a.kind, a.project, n, a.cron, a.controlm, a.sub)
  BY <1>1, FieldChanged
<1>3. e.cron = a.cron
  BY <1>2 DEF MakeAsset
<1>4. [a EXCEPT !.name = Drafting!Real(@.key), !.cron = @ \/ c] = f
  BY <1>2, <1>3, Zenon
<1>5. f = MakeAsset(a.kind, a.project, n, a.cron \/ c, a.controlm, a.sub)
  <2> HIDE DEF e, n
  <2> QED BY <1>2, FieldChanged
<1> QED BY <1>2, <1>5, <1>4, Zenon

\* or with its project,
LEMMA JobMoved ==
  ASSUME NEW a, IsAsset(a), NEW c, NEW p
  PROVE  [a EXCEPT !.project = p, !.name = Drafting!Real(@.key), !.cron = @ \/ c] =
           MakeAsset(a.kind, p, Drafting!Real(a.name.key), a.cron \/ c, a.controlm, a.sub)
<1> DEFINE n == Drafting!Real(a.name.key)
           e == [a EXCEPT !.project = p]
           f == [e EXCEPT !.name = n]
           g == [f EXCEPT !.cron = a.cron \/ c]
<1>1. a = MakeAsset(a.kind, a.project, a.name, a.cron, a.controlm, a.sub)
  BY DEF IsAsset
<1>2. e = MakeAsset(a.kind, p, a.name, a.cron, a.controlm, a.sub)
  BY <1>1, FieldChanged
<1>3. e.name = a.name
  BY <1>2 DEF MakeAsset
<1>4. f = MakeAsset(a.kind, p, n, a.cron, a.controlm, a.sub)
  <2> HIDE DEF e, n
  <2> QED BY <1>2, FieldChanged
<1>5. f.cron = a.cron
  <2> HIDE DEF f, n
  <2> QED BY <1>4 DEF MakeAsset
<1>6. g = MakeAsset(a.kind, p, n, a.cron \/ c, a.controlm, a.sub)
  <2> HIDE DEF f, n
  <2> QED BY <1>4, FieldChanged
<1>7. [a EXCEPT !.project = p, !.name = Drafting!Real(@.key), !.cron = @ \/ c] = g
  BY <1>3, <1>5, Zenon
<1> QED BY <1>6, <1>7, Zenon

\* and the name and the sub-domain of an application.
LEMMA AppChanged ==
  ASSUME NEW a, IsAsset(a), NEW h
  PROVE  [a EXCEPT !.name = IF @ = NoText /\ h.key # NoText THEN Drafting!Real(h.key) ELSE @,
                   !.sub = IF @ = NoText THEN h.sub ELSE @]
         = MakeAsset(a.kind, a.project,
                     IF a.name = NoText /\ h.key # NoText THEN Drafting!Real(h.key) ELSE a.name,
                     a.cron, a.controlm, IF a.sub = NoText THEN h.sub ELSE a.sub)
<1> DEFINE n == IF a.name = NoText /\ h.key # NoText THEN Drafting!Real(h.key) ELSE a.name
           v == IF a.sub = NoText THEN h.sub ELSE a.sub
           e == [a EXCEPT !.name = n]
           f == [e EXCEPT !.sub = v]
<1>1. a = MakeAsset(a.kind, a.project, a.name, a.cron, a.controlm, a.sub)
  BY DEF IsAsset
<1>2. e = MakeAsset(a.kind, a.project, n, a.cron, a.controlm, a.sub)
  BY <1>1, FieldChanged
<1>3. e.sub = a.sub
  BY <1>2 DEF MakeAsset
<1>4. [a EXCEPT !.name = IF @ = NoText /\ h.key # NoText THEN Drafting!Real(h.key) ELSE @,
                !.sub = IF @ = NoText THEN h.sub ELSE @] = f
  BY <1>2, <1>3, Zenon
<1>5. f = MakeAsset(a.kind, a.project, n, a.cron, a.controlm, v)
  <2> HIDE DEF e, n, v
  <2> QED BY <1>2, FieldChanged
<1> QED BY <1>2, <1>5, <1>4, Zenon

\* An asset has the fields it is made of.
LEMMA AssetFields ==
  ASSUME NEW kind, NEW project, NEW name, NEW cron, NEW controlm, NEW sub
  PROVE  LET a == MakeAsset(kind, project, name, cron, controlm, sub)
         IN /\ a.kind = kind /\ a.project = project /\ a.name = name /\ a.cron = cron
            /\ a.controlm = controlm /\ a.sub = sub
            /\ kind \in {"job", "app"} /\ Named(project) /\ Named(name) /\ cron \in BOOLEAN => IsAsset(a)
<1> DEFINE a == MakeAsset(kind, project, name, cron, controlm, sub)
<1>1. /\ a.kind = kind /\ a.project = project /\ a.name = name /\ a.cron = cron
      /\ a.controlm = controlm /\ a.sub = sub
  BY DEF MakeAsset
<1> QED BY <1>1 DEF IsAsset

\* A name as a platform spells it is a name.
LEMMA RealIs ==
  ASSUME NEW k
  PROVE  /\ Drafting!Real(k).key = k /\ Drafting!Real(k).real
         /\ NoText \notin {k, Drafting!Real(k)} => Named(Drafting!Real(k)) /\ Drafting!Key(Drafting!Real(k)) = k
<1>1. Drafting!Real(k) = [key |-> k, real |-> TRUE] /\ Drafting!Real(k).key = k /\ Drafting!Real(k).real
  BY DEF Drafting!Real
<1> QED BY <1>1 DEF Named, Drafting!Key

\* A name that is given has a key, and is a platform's when it is real.
LEMMA NamedIs ==
  ASSUME NEW x, Named(x), x # NoText
  PROVE  /\ NoText # x.key /\ Drafting!Key(x) = x.key /\ NoText # Drafting!Real(x.key)
         /\ x.real => x = Drafting!Real(x.key)
         /\ Named(Drafting!Real(x.key)) /\ Drafting!Key(Drafting!Real(x.key)) = x.key
<1>1. x = [key |-> x.key, real |-> x.real] /\ x.real \in BOOLEAN /\ NoText \notin {x.key, Drafting!Real(x.key)}
  BY DEF Named
<1>2. x.real => x = Drafting!Real(x.key)
  BY <1>1 DEF Drafting!Real
<1>3. Drafting!Key(x) = x.key
  BY DEF Drafting!Key
<1>4. Named(Drafting!Real(x.key)) /\ Drafting!Key(Drafting!Real(x.key)) = x.key
  BY <1>1, RealIs
<1> QED BY <1>1, <1>2, <1>3, <1>4

\* What a platform is that a draft is checked against.
LEMMA PlatformHas ==
  ASSUME NEW c \in Platforms, NEW k \in DOMAIN c.projects
  PROVE  /\ c.projects[k] # Unset /\ k # NoText /\ Drafting!Real(k) # NoText
         /\ \A j \in c.projects[k].jobs : /\ j # Unset /\ j.cron \in BOOLEAN
                                         /\ NoText \notin {j.key, Drafting!Real(j.key)}
         /\ \A a \in c.projects[k].apps : NoText # Drafting!Real(a.key)
BY DraftsAssumption

\* Settling a name keeps its key; a name of a project that is listed is real.
LEMMA SettledKeeps ==
  ASSUME NEW c \in Platforms, NEW x, Named(x), NEW y, y = Drafting!Settled(c, x)
  PROVE  /\ Named(y) /\ Drafting!Key(y) = Drafting!Key(x) /\ (y = NoText <=> x = NoText)
         /\ x # NoText /\ x.real => y = x
         /\ c.listed /\ Drafting!Key(x) \in DOMAIN c.projects => y # NoText /\ y = Drafting!Real(y.key)
<1>1. CASE x = NoText
  <2>1. y = NoText /\ Drafting!Key(x) = NoText
    BY <1>1 DEF Drafting!Settled, Drafting!Key
  <2>2. NoText \notin DOMAIN c.projects
    BY PlatformHas
  <2> QED BY <1>1, <2>1, <2>2
<1>2. CASE x # NoText /\ c.listed /\ x.key \in DOMAIN c.projects
  <2>1. y = Drafting!Real(x.key)
    BY <1>2 DEF Drafting!Settled
  <2>2. y.key = x.key
    BY <2>1, RealIs
  <2> QED BY <1>2, <2>1, <2>2, NamedIs
<1>3. CASE x # NoText /\ ~(c.listed /\ x.key \in DOMAIN c.projects)
  <2>1. y = x
    BY <1>3 DEF Drafting!Settled
  <2>2. Drafting!Key(x) = x.key
    BY <1>3, NamedIs
  <2> QED BY <1>3, <2>1, <2>2
<1> QED BY <1>1, <1>2, <1>3

\* What is settled is settled.
LEMMA SettledStays ==
  ASSUME NEW c \in Platforms, NEW x, Named(x)
  PROVE  Drafting!Settled(c, Drafting!Settled(c, x)) = Drafting!Settled(c, x)
<1>1. CASE x # NoText /\ c.listed /\ x.key \in DOMAIN c.projects
  <2>1. Drafting!Settled(c, x) = Drafting!Real(x.key)
    BY <1>1 DEF Drafting!Settled
  <2>2. Drafting!Real(x.key).key = x.key
    BY RealIs
  <2>3. Drafting!Settled(c, Drafting!Real(x.key)) = Drafting!Real(x.key)
    BY <2>2 DEF Drafting!Settled
  <2> QED BY <2>1, <2>3
<1>2. CASE ~(x # NoText /\ c.listed /\ x.key \in DOMAIN c.projects)
  <2>1. Drafting!Settled(c, x) = x
    BY <1>2 DEF Drafting!Settled
  <2> QED BY <2>1
<1> QED BY <1>1, <1>2

\* The project that was fetched is one CML has under that name.
LEMMA FetchedIs ==
  ASSUME NEW c \in Platforms, NEW x, Named(x), NEW p, p = Drafting!Fetched(c, x)
  PROVE  /\ p # Unset => /\ CanRead(c, Drafting!Key(x)) /\ p = c.projects[Drafting!Key(x)]
                         /\ x # NoText /\ x = Drafting!Real(x.key)
         /\ x # NoText /\ x.real /\ CanRead(c, Drafting!Key(x)) => p # Unset
<1>0. x # NoText => Drafting!Key(x) = x.key /\ (x.real => x = Drafting!Real(x.key))
  BY NamedIs
<1>1. CASE x # NoText /\ x.real /\ CanRead(c, x.key)
  <2>1. p = c.projects[x.key] /\ x.key \in DOMAIN c.projects
    BY <1>1 DEF Drafting!Fetched, CanRead
  <2>2. p # Unset
    BY <2>1, PlatformHas
  <2> QED BY <1>0, <1>1, <2>1, <2>2
<1>2. CASE ~(x # NoText /\ x.real /\ CanRead(c, x.key))
  <2>1. p = Unset
    BY <1>2 DEF Drafting!Fetched, CanRead
  <2> QED BY <1>0, <1>2, <2>1
<1> QED BY <1>1, <1>2

\* An asset has its fields.
LEMMA AssetIs ==
  ASSUME NEW a, IsAsset(a)
  PROVE  /\ a = MakeAsset(a.kind, a.project, a.name, a.cron, a.controlm, a.sub)
         /\ a.kind \in {"job", "app"} /\ Named(a.project) /\ Named(a.name) /\ a.cron \in BOOLEAN
BY DEF IsAsset

\* The jobs of a name depend on what is left of the name.
LEMMA HitsByKey ==
  ASSUME NEW project, NEW x, NEW y, Named(x), Named(y), Drafting!Key(x) = Drafting!Key(y)
  PROVE  Drafting!JobHits(project, x) = Drafting!JobHits(project, y)
<1>1. CASE x = NoText
  <2>1. y = NoText
    BY <1>1, NamedIs DEF Drafting!Key
  <2> QED BY <1>1, <2>1
<1>2. CASE x # NoText
  <2>1. y # NoText
    BY <1>2, NamedIs DEF Drafting!Key
  <2>2. x.key = y.key
    BY <1>2, <2>1, NamedIs
  <2> QED BY <1>2, <2>1, <2>2 DEF Drafting!JobHits
<1> QED BY <1>1, <1>2

\* What a check keeps of an asset: what it has been given.
Keeps(a, b) ==
  /\ IsAsset(b) /\ b.kind = a.kind
  /\ a.kind = "job" => Drafting!Key(b.name) = Drafting!Key(a.name)
  /\ a.name # NoText => Drafting!Key(b.name) = Drafting!Key(a.name)
  /\ a.sub # NoText => b.sub = a.sub

\* Filling the gaps of an asset leaves what is there.
LEMMA FilledIs ==
  ASSUME NEW c \in Platforms, NEW k \in DOMAIN c.projects, NEW a, IsAsset(a),
         NEW b, b = Drafting!Filled(c.projects[k], a)
  PROVE  Keeps(a, b) /\ b.project = a.project
<1> DEFINE p == c.projects[k]
           job == Drafting!JobHits(p, a.name)
           app == Drafting!AppHits(p, a)
<1>1. CASE a.kind = "job" /\ job # {}
  <2> DEFINE cr == a.cron \/ Drafting!Hit(job).cron
  <2>1. b = [a EXCEPT !.name = Drafting!Real(@.key), !.cron = @ \/ Drafting!Hit(job).cron]
    BY <1>1, Zenon DEF Drafting!Filled
  <2>2. b = MakeAsset(a.kind, a.project, Drafting!Real(a.name.key), cr, a.controlm, a.sub)
    BY <2>1, JobChanged, Zenon
  <2>3. a.name # NoText
    BY <1>1 DEF Drafting!JobHits
  <2>4. /\ Named(Drafting!Real(a.name.key)) /\ Drafting!Real(a.name.key).key = a.name.key
        /\ Drafting!Key(Drafting!Real(a.name.key)) = Drafting!Key(a.name)
    BY <2>3, NamedIs, AssetIs, RealIs
  <2>5. cr \in BOOLEAN
    OBVIOUS
  <2> HIDE DEF cr
  <2>6. IsAsset(b) /\ b.kind = a.kind /\ b.project = a.project /\ b.name = Drafting!Real(a.name.key) /\ b.sub = a.sub
    BY <2>2, <2>4, <2>5, AssetIs, AssetFields
  <2> QED BY <2>3, <2>4, <2>6 DEF Keeps
<1>2. CASE a.kind = "app" /\ app # {}
  <2> DEFINE h == Drafting!Hit(app)
             x == IF a.name = NoText /\ h.key # NoText THEN Drafting!Real(h.key) ELSE a.name
             s == IF a.sub = NoText THEN h.sub ELSE a.sub
  <2>1. b = [a EXCEPT !.name = IF @ = NoText /\ h.key # NoText THEN Drafting!Real(h.key) ELSE @,
                      !.sub = IF @ = NoText THEN h.sub ELSE @]
    BY <1>2, Zenon DEF Drafting!Filled
  <2>2. b = MakeAsset(a.kind, a.project, x, a.cron, a.controlm, s)
    <3> HIDE DEF h
    <3> QED BY <2>1, AppChanged, Zenon
  <2>3. h \in app
    BY <1>2 DEF Drafting!Hit
  <2>4. app \subseteq p.apps
    BY DEF Drafting!AppHits, Drafting!ServedAt
  <2>5. NoText # Drafting!Real(h.key)
    <3> HIDE DEF app, h
    <3> QED BY <2>3, <2>4, PlatformHas
  <2> HIDE DEF h
  <2>6. Named(x) /\ (a.name # NoText => x = a.name) /\ (a.sub # NoText => s = a.sub)
    BY <2>5, AssetIs, RealIs
  <2> HIDE DEF x, s
  <2>7. IsAsset(b) /\ b.kind = a.kind /\ b.project = a.project /\ b.name = x /\ b.sub = s
    BY <2>2, <2>6, AssetIs, AssetFields
  <2> QED BY <1>2, <2>6, <2>7 DEF Keeps
<1>3. CASE ~(a.kind = "job" /\ job # {}) /\ ~(a.kind = "app" /\ app # {})
  <2>1. b = a
    BY <1>3, Zenon DEF Drafting!Filled
  <2> QED BY <2>1 DEF Keeps
<1> QED BY <1>1, <1>2, <1>3

\* A job that the project has is spelled its way, with its schedule.
LEMMA FilledJob ==
  ASSUME NEW p, NEW a, IsAsset(a), NEW b, b = Drafting!Filled(p, a),
         a.kind = "job", Drafting!JobHits(p, a.name) # {}
  PROVE  /\ b.name = Drafting!Real(a.name.key) /\ a.name # NoText
         /\ b.cron = (a.cron \/ Drafting!Hit(Drafting!JobHits(p, a.name)).cron)
<1> DEFINE job == Drafting!JobHits(p, a.name)
           cr == a.cron \/ Drafting!Hit(job).cron
<1>1. b = [a EXCEPT !.name = Drafting!Real(@.key), !.cron = @ \/ Drafting!Hit(job).cron]
  BY Zenon DEF Drafting!Filled
<1>2. b = MakeAsset(a.kind, a.project, Drafting!Real(a.name.key), cr, a.controlm, a.sub)
  BY <1>1, JobChanged, Zenon
<1>3. b.name = Drafting!Real(a.name.key) /\ b.cron = cr
  <2> HIDE DEF cr
  <2> QED BY <1>2, AssetFields
<1>4. a.name # NoText
  BY DEF Drafting!JobHits
<1> QED BY <1>3, <1>4

\* A job that is spelled as the project has it, with its schedule, is filled.
LEMMA JobIsFilled ==
  ASSUME NEW p, NEW a, IsAsset(a), a.kind = "job", a.name # NoText => a.name.real,
         Drafting!JobHits(p, a.name) # {} => (Drafting!Hit(Drafting!JobHits(p, a.name)).cron => a.cron)
  PROVE  Drafting!Filled(p, a) = a
<1> DEFINE job == Drafting!JobHits(p, a.name)
           cr == a.cron \/ Drafting!Hit(job).cron
<1>1. CASE job # {}
  <2>1. Drafting!Filled(p, a) = [a EXCEPT !.name = Drafting!Real(@.key), !.cron = @ \/ Drafting!Hit(job).cron]
    BY <1>1, Zenon DEF Drafting!Filled
  <2>2. Drafting!Filled(p, a) = MakeAsset(a.kind, a.project, Drafting!Real(a.name.key), cr, a.controlm, a.sub)
    BY <2>1, JobChanged, Zenon
  <2>3. a.name # NoText
    BY <1>1 DEF Drafting!JobHits
  <2>4. Drafting!Real(a.name.key) = a.name
    BY <2>3, NamedIs, AssetIs
  <2>5. cr = a.cron
    <3>1. a.cron \in BOOLEAN
      BY AssetIs
    <3> HIDE DEF job
    <3> QED BY <1>1, <3>1 DEF job
  <2> HIDE DEF cr
  <2> QED BY <2>2, <2>4, <2>5, AssetIs
<1>2. CASE job = {}
  BY <1>2, Zenon DEF Drafting!Filled
<1> QED BY <1>1, <1>2

\* An asset is as it was, but that an application has a name.
NamesOnly(a, b) == b = a \/ (a.kind = "app" /\ a.name = NoText /\ b = [a EXCEPT !.name = b.name])

\* An application whose sub-domain the project serves may get its name.
LEMMA AppIsFilled ==
  ASSUME NEW p, NEW a, IsAsset(a), a.kind = "app", Drafting!ServedAt(p, a.sub) # {},
         NEW b, b = Drafting!Filled(p, a)
  PROVE  NamesOnly(a, b)
<1> DEFINE app == Drafting!AppHits(p, a)
           h == Drafting!Hit(app)
           x == IF a.name = NoText /\ h.key # NoText THEN Drafting!Real(h.key) ELSE a.name
           s == IF a.sub = NoText THEN h.sub ELSE a.sub
<1>1. app # {} /\ a.sub # NoText
  BY DEF Drafting!AppHits, Drafting!ServedAt
<1>2. b = [a EXCEPT !.name = IF @ = NoText /\ h.key # NoText THEN Drafting!Real(h.key) ELSE @,
                    !.sub = IF @ = NoText THEN h.sub ELSE @]
  BY <1>1, Zenon DEF Drafting!Filled
<1>3. b = MakeAsset(a.kind, a.project, x, a.cron, a.controlm, s)
  <2> HIDE DEF h
  <2> QED BY <1>2, AppChanged, Zenon
<1>4. s = a.sub
  BY <1>1
<1>5. a.name # NoText => x = a.name
  OBVIOUS
<1> HIDE DEF x, s
<1>6. b = MakeAsset(a.kind, a.project, x, a.cron, a.controlm, a.sub) /\ b.name = x
  BY <1>3, <1>4, AssetFields
<1>7. [a EXCEPT !.name = x] = MakeAsset(a.kind, a.project, x, a.cron, a.controlm, a.sub)
  BY AssetIs, FieldChanged
<1>8. b = [a EXCEPT !.name = b.name]
  BY <1>6, <1>7, Zenon
<1>9. a.name # NoText => b = a
  BY <1>5, <1>6, AssetIs
<1> QED BY <1>8, <1>9 DEF NamesOnly

\* The changes of an asset that a check makes, one after the other.
Respelt(c, a) == [a EXCEPT !.project = Drafting!Settled(c, @)]

Completed(c, binding, a) ==
  IF Drafting!Fetched(c, binding) # Unset /\ (a.project = NoText \/ Drafting!Key(a.project) = Drafting!Key(binding))
  THEN Drafting!Filled(Drafting!Fetched(c, binding), a) ELSE a

\* An asset that is respelt is the same but for the spelling of its project.
LEMMA RespeltIs ==
  ASSUME NEW c \in Platforms, NEW a, IsAsset(a), NEW b, b = Respelt(c, a)
  PROVE  /\ IsAsset(b) /\ b.kind = a.kind /\ b.name = a.name /\ b.cron = a.cron /\ b.sub = a.sub
         /\ b.project = Drafting!Settled(c, a.project)
<1>1. b = MakeAsset(a.kind, Drafting!Settled(c, a.project), a.name, a.cron, a.controlm, a.sub)
  BY AssetIs, FieldChanged DEF Respelt
<1>2. Named(Drafting!Settled(c, a.project))
  BY AssetIs, SettledKeeps
<1> QED BY <1>1, <1>2, AssetIs, AssetFields

\* Completing an asset leaves what is there.
LEMMA CompletedIs ==
  ASSUME NEW c \in Platforms, NEW x, Named(x), NEW a, IsAsset(a), NEW b, b = Completed(c, x, a)
  PROVE  Keeps(a, b) /\ b.project = a.project
<1>1. CASE Drafting!Fetched(c, x) # Unset /\ b = Drafting!Filled(Drafting!Fetched(c, x), a)
  <2>1. Drafting!Key(x) \in DOMAIN c.projects /\ Drafting!Fetched(c, x) = c.projects[Drafting!Key(x)]
    BY <1>1, FetchedIs DEF CanRead
  <2>2. Keeps(a, b) /\ b.project = a.project
    BY <1>1, <2>1, FilledIs
  <2> QED BY <2>2
<1>2. CASE b = a
  BY <1>2 DEF Keeps
<1> QED BY <1>1, <1>2 DEF Completed

\* The questions that are asked before other projects are looked at.
EnrichedAsks(c, d) ==
  LET spelled == Drafting!Spelled(c, d)
      project == Drafting!Fetched(c, spelled.binding)
      mine == IF project = Unset THEN {}
              ELSE {n \in DOMAIN d.assets : Drafting!Follows(spelled, spelled.assets[n])}
  IN {Drafting!Question(n, "name") : n \in {k \in mine : Drafting!Unmatched(project, spelled.assets[k])}}

\* A draft that is enriched has each of its assets respelt and completed, and
\* asks about those that the project of the draft has not.
LEMMA EnrichedIs ==
  ASSUME NEW c \in Platforms, NEW d, IsDraft(d), NEW r, r = Drafting!Enriched(c, d)
  PROVE  /\ IsDraft(r.draft) /\ DOMAIN r.draft.assets = DOMAIN d.assets
         /\ r.draft.binding = Drafting!Settled(c, d.binding)
         /\ \A n \in DOMAIN d.assets :
              r.draft.assets[n] = Completed(c, r.draft.binding, Respelt(c, d.assets[n]))
         /\ EnrichedAsks(c, d) \subseteq r.asked
<1> DEFINE D == DOMAIN d.assets
           x == Drafting!Settled(c, d.binding)
           s == Drafting!Spelled(c, d)
           project == Drafting!Fetched(c, x)
           mine == IF project = Unset THEN {} ELSE {n \in D : Drafting!Follows(s, s.assets[n])}
           filled == [n \in D |-> IF n \in mine THEN Drafting!Filled(project, s.assets[n]) ELSE s.assets[n]]
           scheduled == {Drafting!Question(n, "cron") : n \in {k \in mine : filled[k].cron}}
           asks == {Drafting!Question(n, "name") : n \in {k \in mine : Drafting!Unmatched(project, s.assets[k])}}
           spelt == [n \in D |-> Respelt(c, d.assets[n])]
<1>1. s = [binding |-> x, assets |-> spelt]
  BY DEF Drafting!Spelled, Drafting!Places, Respelt
<1>2. s.binding = x /\ s.assets = spelt
  BY <1>1
<1> HIDE DEF s
<1>3. r = [draft |-> [s EXCEPT !.assets = filled],
           asked |-> (Drafting!Offline(d) \ scheduled) \cup Drafting!UnknownProjects(c, d) \cup asks]
  BY <1>2, Zenon DEF Drafting!Enriched, Drafting!Places, s
<1>4. EnrichedAsks(c, d) = asks
  BY <1>2, Zenon DEF EnrichedAsks, s
<1> HIDE DEF asks, scheduled
<1>5. EnrichedAsks(c, d) \subseteq r.asked
  <2> HIDE DEF filled
  <2> QED BY <1>3, <1>4
<1>6. r.draft = [binding |-> x, assets |-> filled]
  <2> HIDE DEF filled
  <2>1. r.draft = [s EXCEPT !.assets = filled]
    BY <1>3
  <2> QED BY <1>1, <2>1
<1>7. r.draft.binding = x /\ r.draft.assets = filled /\ r.draft = [binding |-> x, assets |-> filled]
  <2> HIDE DEF filled
  <2> QED BY <1>6
<1>8. ASSUME NEW n \in D
      PROVE  filled[n] = Completed(c, x, Respelt(c, d.assets[n])) /\ IsAsset(filled[n])
  <2> DEFINE a == Respelt(c, d.assets[n])
  <2>1. s.assets[n] = a
    BY <1>2
  <2>2. filled[n] = IF n \in mine THEN Drafting!Filled(project, a) ELSE a
    BY <2>1
  <2>3. n \in mine <=> project # Unset /\ (a.project = NoText \/ Drafting!Key(a.project) = Drafting!Key(x))
    <3>1. Drafting!Follows(s, a) <=> a.project = NoText \/ Drafting!Key(a.project) = Drafting!Key(x)
      BY <1>2 DEF Drafting!Follows
    <3> HIDE DEF a, project, x
    <3> QED BY <2>1, <3>1
  <2>4. filled[n] = Completed(c, x, a)
    <3> HIDE DEF a, mine, filled
    <3> QED BY <2>2, <2>3 DEF Completed
  <2>5. IsAsset(a) /\ Named(x)
    BY RespeltIs, SettledKeeps DEF IsDraft
  <2>6. IsAsset(Completed(c, x, a))
    <3> HIDE DEF a, x
    <3> QED BY <2>5, CompletedIs DEF Keeps
  <2> QED BY <2>4, <2>6
<1>9. Named(x) /\ \E k \in Nat : D = 1..k
  BY SettledKeeps DEF IsDraft
<1>10. DOMAIN filled = D /\ filled = [n \in D |-> filled[n]]
  OBVIOUS
<1> HIDE DEF filled, x
<1>11. IsDraft(r.draft)
  BY <1>7, <1>8, <1>9, <1>10 DEF IsDraft
<1> QED BY <1>5, <1>7, <1>8, <1>10, <1>11 DEF x

\* The names that are mentioned are those the document links to, that of the
\* binding and those of the projects of the assets.
LEMMA MentionsAre ==
  ASSUME NEW docs, Listed(docs), NEW d, IsDraft(d), NEW m, m = Drafting!Mentions(docs, d)
  PROVE  /\ DOMAIN m \subseteq Nat
         /\ \A n \in DOMAIN m : \/ \E i \in DOMAIN docs : m[n] = docs[i]
                                \/ m[n] = d.binding
                                \/ \E i \in DOMAIN d.assets : m[n] = d.assets[i].project
         /\ \E n \in DOMAIN m : m[n] = d.binding
         /\ \A i \in DOMAIN d.assets : \E n \in DOMAIN m : m[n] = d.assets[i].project
<1> DEFINE own == [n \in DOMAIN d.assets |-> d.assets[n].project]
           S == {d.binding} \cup Range(own) \cup Range(docs)
<1>1. docs \in Seq(S)
  <2>1. Range(docs) \subseteq S
    OBVIOUS
  <2> HIDE DEF S
  <2> QED BY <2>1 DEF Listed
<1>2. PICK k \in Nat : DOMAIN d.assets = 1..k
  BY DEF IsDraft
<1>3. own \in Seq(S) /\ Len(own) = k /\ DOMAIN own = 1..k
  <2>1. \A n \in 1..k : own[n] \in S
    BY <1>2 DEF Range
  <2>2. DOMAIN own = 1..k /\ own = [n \in 1..k |-> own[n]]
    BY <1>2
  <2> HIDE DEF own, S
  <2> QED BY <2>1, <2>2
<1>4. <<d.binding>> \in Seq(S) /\ Len(<<d.binding>>) = 1 /\ <<d.binding>>[1] = d.binding
  OBVIOUS
<1>5. m = docs \o <<d.binding>> \o own
  BY DEF Drafting!Mentions, Drafting!Places
<1> DEFINE one == <<d.binding>>
           l == Len(docs)
<1>6. l \in Nat /\ DOMAIN docs = 1..l
  <2> HIDE DEF S
  <2> QED BY <1>1
<1> HIDE DEF own, S
<1>7. DOMAIN m = 1..(l + 1 + k)
  BY <1>1, <1>3, <1>4, <1>5
<1>8. \A n \in 1..l : m[n] = docs[n]
  BY <1>1, <1>3, <1>4, <1>5
<1>9. m[l + 1] = d.binding
  BY <1>1, <1>3, <1>4, <1>5
<1>10. \A n \in 1..k : m[l + 1 + n] = own[n]
  BY <1>1, <1>3, <1>4, <1>5
<1>11. \A i \in 1..k : own[i] = d.assets[i].project
  BY <1>2 DEF own
<1> HIDE DEF l
<1>12. \A n \in 1..(l + 1 + k) : n \in 1..l \/ n = l + 1 \/ \E i \in 1..k : n = l + 1 + i
  <2> SUFFICES ASSUME NEW n \in 1..(l + 1 + k), ~(n \in 1..l), n # l + 1 PROVE \E i \in 1..k : n = l + 1 + i
    OBVIOUS
  <2>1. n - (l + 1) \in 1..k /\ n = l + 1 + (n - (l + 1))
    BY <1>2, <1>6
  <2> QED BY <2>1
<1>13. l + 1 \in DOMAIN m /\ \A i \in 1..k : l + 1 + i \in DOMAIN m
  BY <1>2, <1>6, <1>7
<1>14. \A n \in DOMAIN m : \/ \E i \in DOMAIN docs : m[n] = docs[i]
                           \/ m[n] = d.binding
                           \/ \E i \in DOMAIN d.assets : m[n] = d.assets[i].project
  <2> SUFFICES ASSUME NEW n \in DOMAIN m
               PROVE  \/ \E i \in DOMAIN docs : m[n] = docs[i]
                      \/ m[n] = d.binding
                      \/ \E i \in DOMAIN d.assets : m[n] = d.assets[i].project
    OBVIOUS
  <2>1. CASE n \in 1..l
    BY <1>6, <1>8, <2>1
  <2>2. CASE n = l + 1
    BY <1>9, <2>2
  <2>3. CASE \E i \in 1..k : n = l + 1 + i
    BY <1>2, <1>10, <1>11, <2>3
  <2> QED BY <1>7, <1>12, <2>1, <2>2, <2>3
<1>15. \A i \in DOMAIN d.assets : \E n \in DOMAIN m : m[n] = d.assets[i].project
  BY <1>2, <1>10, <1>11, <1>13
<1>16. DOMAIN m \subseteq Nat
  BY <1>6, <1>7
<1> QED BY <1>9, <1>13, <1>14, <1>15, <1>16

\* Every name that is mentioned is a name.
AllNamed(m) == DOMAIN m \subseteq Nat /\ \A n \in DOMAIN m : Named(m[n])

\* The spelling that is fetched of a key is one that is mentioned.
LEMMA SpellingIs ==
  ASSUME NEW m, AllNamed(m), NEW i \in DOMAIN m, NEW k, k = Drafting!Key(m[i])
  PROVE  \E n \in DOMAIN m : Drafting!Spelling(m, k) = m[n] /\ Drafting!Key(m[n]) = k
<1> DEFINE at == {n \in DOMAIN m : Drafting!Key(m[n]) = k}
<1>1. at \in SUBSET Nat /\ at # {}
  BY DEF AllNamed
<1>2. Drafting!Min(at) \in at
  <2> HIDE DEF at
  <2>1. Min(at) \in at
    BY <1>1, Least
  <2> QED BY <2>1, DraftMin
<1>3. Drafting!Spelling(m, k) = m[Drafting!Min(at)]
  BY DEF Drafting!Spelling
<1>4. \A n \in at : n \in DOMAIN m /\ Drafting!Key(m[n]) = k
  OBVIOUS
<1> HIDE DEF at
<1> QED BY <1>2, <1>3, <1>4

\* A project is a place to look if its name, as the first mention spells it, was
\* fetched; so is one that is always spelled as CML does.
LEMMA EvidenceIs ==
  ASSUME NEW c \in Platforms, NEW m, AllNamed(m), NEW k
  PROVE  /\ k \in Drafting!Evidence(c, m) =>
              /\ CanRead(c, k) /\ Drafting!Spelling(m, k) = Drafting!Real(k)
              /\ Named(Drafting!Spelling(m, k)) /\ Drafting!Spelling(m, k) # NoText
         /\ CanRead(c, k) /\ (\E n \in DOMAIN m : Drafting!Key(m[n]) = k)
              /\ (\A n \in DOMAIN m : Drafting!Key(m[n]) = k => m[n].real)
              => k \in Drafting!Evidence(c, m)
<1> DEFINE x == Drafting!Spelling(m, k)
<1>1. k \in Drafting!Evidence(c, m) <=>
        (\E n \in DOMAIN m : Drafting!Key(m[n]) = k) /\ Drafting!Fetched(c, x) # Unset
  BY DEF Drafting!Evidence
<1>2. CASE ~ \E n \in DOMAIN m : Drafting!Key(m[n]) = k
  BY <1>1, <1>2
<1>3. CASE \E n \in DOMAIN m : Drafting!Key(m[n]) = k
  <2>1. PICK i \in DOMAIN m : x = m[i] /\ Drafting!Key(m[i]) = k
    BY <1>3, SpellingIs
  <2>2. Named(x) /\ Drafting!Key(x) = k
    BY <2>1 DEF AllNamed
  <2> HIDE DEF x
  <2>3. Drafting!Fetched(c, x) # Unset => CanRead(c, k) /\ x # NoText /\ x = Drafting!Real(x.key)
    BY <2>2, FetchedIs
  <2>4. x # NoText => x.key = k
    BY <2>2, NamedIs
  <2>5. x # NoText /\ x.real /\ CanRead(c, k) => Drafting!Fetched(c, x) # Unset
    BY <2>2, FetchedIs
  <2>6. CanRead(c, k) => x # NoText
    BY <2>2, PlatformHas DEF CanRead, Drafting!Key
  <2> QED BY <1>1, <1>3, <2>1, <2>2, <2>3, <2>4, <2>5, <2>6 DEF x
<1> QED BY <1>2, <1>3

\* The homes of an asset are the places that have it.
LEMMA HomesAre ==
  ASSUME NEW c, NEW places, NEW a, NEW k
  PROVE  k \in Drafting!Homes(c, places, a) <=> k \in places /\ Has(c, k, a)
<1> DEFINE has(j) == IF a.kind = "job" THEN Drafting!JobHits(c.projects[j], a.name) # {}
                     ELSE Drafting!ServedAt(c.projects[j], a.sub) # {}
<1>1. Drafting!Homes(c, places, a) = {j \in places : has(j)} /\ Drafting!Homes(c, {k}, a) = {j \in {k} : has(j)}
  BY Zenon DEF Drafting!Homes
<1> HIDE DEF has
<1> QED BY <1>1 DEF Has

\* Whether a project has an asset.
LEMMA HasIs ==
  ASSUME NEW c, NEW k, NEW a
  PROVE  /\ a.kind = "job" => (Has(c, k, a) <=> Drafting!JobHits(c.projects[k], a.name) # {})
         /\ a.kind # "job" => (Has(c, k, a) <=> Drafting!ServedAt(c.projects[k], a.sub) # {})
<1>1. CASE a.kind = "job"
  BY <1>1 DEF Has, Drafting!Homes
<1>2. CASE a.kind # "job"
  BY <1>2 DEF Has, Drafting!Homes
<1> QED BY <1>1, <1>2

\* A project that has an asset has it after a check, and has a job after a
\* check only if it has it before.
LEMMA KeepsHas ==
  ASSUME NEW c, NEW k, NEW a, IsAsset(a), NEW b, Keeps(a, b)
  PROVE  /\ Has(c, k, a) => Has(c, k, b)
         /\ a.kind = "job" => (Has(c, k, b) <=> Has(c, k, a))
<1>1. CASE a.kind = "job"
  <2>1. b.kind = "job" /\ Named(a.name) /\ Named(b.name) /\ Drafting!Key(a.name) = Drafting!Key(b.name)
    BY <1>1, AssetIs DEF Keeps
  <2>2. Drafting!JobHits(c.projects[k], a.name) = Drafting!JobHits(c.projects[k], b.name)
    BY <2>1, HitsByKey
  <2> QED BY <1>1, <2>1, <2>2, HasIs
<1>2. CASE a.kind # "job"
  <2>1. b.kind # "job" /\ (a.sub # NoText => b.sub = a.sub)
    BY <1>2 DEF Keeps
  <2>2. a.sub = NoText => Drafting!ServedAt(c.projects[k], a.sub) = {}
    BY DEF Drafting!ServedAt
  <2> QED BY <1>2, <2>1, <2>2, HasIs
<1> QED BY <1>1, <1>2

\* Whether an asset is moved.
Leaves(c, m, d, n) ==
  Drafting!Moves(Drafting!Homes(c, Drafting!Evidence(c, m), d.assets[n]),
                 Drafting!Key(Drafting!Effective(d, d.assets[n])))

\* Where it is moved to: the project that has it.
HomeFor(c, m, d, n) ==
  Drafting!Hit(Drafting!Homes(c, Drafting!Evidence(c, m), d.assets[n])
                 \ {Drafting!Key(Drafting!Effective(d, d.assets[n]))})

\* An asset that is moved is moved to a project that has it and could be fetched.
LEMMA LeavesIs ==
  ASSUME NEW c, NEW m, NEW d, NEW n, Leaves(c, m, d, n), NEW h, h = HomeFor(c, m, d, n)
  PROVE  /\ h \in Drafting!Evidence(c, m) /\ Has(c, h, d.assets[n])
         /\ h # Drafting!Key(Drafting!Effective(d, d.assets[n]))
<1> DEFINE homes == Drafting!Homes(c, Drafting!Evidence(c, m), d.assets[n])
           b == Drafting!Key(Drafting!Effective(d, d.assets[n]))
<1>1. Drafting!Cardinality(homes) = 1 /\ b \notin homes
  BY DEF Leaves, Drafting!Moves
<1>2. h = CHOOSE x \in homes \ {b} : TRUE
  BY DEF HomeFor, Drafting!Hit
<1>3. homes # {}
  <2> HIDE DEF homes
  <2> QED BY <1>1, DraftCard, FS_EmptySet
<1>4. h \in homes
  <2> HIDE DEF homes, b
  <2> QED BY <1>1, <1>2, <1>3
<1> QED BY <1>1, <1>4, HomesAre

\* A draft of the same binding and as many assets.
SameShape(d, x) ==
  /\ x = [binding |-> d.binding, assets |-> x.assets]
  /\ DOMAIN x.assets = DOMAIN d.assets
  /\ x.assets = d.assets \/ x.assets = [n \in DOMAIN d.assets |-> x.assets[n]]

\* An asset stays, with the questions about it, or leaves.
StaysOrLeaves(c, m, d, asked, r, n) ==
  \/ /\ r.draft.assets[n] = d.assets[n]
     /\ \A f : Drafting!Question(n, f) \in asked => Drafting!Question(n, f) \in r.asked
  \/ /\ Leaves(c, m, d, n)
     /\ r.draft.assets[n] = Drafting!MovedTo(c, d.assets[n], Drafting!Spelling(m, HomeFor(c, m, d, n)))

\* Reconciling a draft moves the assets that leave, and else changes nothing; a
\* question about an asset that stays is kept.
LEMMA ReconciledIs ==
  ASSUME NEW c, NEW docs, NEW d, d = [binding |-> d.binding, assets |-> d.assets], NEW asked,
         NEW r, r = Drafting!Reconciled(c, docs, d, asked)
  PROVE  /\ SameShape(d, r.draft)
         /\ \A n \in DOMAIN d.assets : StaysOrLeaves(c, Drafting!Mentions(docs, d), d, asked, r, n)
<1> DEFINE m == Drafting!Mentions(docs, d)
           D == DOMAIN d.assets
           evidence == Drafting!Evidence(c, m)
           homes(n) == Drafting!Homes(c, evidence, d.assets[n])
           bound(n) == Drafting!Effective(d, d.assets[n])
           moved == {n \in D : Drafting!Moves(homes(n), Drafting!Key(bound(n)))}
           torn == {n \in D : Drafting!Torn(homes(n), Drafting!Key(bound(n)))}
           home(n) == Drafting!Spelling(m, Drafting!Hit(homes(n) \ {Drafting!Key(bound(n))}))
           places == {home(n) : n \in moved} \cup {bound(n) : n \in {k \in D : Drafting!Key(bound(k)) \in homes(k)}}
           answered == {Drafting!Question(n, f) : n \in moved, f \in {"name", "project"}}
           split == IF Drafting!Cardinality(places) > 1 THEN {Drafting!Question(0, "split")} ELSE {}
           to == [n \in D |-> IF n \in moved THEN Drafting!MovedTo(c, d.assets[n], home(n)) ELSE d.assets[n]]
           more == {Drafting!Question(n, "project") : n \in torn}
<1>1. Drafting!Reconciled(c, docs, d, asked) =
        IF Drafting!Cardinality(evidence) < 2 THEN [draft |-> d, asked |-> asked]
        ELSE [draft |-> [d EXCEPT !.assets = to], asked |-> (asked \ answered) \cup more \cup split]
  BY DEF Drafting!Reconciled, Drafting!Places
<1>2. CASE Drafting!Cardinality(evidence) < 2
  <2>1. r = [draft |-> d, asked |-> asked]
    <3> HIDE DEF evidence, to, answered, more, split
    <3> QED BY <1>1, <1>2, Zenon
  <2>2. r.draft = d /\ r.asked = asked
    BY <2>1
  <2>3. SameShape(d, r.draft)
    BY <2>2 DEF SameShape
  <2> HIDE DEF m
  <2>4. \A n \in D : StaysOrLeaves(c, m, d, asked, r, n)
    BY <2>2 DEF StaysOrLeaves
  <2> QED BY <2>3, <2>4 DEF m
<1>3. CASE ~(Drafting!Cardinality(evidence) < 2)
  <2> DEFINE dd == [d EXCEPT !.assets = to]
             aa == (asked \ answered) \cup more \cup split
  <2>1. r = [draft |-> dd, asked |-> aa]
    <3> HIDE DEF evidence, to, answered, more, split
    <3> QED BY <1>1, <1>3, Zenon
  <2>2. r.draft = dd /\ r.asked = aa
    <3> HIDE DEF dd, aa
    <3> QED BY <2>1
  <2>3. dd = [binding |-> d.binding, assets |-> to]
    <3> HIDE DEF to
    <3> QED OBVIOUS
  <2>4. DOMAIN to = D /\ to = [n \in D |-> to[n]]
    OBVIOUS
  <2>5. ASSUME NEW n \in D
        PROVE  \/ /\ to[n] = d.assets[n]
                  /\ \A f : Drafting!Question(n, f) \in asked => Drafting!Question(n, f) \in aa
               \/ /\ Leaves(c, m, d, n)
                  /\ to[n] = Drafting!MovedTo(c, d.assets[n], Drafting!Spelling(m, HomeFor(c, m, d, n)))
    <3>1. CASE n \in moved
      <4>1. to[n] = Drafting!MovedTo(c, d.assets[n], home(n))
        BY <3>1
      <4>2. Leaves(c, m, d, n) /\ home(n) = Drafting!Spelling(m, HomeFor(c, m, d, n))
        BY <3>1 DEF Leaves, HomeFor
      <4> QED BY <4>1, <4>2
    <3>2. CASE n \notin moved
      <4>1. to[n] = d.assets[n]
        BY <3>2
      <4>2. \A f : Drafting!Question(n, f) \notin answered
        <5> SUFFICES ASSUME NEW f, Drafting!Question(n, f) \in answered PROVE FALSE
          OBVIOUS
        <5> HIDE DEF moved
        <5>1. PICK k \in moved, g \in {"name", "project"} : Drafting!Question(n, f) = Drafting!Question(k, g)
          OBVIOUS
        <5>2. n = k
          BY <5>1 DEF Drafting!Question
        <5> QED BY <3>2, <5>2
      <4>3. \A f : Drafting!Question(n, f) \in asked => Drafting!Question(n, f) \in aa
        <5> HIDE DEF answered, more, split
        <5> QED BY <4>2
      <4> HIDE DEF to, aa
      <4> QED BY <4>1, <4>3, Zenon
    <3> HIDE DEF to, aa, moved
    <3> QED BY <3>1, <3>2
  <2> HIDE DEF to, aa, dd
  <2>6. r.draft.binding = d.binding /\ r.draft.assets = to /\ r.draft = [binding |-> d.binding, assets |-> to]
    BY <2>2, <2>3
  <2>7. SameShape(d, r.draft)
    BY <2>4, <2>6 DEF SameShape
  <2> HIDE DEF m
  <2>8. \A n \in D : StaysOrLeaves(c, m, d, asked, r, n)
    BY <2>2, <2>5, <2>6, Zenon DEF StaysOrLeaves
  <2> QED BY <2>7, <2>8 DEF m
<1> QED BY <1>2, <1>3

\* What is kept twice is kept.
LEMMA KeepsOn ==
  ASSUME NEW a, IsAsset(a), NEW b, NEW d, Keeps(a, b), Keeps(b, d)
  PROVE  Keeps(a, d)
<1>1. b.name = NoText => Drafting!Key(b.name) = NoText
  BY DEF Drafting!Key
<1>2. a.name # NoText => Drafting!Key(a.name) # NoText
  BY NamedIs, AssetIs
<1> QED BY <1>1, <1>2 DEF Keeps

\* An asset that is moved has its new project and keeps the rest; a job gets the
\* name and the schedule it has there.
LEMMA MovedIs ==
  ASSUME NEW c \in Platforms, NEW h, Named(Drafting!Real(h)), NEW a, IsAsset(a), Has(c, h, a),
         NEW b, b = Drafting!MovedTo(c, a, Drafting!Real(h))
  PROVE  /\ Keeps(a, b) /\ b.project = Drafting!Real(h) /\ (a.kind = "app" => b.name = a.name /\ b.sub = a.sub)
         /\ a.kind = "job" => /\ a.name # NoText /\ b.name = Drafting!Real(a.name.key)
                              /\ b.cron = (a.cron \/ Drafting!Hit(Drafting!JobHits(c.projects[h], a.name)).cron)
<1> DEFINE home == Drafting!Real(h)
           job == Drafting!JobHits(c.projects[h], a.name)
           cr == a.cron \/ Drafting!Hit(job).cron
<1>0. home.key = h
  BY RealIs
<1>1. CASE a.kind = "job"
  <2>1. b = [a EXCEPT !.project = home, !.name = Drafting!Real(@.key), !.cron = @ \/ Drafting!Hit(job).cron]
    <3>1. b = LET hits == Drafting!JobHits(c.projects[home.key], a.name)
              IN [a EXCEPT !.project = home, !.name = Drafting!Real(@.key), !.cron = @ \/ Drafting!Hit(hits).cron]
      BY <1>1, Zenon DEF Drafting!MovedTo
    <3> HIDE DEF home
    <3> QED BY <1>0, <3>1, Zenon
  <2>2. b = MakeAsset(a.kind, home, Drafting!Real(a.name.key), cr, a.controlm, a.sub)
    BY <2>1, JobMoved, Zenon
  <2>3. job # {} /\ a.name # NoText
    BY <1>1, HasIs DEF Drafting!JobHits
  <2>4. /\ Named(Drafting!Real(a.name.key))
        /\ Drafting!Key(Drafting!Real(a.name.key)) = Drafting!Key(a.name)
    BY <2>3, NamedIs, AssetIs
  <2>5. cr \in BOOLEAN
    OBVIOUS
  <2> HIDE DEF cr, home
  <2>6. /\ b.kind = a.kind /\ b.project = home /\ b.name = Drafting!Real(a.name.key)
        /\ b.sub = a.sub /\ b.cron = cr
    BY <2>2, AssetFields
  <2>7. IsAsset(b)
    BY <2>2, <2>4, <2>5, AssetIs, AssetFields DEF home
  <2> QED BY <1>1, <2>3, <2>4, <2>6, <2>7 DEF Keeps, cr, home
<1>2. CASE a.kind = "app"
  <2>1. b = [a EXCEPT !.project = home]
    BY <1>2, Zenon DEF Drafting!MovedTo
  <2> HIDE DEF home
  <2>2. b = MakeAsset(a.kind, home, a.name, a.cron, a.controlm, a.sub)
    BY <2>1, AssetIs, FieldChanged
  <2>3. b.kind = a.kind /\ b.project = home /\ b.name = a.name /\ b.sub = a.sub
    BY <2>2, AssetFields
  <2>4. IsAsset(b)
    BY <2>2, AssetIs, AssetFields DEF home
  <2> QED BY <1>2, <2>3, <2>4 DEF Keeps, home
<1> QED BY <1>1, <1>2, AssetIs

\* An asset of a draft that is enriched keeps what it has, with the spelling of
\* its project that CML has.
LEMMA EnrichedAsset ==
  ASSUME NEW c \in Platforms, NEW d, IsDraft(d), NEW e, e = Drafting!Enriched(c, d).draft,
         NEW n \in DOMAIN d.assets
  PROVE  /\ n \in DOMAIN e.assets /\ Keeps(d.assets[n], e.assets[n])
         /\ e.assets[n].project = Drafting!Settled(c, d.assets[n].project)
         /\ Drafting!Key(Drafting!Effective(e, e.assets[n])) = Drafting!Key(Drafting!Effective(d, d.assets[n]))
<1> DEFINE a == d.assets[n]
           s == Respelt(c, a)
           b == e.assets[n]
<1>1. IsAsset(a) /\ Named(d.binding) /\ Named(a.project)
  BY AssetIs DEF IsDraft
<1>2. /\ e.binding = Drafting!Settled(c, d.binding) /\ n \in DOMAIN e.assets
      /\ b = Completed(c, e.binding, s)
  BY EnrichedIs
<1> HIDE DEF a, b
<1>3. /\ IsAsset(s) /\ s.kind = a.kind /\ s.name = a.name /\ s.sub = a.sub
      /\ s.project = Drafting!Settled(c, a.project)
  BY <1>1, RespeltIs
<1>4. Named(e.binding) /\ Drafting!Key(e.binding) = Drafting!Key(d.binding)
  BY <1>1, <1>2, SettledKeeps
<1> HIDE DEF s
<1>5. Keeps(s, b) /\ b.project = s.project
  BY <1>2, <1>3, <1>4, CompletedIs
<1>6. Keeps(a, b)
  BY <1>3, <1>5 DEF Keeps
<1>7. Drafting!Key(b.project) = Drafting!Key(a.project) /\ (b.project = NoText <=> a.project = NoText)
  BY <1>1, <1>3, <1>5, SettledKeeps
<1>8. Drafting!Key(Drafting!Effective(e, b)) = Drafting!Key(Drafting!Effective(d, a))
  BY <1>4, <1>7 DEF Drafting!Effective
<1> QED BY <1>2, <1>3, <1>5, <1>6, <1>8 DEF a, b

\* The documents of a check are a list of names.
Linked(docs) == Listed(docs) /\ \A i \in DOMAIN docs : Named(docs[i])

\* Every name mentioned is a name; one that stands for a listed project is
\* spelled as CML does, unless a link says otherwise.
LEMMA MentionsNamed ==
  ASSUME NEW c \in Platforms, NEW docs, Linked(docs), NEW d, IsDraft(d), NEW e, e = Drafting!Enriched(c, d).draft,
         NEW m, m = Drafting!Mentions(docs, e)
  PROVE  /\ AllNamed(m)
         /\ \A n \in DOMAIN m :
              c.listed /\ Drafting!Key(m[n]) \in DOMAIN c.projects
                /\ (\A i \in DOMAIN docs : Drafting!Key(docs[i]) = Drafting!Key(m[n]) => docs[i].real)
                => m[n].real
<1>1. /\ DOMAIN m \subseteq Nat
      /\ \A n \in DOMAIN m : \/ \E i \in DOMAIN docs : m[n] = docs[i]
                             \/ m[n] = e.binding
                             \/ \E i \in DOMAIN e.assets : m[n] = e.assets[i].project
  BY EnrichedIs, MentionsAre DEF Linked
<1>2. \A x : Named(x) => /\ Named(Drafting!Settled(c, x))
                         /\ c.listed /\ Drafting!Key(Drafting!Settled(c, x)) \in DOMAIN c.projects =>
                              Drafting!Settled(c, x).real
  <2> SUFFICES ASSUME NEW x, Named(x)
               PROVE  /\ Named(Drafting!Settled(c, x))
                      /\ c.listed /\ Drafting!Key(Drafting!Settled(c, x)) \in DOMAIN c.projects =>
                           Drafting!Settled(c, x).real
    OBVIOUS
  <2> DEFINE y == Drafting!Settled(c, x)
  <2>1. Named(y) /\ Drafting!Key(y) = Drafting!Key(x)
    BY SettledKeeps
  <2>2. c.listed /\ Drafting!Key(x) \in DOMAIN c.projects => y = Drafting!Real(y.key)
    BY SettledKeeps
  <2> HIDE DEF y
  <2>3. Drafting!Real(y.key).real
    BY RealIs
  <2> QED BY <2>1, <2>2, <2>3 DEF y
<1>3. e.binding = Drafting!Settled(c, d.binding) /\ Named(d.binding) /\ DOMAIN e.assets = DOMAIN d.assets
  <2>1. Named(d.binding)
    BY DEF IsDraft
  <2> QED BY <2>1, EnrichedIs
<1>4. \A i \in DOMAIN d.assets : e.assets[i].project = Drafting!Settled(c, d.assets[i].project)
  BY EnrichedAsset
<1>5. \A i \in DOMAIN d.assets : Named(d.assets[i].project)
  BY AssetIs DEF IsDraft
<1> SUFFICES ASSUME NEW n \in DOMAIN m
             PROVE  /\ Named(m[n])
                    /\ c.listed /\ Drafting!Key(m[n]) \in DOMAIN c.projects
                         /\ (\A i \in DOMAIN docs : Drafting!Key(docs[i]) = Drafting!Key(m[n]) => docs[i].real)
                         => m[n].real
  BY <1>1 DEF AllNamed
<1>6. CASE \E i \in DOMAIN docs : m[n] = docs[i]
  BY <1>6 DEF Linked
<1>7. CASE \E x : Named(x) /\ m[n] = Drafting!Settled(c, x)
  BY <1>2, <1>7
<1>8. (\E i \in DOMAIN docs : m[n] = docs[i]) \/ (\E x : Named(x) /\ m[n] = Drafting!Settled(c, x))
  BY <1>1, <1>3, <1>4, <1>5
<1> QED BY <1>6, <1>7, <1>8

\* An asset was moved to a project that could be fetched and has it.
MovedAway(c, a, bound, b) ==
  \E h : /\ CanRead(c, h) /\ Has(c, h, a) /\ h # bound
         /\ Named(Drafting!Real(h)) /\ Drafting!Key(Drafting!Real(h)) = h
         /\ b = Drafting!MovedTo(c, a, Drafting!Real(h))

\* A draft that is reviewed has each asset as it was enriched, with the question
\* about it, or moved.
LEMMA ReviewedIs ==
  ASSUME NEW c \in Platforms, NEW docs, Linked(docs), NEW d, IsDraft(d), NEW e, e = Drafting!Enriched(c, d).draft,
         NEW r, r = Drafting!Reviewed(c, docs, d)
  PROVE  /\ IsDraft(r.draft) /\ DOMAIN r.draft.assets = DOMAIN d.assets
         /\ r.draft.binding = e.binding /\ e.binding = Drafting!Settled(c, d.binding)
         /\ \A n \in DOMAIN d.assets :
              /\ Keeps(e.assets[n], r.draft.assets[n])
              /\ \/ /\ r.draft.assets[n] = e.assets[n]
                    /\ \A f : Drafting!Question(n, f) \in EnrichedAsks(c, d) => Drafting!Question(n, f) \in r.asked
                 \/ /\ Leaves(c, Drafting!Mentions(docs, e), e, n)
                    /\ MovedAway(c, e.assets[n], Drafting!Key(Drafting!Effective(e, e.assets[n])), r.draft.assets[n])
<1> DEFINE q == Drafting!Enriched(c, d).asked
           m == Drafting!Mentions(docs, e)
<1>1. r = Drafting!Reconciled(c, docs, e, q)
  BY DEF Drafting!Reviewed
<1>2. /\ IsDraft(e) /\ DOMAIN e.assets = DOMAIN d.assets /\ e.binding = Drafting!Settled(c, d.binding)
      /\ EnrichedAsks(c, d) \subseteq q
  BY EnrichedIs
<1>3. e = [binding |-> e.binding, assets |-> e.assets]
  BY <1>2 DEF IsDraft
<1>4. AllNamed(m)
  BY MentionsNamed
<1> HIDE DEF q
<1>5. /\ r.draft = [binding |-> e.binding, assets |-> r.draft.assets]
      /\ DOMAIN r.draft.assets = DOMAIN e.assets
      /\ r.draft.assets = e.assets \/ r.draft.assets = [n \in DOMAIN e.assets |-> r.draft.assets[n]]
  <2>1. SameShape(e, r.draft)
    BY <1>1, <1>3, ReconciledIs
  <2> QED BY <2>1 DEF SameShape
<1>6. ASSUME NEW n \in DOMAIN d.assets
      PROVE  \/ /\ r.draft.assets[n] = e.assets[n]
                /\ \A f : Drafting!Question(n, f) \in q => Drafting!Question(n, f) \in r.asked
             \/ /\ Leaves(c, m, e, n)
                /\ r.draft.assets[n] = Drafting!MovedTo(c, e.assets[n], Drafting!Spelling(m, HomeFor(c, m, e, n)))
  <2>1. n \in DOMAIN e.assets
    BY <1>2
  <2>2. StaysOrLeaves(c, m, e, q, r, n)
    BY <1>1, <1>3, <2>1, ReconciledIs
  <2> QED BY <2>2 DEF StaysOrLeaves
<1>7. ASSUME NEW n \in DOMAIN d.assets
      PROVE  IsAsset(e.assets[n])
  BY <1>2 DEF IsDraft
<1> HIDE DEF m
<1>8. ASSUME NEW n \in DOMAIN d.assets, Leaves(c, m, e, n),
             r.draft.assets[n] = Drafting!MovedTo(c, e.assets[n], Drafting!Spelling(m, HomeFor(c, m, e, n)))
      PROVE  /\ Keeps(e.assets[n], r.draft.assets[n])
             /\ MovedAway(c, e.assets[n], Drafting!Key(Drafting!Effective(e, e.assets[n])), r.draft.assets[n])
  <2> DEFINE h == HomeFor(c, m, e, n)
             a == e.assets[n]
             b == r.draft.assets[n]
             bound == Drafting!Key(Drafting!Effective(e, e.assets[n]))
  <2>1. h \in Drafting!Evidence(c, m) /\ Has(c, h, a) /\ h # bound
    BY <1>8, LeavesIs
  <2>2. IsAsset(a)
    BY <1>7
  <2> HIDE DEF h, a, b, bound
  <2>3. /\ CanRead(c, h) /\ Drafting!Spelling(m, h) = Drafting!Real(h)
        /\ Named(Drafting!Spelling(m, h)) /\ Drafting!Spelling(m, h) # NoText
    BY <1>4, <2>1, EvidenceIs
  <2>4. b = Drafting!MovedTo(c, a, Drafting!Real(h))
    BY <1>8, <2>3 DEF a, b, h
  <2>5. Named(Drafting!Real(h)) /\ Drafting!Key(Drafting!Real(h)) = h
    BY <2>3, NamedIs, RealIs
  <2>6. Keeps(a, b)
    BY <2>1, <2>2, <2>4, <2>5, MovedIs
  <2>7. MovedAway(c, a, bound, b)
    BY <2>1, <2>3, <2>4, <2>5 DEF MovedAway
  <2> QED BY <2>6, <2>7 DEF a, b, bound
<1>9. ASSUME NEW n \in DOMAIN d.assets
      PROVE  /\ Keeps(e.assets[n], r.draft.assets[n])
             /\ \/ /\ r.draft.assets[n] = e.assets[n]
                   /\ \A f : Drafting!Question(n, f) \in q => Drafting!Question(n, f) \in r.asked
                \/ /\ Leaves(c, m, e, n)
                   /\ MovedAway(c, e.assets[n], Drafting!Key(Drafting!Effective(e, e.assets[n])), r.draft.assets[n])
  <2>1. CASE /\ r.draft.assets[n] = e.assets[n]
             /\ \A f : Drafting!Question(n, f) \in q => Drafting!Question(n, f) \in r.asked
    <3>1. Keeps(e.assets[n], e.assets[n])
      BY <1>7 DEF Keeps
    <3> QED BY <2>1, <3>1, Zenon
  <2>2. CASE /\ Leaves(c, m, e, n)
             /\ r.draft.assets[n] = Drafting!MovedTo(c, e.assets[n], Drafting!Spelling(m, HomeFor(c, m, e, n)))
    BY <1>8, <2>2, Zenon
  <2> QED BY <1>6, <2>1, <2>2, Zenon
<1>10. IsDraft(r.draft)
  <2>1. r.draft.binding = e.binding
    BY <1>5
  <2>2. /\ Named(e.binding) /\ \E k \in Nat : DOMAIN e.assets = 1..k
        /\ e.assets = [n \in DOMAIN e.assets |-> e.assets[n]]
    BY <1>2 DEF IsDraft
  <2>3. \A n \in DOMAIN e.assets : IsAsset(r.draft.assets[n])
    BY <1>2, <1>9 DEF Keeps
  <2>4. r.draft.assets = [n \in DOMAIN r.draft.assets |-> r.draft.assets[n]]
    BY <1>5, <2>2
  <2> QED BY <1>5, <2>1, <2>2, <2>3, <2>4 DEF IsDraft
<1>11. r.draft.binding = e.binding
  BY <1>5
<1>12. ASSUME NEW n \in DOMAIN d.assets,
              \A f : Drafting!Question(n, f) \in q => Drafting!Question(n, f) \in r.asked
       PROVE  \A f : Drafting!Question(n, f) \in EnrichedAsks(c, d) => Drafting!Question(n, f) \in r.asked
  BY <1>2, <1>12
<1>13. \A n \in DOMAIN d.assets :
         /\ Keeps(e.assets[n], r.draft.assets[n])
         /\ \/ /\ r.draft.assets[n] = e.assets[n]
               /\ \A f : Drafting!Question(n, f) \in EnrichedAsks(c, d) => Drafting!Question(n, f) \in r.asked
            \/ /\ Leaves(c, m, e, n)
               /\ MovedAway(c, e.assets[n], Drafting!Key(Drafting!Effective(e, e.assets[n])), r.draft.assets[n])
  BY <1>9, <1>12, Zenon
<1> QED BY <1>2, <1>5, <1>10, <1>11, <1>13 DEF m

\* What the project it is in has is not moved, when that can be read and no link
\* misspells it.
LEMMA HomeKeeps ==
  ASSUME NEW c \in Platforms, c.listed, NEW docs, Linked(docs), NEW d, IsDraft(d),
         NEW e, e = Drafting!Enriched(c, d).draft, NEW n \in DOMAIN d.assets,
         NEW k, k = Drafting!Key(Drafting!Effective(e, e.assets[n])), CanRead(c, k), Has(c, k, e.assets[n]),
         \A i \in DOMAIN docs : Drafting!Key(docs[i]) = k => docs[i].real
  PROVE  ~ Leaves(c, Drafting!Mentions(docs, e), e, n)
<1> DEFINE m == Drafting!Mentions(docs, e)
<1>1. IsDraft(e) /\ n \in DOMAIN e.assets
  BY EnrichedIs
<1>2. /\ \E i \in DOMAIN m : m[i] = e.binding
      /\ \E i \in DOMAIN m : m[i] = e.assets[n].project
  BY <1>1, MentionsAre DEF Linked
<1>3. AllNamed(m) /\ \A i \in DOMAIN m : Drafting!Key(m[i]) = k => m[i].real
  <2>1. k \in DOMAIN c.projects
    BY DEF CanRead
  <2> QED BY <2>1, MentionsNamed
<1> HIDE DEF m
<1>4. \E i \in DOMAIN m : Drafting!Key(m[i]) = k
  BY <1>2 DEF Drafting!Effective
<1>5. k \in Drafting!Evidence(c, m)
  BY <1>3, <1>4, EvidenceIs
<1>6. k \in Drafting!Homes(c, Drafting!Evidence(c, m), e.assets[n])
  BY <1>5, HomesAre
<1> QED BY <1>6 DEF Leaves, Drafting!Moves, m

\* A job without a name that gets one.
LEMMA JobNamed ==
  ASSUME NEW a, IsAsset(a), NEW j
  PROVE  [a EXCEPT !.name = Drafting!Real(j.key), !.cron = @ \/ j.cron] =
           MakeAsset(a.kind, a.project, Drafting!Real(j.key), a.cron \/ j.cron, a.controlm, a.sub)
<1> DEFINE n == Drafting!Real(j.key)
           e == [a EXCEPT !.name = n]
           f == [e EXCEPT !.cron = a.cron \/ j.cron]
<1>1. a = MakeAsset(a.kind, a.project, a.name, a.cron, a.controlm, a.sub)
  BY DEF IsAsset
<1>2. e = MakeAsset(a.kind, a.project, n, a.cron, a.controlm, a.sub)
  BY <1>1, FieldChanged
<1>3. e.cron = a.cron
  BY <1>2 DEF MakeAsset
<1>4. [a EXCEPT !.name = Drafting!Real(j.key), !.cron = @ \/ j.cron] = f
  BY <1>3, Zenon
<1>5. f = MakeAsset(a.kind, a.project, n, a.cron \/ j.cron, a.controlm, a.sub)
  <2> HIDE DEF e, n
  <2> QED BY <1>2, FieldChanged
<1> QED BY <1>4, <1>5, Zenon

\* What the model may pick for an asset: its name is cleared, or given.
ClearedAsset(d, a, project) == IF Drafting!Borrowed(d, a, project) THEN [a EXCEPT !.name = NoText] ELSE a
GivenAsset(a, pick) ==
  IF pick = Unset THEN a ELSE [a EXCEPT !.name = Drafting!Real(pick.key), !.cron = @ \/ pick.cron]

\* A name is changed only if it is that of the project of the draft.
PickedFor(d, a, b) ==
  IsAsset(b) /\ (a.name # NoText => b.name = a.name \/ a.name.key = Drafting!Key(d.binding))

\* An asset that is cleared lost a borrowed name.
LEMMA ClearedIs ==
  ASSUME NEW d, NEW a, IsAsset(a), NEW p, NEW b, b = ClearedAsset(d, a, p)
  PROVE  PickedFor(d, a, b)
<1>1. CASE Drafting!Borrowed(d, a, p)
  <2>1. b = MakeAsset(a.kind, a.project, NoText, a.cron, a.controlm, a.sub)
    BY <1>1, AssetIs, FieldChanged DEF ClearedAsset
  <2>2. Named(NoText)
    BY DEF Named
  <2>3. IsAsset(b)
    BY <2>1, <2>2, AssetIs, AssetFields
  <2> QED BY <1>1, <2>3 DEF PickedFor, Drafting!Borrowed
<1>2. CASE ~ Drafting!Borrowed(d, a, p)
  BY <1>2 DEF PickedFor, ClearedAsset
<1> QED BY <1>1, <1>2

\* A job that gets a name gets one there is.
LEMMA GivenIs ==
  ASSUME NEW c \in Platforms, NEW k \in DOMAIN c.projects, NEW j \in c.projects[k].jobs \cup {Unset},
         NEW a, IsAsset(a), NEW b, b = GivenAsset(a, j)
  PROVE  IsAsset(b)
<1>1. CASE j = Unset
  BY <1>1 DEF GivenAsset
<1>2. CASE j # Unset
  <2> DEFINE cr == a.cron \/ j.cron
  <2>1. b = [a EXCEPT !.name = Drafting!Real(j.key), !.cron = @ \/ j.cron]
    BY <1>2, Zenon DEF GivenAsset
  <2>2. b = MakeAsset(a.kind, a.project, Drafting!Real(j.key), cr, a.controlm, a.sub)
    BY <2>1, JobNamed, Zenon
  <2>3. NoText \notin {j.key, Drafting!Real(j.key)}
    BY <1>2, PlatformHas
  <2>4. Named(Drafting!Real(j.key))
    BY <2>3, RealIs
  <2>5. cr \in BOOLEAN
    OBVIOUS
  <2> HIDE DEF cr
  <2> QED BY <2>2, <2>4, <2>5, AssetIs, AssetFields
<1> QED BY <1>1, <1>2

\* A draft whose assets were replaced by others.
LEMMA Refilled ==
  ASSUME NEW d, IsDraft(d), NEW f, DOMAIN f = DOMAIN d.assets, f = [n \in DOMAIN d.assets |-> f[n]],
         \A n \in DOMAIN d.assets : IsAsset(f[n]), NEW x, x = [d EXCEPT !.assets = f]
  PROVE  IsDraft(x) /\ x.binding = d.binding /\ x.assets = f
<1>1. d = [binding |-> d.binding, assets |-> d.assets] /\ Named(d.binding) /\ \E k \in Nat : DOMAIN d.assets = 1..k
  BY DEF IsDraft
<1>2. x = [binding |-> d.binding, assets |-> f]
  BY <1>1
<1>3. x.binding = d.binding /\ x.assets = f
  BY <1>2
<1> QED BY <1>1, <1>2, <1>3 DEF IsDraft

\* The draft with what the model picked keeps its names, but for borrowed ones.
LEMMA AssetPicked ==
  ASSUME NEW c \in Platforms, NEW d, IsDraft(d), NEW x \in Drafting!AssetPicks(c, d)
  PROVE  /\ IsDraft(x) /\ x.binding = d.binding /\ DOMAIN x.assets = DOMAIN d.assets
         /\ \A n \in DOMAIN d.assets : PickedFor(d, d.assets[n], x.assets[n])
<1> DEFINE D == DOMAIN d.assets
           project == Drafting!Fetched(c, d.binding)
           k == Drafting!Key(d.binding)
           cleared == [n \in D |-> ClearedAsset(d, d.assets[n], project)]
           clear == [d EXCEPT !.assets = cleared]
           nameless == {n \in D : LET a == clear.assets[n]
                                  IN a.kind = "job" /\ Drafting!Follows(d, a) /\ a.name = NoText /\ ~a.controlm}
           given(picks) == [n \in D |-> IF n \in nameless THEN GivenAsset(clear.assets[n], picks[n]) ELSE clear.assets[n]]
<1>1. \A n \in D : IsAsset(d.assets[n])
  BY DEF IsDraft
<1>2. CASE project = Unset \/ project.jobs = {}
  <2>1. x = d
    BY <1>2 DEF Drafting!AssetPicks
  <2> QED BY <1>1, <2>1 DEF PickedFor
<1>3. CASE ~(project = Unset \/ project.jobs = {})
  <2>1. Drafting!AssetPicks(c, d) =
          {[clear EXCEPT !.assets = given(picks)] : picks \in [nameless -> project.jobs \cup {Unset}]}
    BY <1>3, Zenon DEF Drafting!AssetPicks, Drafting!Cleared, Drafting!Places, ClearedAsset, GivenAsset
  <2> HIDE DEF nameless, clear
  <2>2. PICK picks \in [nameless -> project.jobs \cup {Unset}] : x = [clear EXCEPT !.assets = given(picks)]
    BY <2>1, Zenon
  <2>3. k \in DOMAIN c.projects /\ project = c.projects[k]
    <3>1. Named(d.binding)
      BY DEF IsDraft
    <3> QED BY <1>3, <3>1, FetchedIs DEF CanRead
  <2>4. \A n \in D : PickedFor(d, d.assets[n], cleared[n])
    <3> SUFFICES ASSUME NEW n \in D PROVE PickedFor(d, d.assets[n], cleared[n])
      OBVIOUS
    <3>1. cleared[n] = ClearedAsset(d, d.assets[n], project) /\ IsAsset(d.assets[n])
      BY <1>1
    <3> HIDE DEF cleared, project
    <3> QED BY <3>1, ClearedIs
  <2>5. DOMAIN cleared = D /\ cleared = [n \in D |-> cleared[n]]
    OBVIOUS
  <2> HIDE DEF cleared
  <2>6. IsDraft(clear) /\ clear.binding = d.binding /\ clear.assets = cleared
    BY <2>4, <2>5, Refilled DEF PickedFor, clear
  <2> DEFINE f == given(picks)
  <2>7. DOMAIN f = D /\ f = [n \in D |-> f[n]]
    OBVIOUS
  <2>8. \A n \in D : PickedFor(d, d.assets[n], f[n])
    <3> SUFFICES ASSUME NEW n \in D PROVE PickedFor(d, d.assets[n], f[n])
      OBVIOUS
    <3>1. CASE n \in nameless
      <4>1. f[n] = GivenAsset(cleared[n], picks[n]) /\ picks[n] \in c.projects[k].jobs \cup {Unset}
        BY <2>3, <2>6, <3>1
      <4>2. PickedFor(d, d.assets[n], cleared[n]) /\ cleared[n].name = NoText
        BY <2>4, <2>6, <3>1 DEF nameless
      <4> HIDE DEF f
      <4>3. IsAsset(cleared[n])
        BY <4>2 DEF PickedFor
      <4> HIDE DEF k
      <4>4. IsAsset(f[n])
        BY <2>3, <4>1, <4>3, GivenIs
      <4> QED BY <4>2, <4>4 DEF PickedFor
    <3>2. CASE n \notin nameless
      <4>1. f[n] = cleared[n]
        BY <2>6, <3>2
      <4> HIDE DEF f
      <4> QED BY <2>4, <4>1
    <3> QED BY <3>1, <3>2
  <2> HIDE DEF f
  <2>9. DOMAIN clear.assets = D
    BY <2>5, <2>6
  <2>10. IsDraft(x) /\ x.binding = clear.binding /\ x.assets = f
    <3>1. x = [clear EXCEPT !.assets = f]
      BY <2>2 DEF f
    <3>2. \A n \in D : IsAsset(f[n])
      BY <2>8 DEF PickedFor
    <3> QED BY <2>6, <2>7, <2>9, <3>1, <3>2, Refilled
  <2> QED BY <2>6, <2>7, <2>8, <2>10
<1> QED BY <1>2, <1>3

\* So is the draft whose binding was settled before.
LEMMA ResolvedIs ==
  ASSUME NEW c \in Platforms, NEW d, IsDraft(d), NEW x \in Drafting!Resolutions(c, d)
  PROVE  /\ IsDraft(x) /\ DOMAIN x.assets = DOMAIN d.assets
         /\ \A n \in DOMAIN d.assets : PickedFor(x, d.assets[n], x.assets[n])
<1>1. PICK b \in Drafting!BindingPicks(c, d) : x \in Drafting!AssetPicks(c, b)
  BY DEF Drafting!Resolutions
<1>2. Named(d.binding) /\ d = [binding |-> d.binding, assets |-> d.assets]
  BY DEF IsDraft
<1>3. b = d \/ \E y : Named(y) /\ b = [d EXCEPT !.binding = y]
  <2>1. CASE b = [d EXCEPT !.binding = Drafting!Settled(c, @)]
    <3>1. Named(Drafting!Settled(c, d.binding))
      BY <1>2, SettledKeeps
    <3>2. b = [d EXCEPT !.binding = Drafting!Settled(c, d.binding)]
      BY <2>1
    <3> QED BY <3>1, <3>2, Zenon
  <2>2. ASSUME NEW k \in DOMAIN c.projects, b = [d EXCEPT !.binding = Drafting!Real(k)]
        PROVE  \E y : Named(y) /\ b = [d EXCEPT !.binding = y]
    <3>1. Named(Drafting!Real(k))
      BY PlatformHas, RealIs
    <3> QED BY <2>2, <3>1, Zenon
  <2>3. \/ b = d
        \/ b = [d EXCEPT !.binding = Drafting!Settled(c, @)]
        \/ \E k \in DOMAIN c.projects : b = [d EXCEPT !.binding = Drafting!Real(k)]
    BY Zenon DEF Drafting!BindingPicks
  <2> QED BY <2>1, <2>2, <2>3, Zenon
<1>4. IsDraft(b) /\ b.assets = d.assets
  <2>1. CASE b = d
    BY <2>1
  <2>2. ASSUME NEW y, Named(y), b = [d EXCEPT !.binding = y]
        PROVE  IsDraft(b) /\ b.assets = d.assets
    <3>1. b = [binding |-> y, assets |-> d.assets]
      BY <1>2, <2>2
    <3>2. b.binding = y /\ b.assets = d.assets
      BY <3>1
    <3> QED BY <2>2, <3>1, <3>2 DEF IsDraft
  <2> QED BY <1>3, <2>1, <2>2
<1>5. /\ IsDraft(x) /\ x.binding = b.binding /\ DOMAIN x.assets = DOMAIN d.assets
      /\ \A n \in DOMAIN d.assets : PickedFor(b, d.assets[n], x.assets[n])
  BY <1>1, <1>4, AssetPicked
<1> QED BY <1>5 DEF PickedFor

\* What is drafted is a draft, for a platform, with links that are names.
LEMMA DraftAsked ==
  ASSUME Asking, ask.about = "draft"
  PROVE  /\ ask.cml \in Platforms /\ Linked(ask.links) /\ IsDraft(ask.given) /\ IsDraft(ask.resolved)
         /\ DOMAIN ask.resolved.assets = DOMAIN ask.given.assets
         /\ \A n \in DOMAIN ask.given.assets :
              PickedFor(ask.resolved, ask.given.assets[n], ask.resolved.assets[n])
<1>1. /\ ask.cml \in Platforms /\ ask.links \in Links /\ ask.given \in Drafts
      /\ ask.resolved \in Drafting!Resolutions(ask.cml, ask.given)
  BY DEF Asking
<1>2. Linked(ask.links)
  <2>1. Listed(ask.links) /\ \A name \in Range(ask.links) : Named(name)
    BY <1>1, DraftsAssumption
  <2> QED BY <2>1 DEF Linked, Range
<1>3. IsDraft(ask.given)
  <2> DEFINE d == ask.given
  <2>1. /\ d = [binding |-> d.binding, assets |-> d.assets] /\ Named(d.binding) /\ Listed(d.assets)
        /\ \A a \in Range(d.assets) :
             /\ a = [kind |-> a.kind, project |-> a.project, name |-> a.name, cron |-> a.cron,
                     controlm |-> a.controlm, sub |-> a.sub]
             /\ a.kind \in {"job", "app"} /\ Named(a.project) /\ Named(a.name) /\ a.cron \in BOOLEAN
    BY <1>1, DraftsAssumption
  <2> DEFINE s == d.assets
  <2>2. s \in Seq(Range(s))
    BY <2>1 DEF Listed
  <2> HIDE DEF d
  <2>3. Len(s) \in Nat /\ DOMAIN s = 1..Len(s) /\ s = [n \in DOMAIN s |-> s[n]]
    <3> HIDE DEF s
    <3> QED BY <2>2
  <2>4. \A a \in Range(s) : IsAsset(a)
    BY <2>1 DEF IsAsset, MakeAsset
  <2>5. \A n \in DOMAIN s : IsAsset(s[n])
    BY <2>4 DEF Range
  <2>6. IsDraft(d)
    BY <2>1, <2>3, <2>5 DEF IsDraft
  <2> QED BY <2>6 DEF d
<1> QED BY <1>1, <1>2, <1>3, ResolvedIs

\* What a check makes of an asset.
LEMMA CheckedAsset ==
  ASSUME Asking, ask.about = "draft", NEW e, e = Drafting!Enriched(ask.cml, ask.resolved).draft
  PROVE  /\ IsDraft(Checked.draft) /\ DOMAIN Checked.draft.assets = DOMAIN ask.resolved.assets
         /\ Checked.draft.binding = e.binding /\ Named(e.binding)
         /\ Drafting!Key(e.binding) = Drafting!Key(ask.resolved.binding)
         /\ e.binding = Drafting!Settled(ask.cml, ask.resolved.binding)
         /\ \A n \in DOMAIN ask.resolved.assets :
              /\ n \in DOMAIN e.assets /\ IsAsset(e.assets[n])
              /\ Keeps(ask.resolved.assets[n], e.assets[n])
              /\ Keeps(ask.resolved.assets[n], Checked.draft.assets[n])
              /\ HomeOf(e, n) = HomeOf(ask.resolved, n)
              /\ \/ /\ Checked.draft.assets[n] = e.assets[n] /\ HomeOf(Checked.draft, n) = HomeOf(e, n)
                    /\ \A f : Drafting!Question(n, f) \in EnrichedAsks(ask.cml, ask.resolved) =>
                                Drafting!Question(n, f) \in Checked.asked
                 \/ /\ Leaves(ask.cml, Drafting!Mentions(ask.links, e), e, n)
                    /\ MovedAway(ask.cml, e.assets[n], HomeOf(e, n), Checked.draft.assets[n])
<1> DEFINE c == ask.cml
           d == ask.resolved
           r == Checked
<1>1. c \in Platforms /\ Linked(ask.links) /\ IsDraft(d) /\ r = Drafting!Reviewed(c, ask.links, d)
  BY DraftAsked DEF Checked
<1> HIDE DEF c, d, r
<1>2. e = Drafting!Enriched(c, d).draft
  BY DEF c, d
<1>3. /\ IsDraft(r.draft) /\ DOMAIN r.draft.assets = DOMAIN d.assets
      /\ r.draft.binding = e.binding /\ e.binding = Drafting!Settled(c, d.binding)
      /\ \A n \in DOMAIN d.assets :
           /\ Keeps(e.assets[n], r.draft.assets[n])
           /\ \/ /\ r.draft.assets[n] = e.assets[n]
                 /\ \A f : Drafting!Question(n, f) \in EnrichedAsks(c, d) => Drafting!Question(n, f) \in r.asked
              \/ /\ Leaves(c, Drafting!Mentions(ask.links, e), e, n)
                 /\ MovedAway(c, e.assets[n], Drafting!Key(Drafting!Effective(e, e.assets[n])), r.draft.assets[n])
  BY <1>1, <1>2, ReviewedIs
<1>4. Named(e.binding) /\ Drafting!Key(e.binding) = Drafting!Key(d.binding)
  <2>1. Named(d.binding)
    BY <1>1 DEF IsDraft
  <2> QED BY <1>1, <1>3, <2>1, SettledKeeps
<1>5. ASSUME NEW n \in DOMAIN d.assets
      PROVE  /\ n \in DOMAIN e.assets /\ IsAsset(e.assets[n]) /\ Keeps(d.assets[n], e.assets[n])
             /\ Keeps(d.assets[n], r.draft.assets[n]) /\ HomeOf(e, n) = HomeOf(d, n)
             /\ r.draft.assets[n] = e.assets[n] => HomeOf(r.draft, n) = HomeOf(e, n)
  <2>1. IsAsset(d.assets[n])
    BY <1>1 DEF IsDraft
  <2>2. /\ n \in DOMAIN e.assets /\ Keeps(d.assets[n], e.assets[n])
        /\ Drafting!Key(Drafting!Effective(e, e.assets[n])) = Drafting!Key(Drafting!Effective(d, d.assets[n]))
    BY <1>1, <1>2, EnrichedAsset
  <2>3. Keeps(d.assets[n], r.draft.assets[n])
    BY <1>3, <2>1, <2>2, KeepsOn
  <2>4. r.draft.assets[n] = e.assets[n] =>
          Drafting!Effective(r.draft, r.draft.assets[n]) = Drafting!Effective(e, e.assets[n])
    BY <1>3 DEF Drafting!Effective
  <2> QED BY <2>2, <2>3, <2>4 DEF HomeOf, Keeps
<1>6. ASSUME NEW n \in DOMAIN d.assets
      PROVE  \/ /\ r.draft.assets[n] = e.assets[n] /\ HomeOf(r.draft, n) = HomeOf(e, n)
                /\ \A f : Drafting!Question(n, f) \in EnrichedAsks(c, d) => Drafting!Question(n, f) \in r.asked
             \/ /\ Leaves(c, Drafting!Mentions(ask.links, e), e, n)
                /\ MovedAway(c, e.assets[n], HomeOf(e, n), r.draft.assets[n])
  <2>1. HomeOf(e, n) = Drafting!Key(Drafting!Effective(e, e.assets[n]))
    BY DEF HomeOf
  <2> QED BY <1>3, <1>5, <2>1, Zenon
<1>7. \A n \in DOMAIN d.assets :
        /\ n \in DOMAIN e.assets /\ IsAsset(e.assets[n])
        /\ Keeps(d.assets[n], e.assets[n]) /\ Keeps(d.assets[n], r.draft.assets[n])
        /\ HomeOf(e, n) = HomeOf(d, n)
        /\ \/ /\ r.draft.assets[n] = e.assets[n] /\ HomeOf(r.draft, n) = HomeOf(e, n)
              /\ \A f : Drafting!Question(n, f) \in EnrichedAsks(c, d) => Drafting!Question(n, f) \in r.asked
           \/ /\ Leaves(c, Drafting!Mentions(ask.links, e), e, n)
              /\ MovedAway(c, e.assets[n], HomeOf(e, n), r.draft.assets[n])
  BY <1>5, <1>6, Zenon
<1> QED BY <1>3, <1>4, <1>7, Zenon DEF c, d, r

\* An asset that is moved is in its new project, which has it.
LEMMA MovedHome ==
  ASSUME NEW c \in Platforms, NEW a, IsAsset(a), NEW d, NEW n, NEW bound, MovedAway(c, a, bound, d.assets[n])
  PROVE  /\ CanRead(c, HomeOf(d, n)) /\ Has(c, HomeOf(d, n), a) /\ Has(c, HomeOf(d, n), d.assets[n])
         /\ HomeOf(d, n) # bound /\ d.assets[n].project = Drafting!Real(HomeOf(d, n))
         /\ Named(Drafting!Real(HomeOf(d, n)))
         /\ d.assets[n] = Drafting!MovedTo(c, a, Drafting!Real(HomeOf(d, n)))
         /\ \A k : Has(c, k, d.assets[n]) => Has(c, k, a)
<1> DEFINE b == d.assets[n]
<1>1. PICK h : /\ CanRead(c, h) /\ Has(c, h, a) /\ h # bound
               /\ Named(Drafting!Real(h)) /\ Drafting!Key(Drafting!Real(h)) = h
               /\ b = Drafting!MovedTo(c, a, Drafting!Real(h))
  BY DEF MovedAway
<1> HIDE DEF b
<1>2. /\ Keeps(a, b) /\ b.project = Drafting!Real(h) /\ (a.kind = "app" => b.name = a.name /\ b.sub = a.sub)
  BY <1>1, MovedIs
<1>3. Drafting!Real(h) # NoText
  BY <1>1, PlatformHas DEF CanRead
<1>4. HomeOf(d, n) = h
  BY <1>1, <1>2, <1>3 DEF HomeOf, Drafting!Effective, b
<1>5. Has(c, h, b)
  BY <1>1, <1>2, KeepsHas
<1>6. \A k : Has(c, k, b) => Has(c, k, a)
  <2> SUFFICES ASSUME NEW k, Has(c, k, b) PROVE Has(c, k, a)
    OBVIOUS
  <2>1. CASE a.kind = "job"
    BY <1>2, <2>1, KeepsHas
  <2>2. CASE a.kind = "app"
    <3>1. b.kind = "app" /\ b.sub = a.sub
      BY <1>2, <2>2 DEF Keeps
    <3> QED BY <2>2, <3>1, HasIs
  <2> QED BY <2>1, <2>2, AssetIs
<1> QED BY <1>1, <1>2, <1>4, <1>5, <1>6 DEF b

\* A name is kept but for a borrowed one.
LEMMA KeepsNames == ASSUME Asking, ask.about = "draft" PROVE NamesKept
<1> DEFINE e == Drafting!Enriched(ask.cml, ask.resolved).draft
           R == Checked.draft
           d == ask.resolved
<1>1. /\ IsDraft(R) /\ DOMAIN R.assets = DOMAIN d.assets /\ Drafting!Key(R.binding) = Drafting!Key(d.binding)
      /\ \A n \in DOMAIN d.assets : Keeps(d.assets[n], R.assets[n])
  BY CheckedAsset
<1>2. /\ IsDraft(ask.given) /\ DOMAIN d.assets = DOMAIN ask.given.assets
      /\ \A n \in DOMAIN ask.given.assets : PickedFor(d, ask.given.assets[n], d.assets[n])
  BY DraftAsked
<1> HIDE DEF R, d
<1> SUFFICES ASSUME NEW n \in DOMAIN R.assets, NEW was, was = ask.given.assets[n].name,
                    NEW now, now = R.assets[n].name
             PROVE  /\ was # NoText /\ now # NoText => was.key = now.key \/ was.key = Drafting!Key(d.binding)
                    /\ was # NoText /\ now = NoText => was.key = Drafting!Key(R.binding)
  BY DEF NamesKept, R, d
<1>3. Keeps(d.assets[n], R.assets[n]) /\ PickedFor(d, ask.given.assets[n], d.assets[n])
  BY <1>1, <1>2
<1>4. was # NoText => d.assets[n].name = was \/ was.key = Drafting!Key(d.binding)
  BY <1>3 DEF PickedFor
<1>5. Named(was) /\ Named(now)
  <2>1. IsAsset(R.assets[n]) /\ IsAsset(ask.given.assets[n])
    BY <1>1, <1>2 DEF IsDraft
  <2> QED BY <2>1, AssetIs
<1>6. was # NoText /\ d.assets[n].name = was => Drafting!Key(now) = Drafting!Key(was)
  BY <1>3 DEF Keeps
<1>7. was # NoText => Drafting!Key(was) = was.key /\ was.key # NoText
  BY <1>5, NamedIs
<1>8. (now # NoText => Drafting!Key(now) = now.key) /\ (now = NoText => Drafting!Key(now) = NoText)
  BY <1>5, NamedIs DEF Drafting!Key
<1> QED BY <1>1, <1>4, <1>6, <1>7, <1>8

\* An asset is moved for a reason.
LEMMA MovesForCause == ASSUME Asking, ask.about = "draft" PROVE MovesGrounded
<1> DEFINE c == ask.cml
           d == ask.resolved
           R == Checked.draft
           e == Drafting!Enriched(c, d).draft
<1>1. c \in Platforms /\ Linked(ask.links) /\ IsDraft(d)
  BY DraftAsked
<1> SUFFICES ASSUME NEW n \in DOMAIN R.assets, NEW from, from = HomeOf(d, n), NEW to, to = HomeOf(R, n), from # to
             PROVE  /\ Has(c, to, R.assets[n]) /\ CanRead(c, to)
                    /\ c.listed /\ CanRead(c, from)
                         /\ {l \in DOMAIN ask.links : Drafting!Key(ask.links[l]) = from /\ ~ask.links[l].real} = {}
                         => ~Has(c, from, R.assets[n])
  BY DEF MovesGrounded
<1>2. DOMAIN R.assets = DOMAIN d.assets
  BY CheckedAsset
<1>3. /\ IsAsset(e.assets[n]) /\ HomeOf(e, n) = from
      /\ Leaves(c, Drafting!Mentions(ask.links, e), e, n)
      /\ MovedAway(c, e.assets[n], from, R.assets[n])
  <2>1. /\ IsAsset(e.assets[n]) /\ HomeOf(e, n) = HomeOf(d, n)
        /\ \/ R.assets[n] = e.assets[n] /\ HomeOf(R, n) = HomeOf(e, n)
           \/ /\ Leaves(c, Drafting!Mentions(ask.links, e), e, n)
              /\ MovedAway(c, e.assets[n], HomeOf(e, n), R.assets[n])
    BY <1>2, CheckedAsset
  <2> HIDE DEF c, d, R, e
  <2> QED BY <2>1
<1>4. e = Drafting!Enriched(c, d).draft
  OBVIOUS
<1> HIDE DEF c, d, R, e
<1>5. /\ CanRead(c, to) /\ Has(c, to, R.assets[n])
      /\ \A k : Has(c, k, R.assets[n]) => Has(c, k, e.assets[n])
  BY <1>1, <1>3, MovedHome
<1>6. ASSUME c.listed, CanRead(c, from), Has(c, from, R.assets[n]),
             {l \in DOMAIN ask.links : Drafting!Key(ask.links[l]) = from /\ ~ask.links[l].real} = {}
      PROVE  FALSE
  <2>1. \A l \in DOMAIN ask.links : Drafting!Key(ask.links[l]) = from => ask.links[l].real
    BY <1>6
  <2>2. Has(c, from, e.assets[n])
    BY <1>5, <1>6
  <2>3. from = Drafting!Key(Drafting!Effective(e, e.assets[n]))
    BY <1>3 DEF HomeOf
  <2>4. n \in DOMAIN d.assets
    BY <1>2
  <2>5. ~ Leaves(c, Drafting!Mentions(ask.links, e), e, n)
    BY <1>1, <1>4, <1>6, <2>1, <2>2, <2>3, <2>4, HomeKeeps
  <2> QED BY <1>3, <2>5
<1> QED BY <1>5, <1>6

\* A job of the binding that the project has not is asked about.
LEMMA AskedIs ==
  ASSUME NEW c \in Platforms, NEW d, IsDraft(d), NEW n \in DOMAIN d.assets, NEW x, x = Drafting!Settled(c, d.binding),
         NEW a, a = Respelt(c, d.assets[n]), Drafting!Fetched(c, x) # Unset,
         a.project = NoText \/ Drafting!Key(a.project) = Drafting!Key(x),
         a.kind = "job", a.name # NoText, Drafting!JobHits(Drafting!Fetched(c, x), a.name) = {}
  PROVE  Drafting!Question(n, "name") \in EnrichedAsks(c, d)
<1> DEFINE s == Drafting!Spelled(c, d)
           project == Drafting!Fetched(c, s.binding)
           mine == {k \in DOMAIN d.assets : Drafting!Follows(s, s.assets[k])}
<1>1. s = [binding |-> x, assets |-> [k \in DOMAIN d.assets |-> Respelt(c, d.assets[k])]]
  BY DEF Drafting!Spelled, Drafting!Places, Respelt
<1>2. s.binding = x /\ s.assets[n] = a
  BY <1>1
<1> HIDE DEF s
<1>3. Drafting!Follows(s, a)
  BY <1>2 DEF Drafting!Follows
<1>4. n \in mine
  BY <1>2, <1>3
<1>5. Drafting!Unmatched(project, s.assets[n])
  BY <1>2 DEF Drafting!Unmatched
<1>6. EnrichedAsks(c, d) = {Drafting!Question(k, "name") : k \in {j \in mine : Drafting!Unmatched(project, s.assets[j])}}
  BY <1>2 DEF EnrichedAsks, s
<1> HIDE DEF mine, project
<1> QED BY <1>4, <1>5, <1>6

\* What is not asked about is there.
LEMMA UnaskedFound == ASSUME Asking, ask.about = "draft" PROVE UnaskedIsThere
<1> DEFINE c == ask.cml
           d == ask.resolved
           R == Checked.draft
           e == Drafting!Enriched(c, d).draft
<1>1. c \in Platforms /\ IsDraft(d)
  BY DraftAsked
<1> SUFFICES ASSUME NEW n \in DOMAIN R.assets, R.assets[n].kind = "job", R.assets[n].name # NoText,
                    Drafting!Follows(R, R.assets[n]), c.listed, CanRead(c, HomeOf(R, n)),
                    ~Has(c, HomeOf(R, n), R.assets[n])
             PROVE  \E q \in Checked.asked : q.about = n /\ q.field \in {"name", "project"}
  <2> HIDE DEF c, d, e
  <2> QED BY DEF UnaskedIsThere, c
<1>2. /\ DOMAIN R.assets = DOMAIN d.assets /\ R.binding = e.binding /\ Named(e.binding)
      /\ e.binding = Drafting!Settled(c, d.binding) /\ Drafting!Key(e.binding) = Drafting!Key(d.binding)
      /\ Named(d.binding)
  <2>1. Named(d.binding)
    BY <1>1 DEF IsDraft
  <2> QED BY <2>1, CheckedAsset
<1>3. /\ IsAsset(e.assets[n]) /\ Keeps(d.assets[n], e.assets[n])
      /\ \/ /\ R.assets[n] = e.assets[n]
            /\ \A f : Drafting!Question(n, f) \in EnrichedAsks(c, d) => Drafting!Question(n, f) \in Checked.asked
         \/ MovedAway(c, e.assets[n], HomeOf(e, n), R.assets[n])
  BY <1>2, CheckedAsset
<1>4. e = Drafting!Enriched(c, d).draft
  OBVIOUS
<1>5. n \in DOMAIN d.assets /\ IsAsset(d.assets[n])
  BY <1>1, <1>2 DEF IsDraft
<1> HIDE DEF c, d, R, e
<1>6. ~ MovedAway(c, e.assets[n], HomeOf(e, n), R.assets[n])
  BY <1>1, <1>3, MovedHome
<1>7. R.assets[n] = e.assets[n]
  BY <1>3, <1>6
<1> DEFINE a == Respelt(c, d.assets[n])
           x == e.binding
           k == Drafting!Key(x)
<1>8. /\ IsAsset(a) /\ a.kind = d.assets[n].kind /\ a.name = d.assets[n].name
      /\ a.project = Drafting!Settled(c, d.assets[n].project)
  BY <1>1, <1>5, RespeltIs
<1>9. e.assets[n].project = a.project
  BY <1>1, <1>4, <1>5, <1>8, EnrichedAsset
<1> HIDE DEF a
<1>10. Keeps(a, e.assets[n])
  <2>1. e.assets[n] = Completed(c, x, a)
    BY <1>1, <1>4, <1>5, EnrichedIs DEF a
  <2> QED BY <1>1, <1>2, <1>8, <2>1, CompletedIs
<1>11. a.project = NoText \/ Drafting!Key(a.project) = k
  BY <1>2, <1>7, <1>9 DEF Drafting!Follows
<1>12. HomeOf(R, n) = k
  <2>1. HomeOf(R, n) = Drafting!Key(IF a.project # NoText THEN a.project ELSE x)
    BY <1>2, <1>7, <1>9 DEF HomeOf, Drafting!Effective
  <2> QED BY <1>11, <2>1
<1> HIDE DEF x, k
<1>13. a.kind = "job" /\ a.name # NoText
  <2>1. a.kind = "job"
    BY <1>7, <1>10 DEF Keeps
  <2>2. Drafting!Key(e.assets[n].name) = Drafting!Key(a.name) /\ Named(e.assets[n].name)
    BY <1>3, <1>10, <2>1, AssetIs DEF Keeps
  <2>3. Drafting!Key(e.assets[n].name) # NoText
    BY <1>7, <2>2, NamedIs
  <2> QED BY <2>1, <2>2, <2>3 DEF Drafting!Key
<1>14. CanRead(c, k) /\ ~Has(c, k, a)
  <2>1. Has(c, k, a) => Has(c, k, e.assets[n])
    BY <1>8, <1>10, KeepsHas
  <2> QED BY <1>7, <1>12, <2>1
<1>15. Drafting!Fetched(c, x) # Unset /\ Drafting!Fetched(c, x) = c.projects[k]
  <2>1. x = Drafting!Real(x.key) /\ x # NoText /\ Named(x)
    BY <1>1, <1>2, <1>14, SettledKeeps DEF CanRead, x, k
  <2>2. x.real
    BY <2>1, RealIs
  <2> QED BY <1>1, <1>14, <2>1, <2>2, FetchedIs DEF k
<1>16. Drafting!JobHits(Drafting!Fetched(c, x), a.name) = {}
  BY <1>13, <1>14, <1>15, HasIs
<1>17. Drafting!Question(n, "name") \in EnrichedAsks(c, d)
  BY <1>1, <1>2, <1>5, <1>11, <1>13, <1>15, <1>16, AskedIs DEF a, x, k
<1>18. Drafting!Question(n, "name") \in Checked.asked
  BY <1>3, <1>6, <1>17
<1>19. Drafting!Question(n, "name").about = n /\ Drafting!Question(n, "name").field = "name"
  BY DEF Drafting!Question
<1> QED BY <1>18, <1>19

\* A job that was checked where it is, is spelled as CML does, with its schedule.
LEMMA CheckedJob ==
  ASSUME NEW c \in Platforms, NEW x, Named(x), NEW a, IsAsset(a), NEW b, b = Completed(c, x, a),
         b.kind = "job", b.project = NoText \/ Drafting!Key(b.project) = Drafting!Key(x),
         Drafting!Fetched(c, x) # Unset, Drafting!JobHits(Drafting!Fetched(c, x), b.name) # {}
  PROVE  /\ b.name # NoText => b.name.real
         /\ Drafting!Hit(Drafting!JobHits(Drafting!Fetched(c, x), b.name)).cron => b.cron
<1> DEFINE p == Drafting!Fetched(c, x)
<1>1. Keeps(a, b) /\ b.project = a.project
  BY CompletedIs
<1>2. a.kind = "job" /\ Named(a.name) /\ Named(b.name) /\ Drafting!Key(b.name) = Drafting!Key(a.name)
  BY <1>1, AssetIs DEF Keeps
<1>3. Drafting!JobHits(p, b.name) = Drafting!JobHits(p, a.name)
  BY <1>2, HitsByKey
<1>4. b = Drafting!Filled(p, a)
  BY <1>1 DEF Completed
<1> HIDE DEF p
<1>5. /\ b.name = Drafting!Real(a.name.key)
      /\ b.cron = (a.cron \/ Drafting!Hit(Drafting!JobHits(p, a.name)).cron)
  BY <1>2, <1>3, <1>4, FilledJob DEF p
<1>6. Drafting!Real(a.name.key).real
  BY RealIs
<1>7. Drafting!Hit(Drafting!JobHits(p, b.name)).cron => b.cron
  BY <1>3, <1>5, Zenon
<1> QED BY <1>5, <1>6, <1>7 DEF p

\* So is a job that was moved.
LEMMA MovedJob ==
  ASSUME NEW c \in Platforms, NEW h, Named(Drafting!Real(h)), NEW a, IsAsset(a), Has(c, h, a),
         NEW b, b = Drafting!MovedTo(c, a, Drafting!Real(h)), b.kind = "job"
  PROVE  /\ b.name # NoText => b.name.real
         /\ Drafting!Hit(Drafting!JobHits(c.projects[h], b.name)).cron => b.cron
<1>1. Keeps(a, b)
  BY MovedIs
<1>2. a.kind = "job" /\ Named(a.name) /\ Named(b.name) /\ Drafting!Key(b.name) = Drafting!Key(a.name)
  BY <1>1, AssetIs DEF Keeps
<1>3. Drafting!JobHits(c.projects[h], b.name) = Drafting!JobHits(c.projects[h], a.name)
  BY <1>2, HitsByKey
<1>4. /\ b.name = Drafting!Real(a.name.key)
      /\ b.cron = (a.cron \/ Drafting!Hit(Drafting!JobHits(c.projects[h], a.name)).cron)
  BY <1>2, MovedIs
<1>5. Drafting!Real(a.name.key).real
  BY RealIs
<1>6. Drafting!Hit(Drafting!JobHits(c.projects[h], b.name)).cron => b.cron
  BY <1>3, <1>4, Zenon
<1> QED BY <1>4, <1>5, <1>6

\* A check without links leaves an asset that the project it is in has, as far as
\* its job is complete, where it is, but that it may name an application.
LEMMA SavedAsset ==
  ASSUME NEW c \in Platforms, c.listed, NEW d, IsDraft(d), NEW n \in DOMAIN d.assets,
         NEW a, a = d.assets[n], NEW k, k = HomeOf(d, n), CanRead(c, k), Has(c, k, a),
         Drafting!Settled(c, d.binding) = d.binding, Drafting!Settled(c, a.project) = a.project,
         a.kind = "job" /\ Drafting!Follows(d, a) =>
           /\ a.name # NoText => a.name.real
           /\ Drafting!Hit(Drafting!JobHits(c.projects[k], a.name)).cron => a.cron,
         NEW r, r = Drafting!Reviewed(c, <<>>, d), NEW then, then = r.draft.assets[n]
  PROVE  NamesOnly(a, then)
<1> DEFINE e == Drafting!Enriched(c, d).draft
           x == d.binding
<1>1. Linked(<<>>)
  BY DEF Linked, Listed
<1>2. IsAsset(a) /\ Named(x)
  BY DEF IsDraft
<1>3. Respelt(c, a) = a
  BY <1>2, AssetIs, FieldChanged DEF Respelt
<1>4. e.binding = x /\ e.assets[n] = Completed(c, x, a)
  BY <1>3, EnrichedIs
<1>5. Keeps(a, e.assets[n]) /\ Drafting!Key(Drafting!Effective(e, e.assets[n])) = k
  BY EnrichedAsset DEF HomeOf
<1>6. \/ then = e.assets[n]
      \/ Leaves(c, Drafting!Mentions(<<>>, e), e, n)
  BY <1>1, ReviewedIs
<1>7. e = Drafting!Enriched(c, d).draft
  OBVIOUS
<1> HIDE DEF e
<1>8. Has(c, k, e.assets[n])
  BY <1>2, <1>5, KeepsHas
<1>9. ~ Leaves(c, Drafting!Mentions(<<>>, e), e, n)
  BY <1>1, <1>5, <1>7, <1>8, HomeKeeps
<1>10. then = Completed(c, x, a)
  BY <1>4, <1>6, <1>9
<1> HIDE DEF x
<1>11. CASE ~(Drafting!Fetched(c, x) # Unset /\ (a.project = NoText \/ Drafting!Key(a.project) = Drafting!Key(x)))
  BY <1>10, <1>11 DEF Completed, NamesOnly
<1>12. CASE Drafting!Fetched(c, x) # Unset /\ (a.project = NoText \/ Drafting!Key(a.project) = Drafting!Key(x))
  <2> DEFINE p == c.projects[k]
  <2>1. k = Drafting!Key(x)
    <3>1. k = Drafting!Key(IF a.project # NoText THEN a.project ELSE x)
      BY DEF HomeOf, Drafting!Effective, x
    <3> QED BY <1>12, <3>1
  <2>2. Drafting!Fetched(c, x) = p
    BY <1>2, <1>12, <2>1, FetchedIs
  <2> HIDE DEF p
  <2>3. then = Drafting!Filled(p, a)
    BY <1>10, <1>12, <2>2 DEF Completed
  <2>4. CASE a.kind = "job"
    <3>1. Drafting!Follows(d, a)
      BY <1>12 DEF Drafting!Follows, x
    <3>2. Drafting!Filled(p, a) = a
      BY <1>2, <2>4, <3>1, JobIsFilled DEF p
    <3> QED BY <2>3, <3>2 DEF NamesOnly
  <2>5. CASE a.kind = "app"
    <3>1. Drafting!ServedAt(p, a.sub) # {}
      BY <2>5, HasIs DEF p
    <3> QED BY <1>2, <2>3, <2>5, <3>1, AppIsFilled
  <2> QED BY <1>2, <2>4, <2>5, AssetIs
<1> QED BY <1>11, <1>12

\* What is where it belongs stays when a reviewer saves it.
LEMMA SavesKeep == ASSUME Asking, ask.about = "draft" PROVE SaveKeeps
<1> DEFINE c == ask.cml
           d == ask.resolved
           R == Checked.draft
           e == Drafting!Enriched(c, d).draft
<1>1. c \in Platforms /\ IsDraft(d) /\ Named(d.binding)
  BY DraftAsked DEF IsDraft
<1>2. /\ IsDraft(R) /\ DOMAIN R.assets = DOMAIN d.assets /\ R.binding = e.binding /\ Named(e.binding)
      /\ e.binding = Drafting!Settled(c, d.binding)
  BY CheckedAsset
<1> SUFFICES ASSUME NEW n \in DOMAIN R.assets, c.listed, CanRead(c, HomeOf(R, n)), Has(c, HomeOf(R, n), R.assets[n])
             PROVE  NamesOnly(R.assets[n], Saved.draft.assets[n])
  BY Zenon DEF SaveKeeps, NamesOnly
<1> SUFFICES ASSUME NEW now, now = R.assets[n], NEW to, to = HomeOf(R, n), NEW then, then = Saved.draft.assets[n],
                    CanRead(c, to), Has(c, to, now)
             PROVE  NamesOnly(now, then)
  BY Zenon
<1>3. /\ IsAsset(e.assets[n])
      /\ \/ now = e.assets[n]
         \/ MovedAway(c, e.assets[n], HomeOf(e, n), R.assets[n])
  BY <1>2, CheckedAsset
<1>4. Saved = Drafting!Reviewed(c, <<>>, R)
  BY DEF Saved
<1>5. e = Drafting!Enriched(c, d).draft
  OBVIOUS
<1>6. n \in DOMAIN d.assets /\ IsAsset(d.assets[n]) /\ IsAsset(now)
  BY <1>1, <1>2 DEF IsDraft
<1> HIDE DEF c, d, R, e
<1>7. Drafting!Settled(c, R.binding) = R.binding
  BY <1>1, <1>2, SettledStays
<1>8. CASE now = e.assets[n]
  <2> DEFINE a == Respelt(c, d.assets[n])
  <2>1. now.project = Drafting!Settled(c, d.assets[n].project) /\ now = Completed(c, e.binding, a)
    BY <1>1, <1>5, <1>6, <1>8, EnrichedAsset, EnrichedIs
  <2>2. Named(d.assets[n].project) /\ IsAsset(a)
    BY <1>1, <1>6, AssetIs, RespeltIs
  <2>3. Drafting!Settled(c, now.project) = now.project
    BY <1>1, <2>1, <2>2, SettledStays
  <2> HIDE DEF a
  <2>4. ASSUME now.kind = "job", Drafting!Follows(R, now)
        PROVE  /\ now.name # NoText => now.name.real
               /\ Drafting!Hit(Drafting!JobHits(c.projects[to], now.name)).cron => now.cron
    <3>1. Drafting!JobHits(c.projects[to], now.name) # {}
      BY <2>4, HasIs
    <3>2. now.project = NoText \/ Drafting!Key(now.project) = Drafting!Key(e.binding)
      BY <1>2, <2>4 DEF Drafting!Follows
    <3>3. to = Drafting!Key(e.binding)
      <4>1. to = Drafting!Key(IF now.project # NoText THEN now.project ELSE e.binding)
        BY <1>2 DEF HomeOf, Drafting!Effective
      <4> QED BY <3>2, <4>1
    <3>4. Drafting!Fetched(c, e.binding) # Unset /\ Drafting!Fetched(c, e.binding) = c.projects[to]
      <4> DEFINE x == e.binding
      <4> HIDE DEF x
      <4>1. x = Drafting!Real(x.key) /\ x # NoText /\ Named(x)
        <5>1. Drafting!Key(d.binding) \in DOMAIN c.projects
          BY <1>1, <1>2, <3>3, SettledKeeps DEF CanRead
        <5> QED BY <1>1, <1>2, <5>1, SettledKeeps DEF x
      <4>2. x.real
        BY <4>1, RealIs
      <4>3. CanRead(c, Drafting!Key(x))
        BY <3>3 DEF x
      <4>4. Drafting!Fetched(c, x) # Unset /\ Drafting!Fetched(c, x) = c.projects[Drafting!Key(x)]
        BY <1>1, <4>1, <4>2, <4>3, FetchedIs
      <4> QED BY <3>3, <4>4 DEF x
    <3> DEFINE x == e.binding
               p == Drafting!Fetched(c, x)
    <3>5. now = Completed(c, x, a) /\ Named(x)
      BY <1>2, <2>1
    <3> HIDE DEF x
    <3>6. p # Unset /\ p = c.projects[to] /\ (now.project = NoText \/ Drafting!Key(now.project) = Drafting!Key(x))
      BY <3>2, <3>4 DEF x
    <3>7. Drafting!JobHits(p, now.name) # {}
      BY <3>1, <3>6
    <3>8. /\ now.name # NoText => now.name.real
          /\ Drafting!Hit(Drafting!JobHits(p, now.name)).cron => now.cron
      BY <1>1, <2>2, <2>4, <3>5, <3>6, <3>7, CheckedJob
    <3> QED BY <3>6, <3>8
  <2> QED BY <1>1, <1>2, <1>4, <1>7, <2>3, <2>4, SavedAsset
<1>9. CASE MovedAway(c, e.assets[n], HomeOf(e, n), R.assets[n])
  <2>1. /\ now.project = Drafting!Real(to) /\ Named(Drafting!Real(to)) /\ Has(c, to, e.assets[n])
        /\ now = Drafting!MovedTo(c, e.assets[n], Drafting!Real(to))
    BY <1>1, <1>3, <1>9, MovedHome
  <2>2. Drafting!Settled(c, now.project) = now.project
    <3>1. Drafting!Real(to) # NoText
      BY <1>1, PlatformHas DEF CanRead
    <3>2. Drafting!Real(to).real
      BY RealIs
    <3> QED BY <1>1, <2>1, <3>1, <3>2, SettledKeeps
  <2>3. now.kind = "job" => /\ now.name # NoText => now.name.real
                            /\ Drafting!Hit(Drafting!JobHits(c.projects[to], now.name)).cron => now.cron
    BY <1>1, <1>3, <2>1, MovedJob
  <2> QED BY <1>1, <1>2, <1>4, <1>7, <2>2, <2>3, SavedAsset
<1> QED BY <1>3, <1>8, <1>9

\* A split puts every asset into the part of its project.
LEMMA SplitsWhole == ASSUME Asking, ask.about = "draft" PROVE PartsWhole
<1> DEFINE d == Checked.draft
           parts == Drafting!Parts(d)
           D == DOMAIN d.assets
           at(k) == {n \in D : HomeOf(d, n) = k}
           name(k) == IF k = Drafting!Key(d.binding) THEN d.binding
                      ELSE Drafting!Effective(d, d.assets[Drafting!Min(at(k))])
           lot(k) == [n \in at(k) |-> [d.assets[n] EXCEPT !.project = NoText]]
<1>1. parts = [k \in {HomeOf(d, n) : n \in D} |-> [binding |-> name(k), assets |-> lot(k)]]
  BY Zenon DEF Drafting!Parts, Drafting!Places, HomeOf
<1>2. IsDraft(d)
  BY CheckedAsset
<1>3. \A k : at(k) \subseteq D /\ \A n \in D : n \in at(k) <=> HomeOf(d, n) = k
  OBVIOUS
<1>4. \A k : DOMAIN lot(k) = at(k)
  OBVIOUS
<1>5. \A n \in D : Drafting!Key(name(HomeOf(d, n))) = HomeOf(d, n)
  <2> SUFFICES ASSUME NEW n \in D, NEW k, k = HomeOf(d, n) PROVE Drafting!Key(name(k)) = k
    OBVIOUS
  <2>1. CASE k = Drafting!Key(d.binding)
    BY <2>1
  <2>2. CASE k # Drafting!Key(d.binding)
    <3> DEFINE S == at(k)
    <3>1. S \in SUBSET Nat /\ S # {}
      <4>1. D \subseteq Nat
        BY <1>2 DEF IsDraft
      <4> QED BY <4>1
    <3>2. \A i \in S : Drafting!Key(Drafting!Effective(d, d.assets[i])) = k
      BY DEF HomeOf
    <3>3. name(k) = Drafting!Effective(d, d.assets[Drafting!Min(S)])
      BY <2>2
    <3> HIDE DEF S, d
    <3>4. Drafting!Min(S) \in S
      BY <3>1, Least, DraftMin
    <3> HIDE DEF name
    <3> QED BY <3>2, <3>3, <3>4
  <2> QED BY <2>1, <2>2
<1> HIDE DEF lot, at, name, D, d, parts
<1>6. DOMAIN parts = {HomeOf(d, n) : n \in D}
  BY <1>1
<1>7. \A k \in DOMAIN parts : parts[k].binding = name(k) /\ parts[k].assets = lot(k)
  BY <1>1
<1>8. ASSUME NEW n \in D
      PROVE  \E k \in DOMAIN parts :
               /\ n \in DOMAIN parts[k].assets /\ Drafting!Key(parts[k].binding) = HomeOf(d, n)
               /\ \A other \in DOMAIN parts \ {k} : n \notin DOMAIN parts[other].assets
  <2>1. HomeOf(d, n) \in DOMAIN parts
    BY <1>6
  <2>2. n \in DOMAIN parts[HomeOf(d, n)].assets
    BY <1>3, <1>4, <1>7, <2>1
  <2>3. \A other \in DOMAIN parts \ {HomeOf(d, n)} : n \notin DOMAIN parts[other].assets
    BY <1>3, <1>4, <1>7
  <2>4. Drafting!Key(parts[HomeOf(d, n)].binding) = HomeOf(d, n)
    BY <1>5, <1>7, <2>1
  <2> QED BY <2>1, <2>2, <2>3, <2>4
<1> QED BY <1>8, Zenon DEF PartsWhole, d, D, parts

\* What is found first is found.
LEMMA FirstIs ==
  ASSUME NEW hits, DOMAIN hits \subseteq Nat
  PROVE  /\ Drafting!FirstHits(hits) = {} \/ \E n \in DOMAIN hits : Drafting!FirstHits(hits) = hits[n]
         /\ \A n \in DOMAIN hits : (\A k \in DOMAIN hits : n <= k) /\ hits[n] # {} => Drafting!FirstHits(hits) = hits[n]
<1> DEFINE found == {n \in DOMAIN hits : hits[n] # {}}
<1>1. Drafting!FirstHits(hits) = IF found = {} THEN {} ELSE hits[Drafting!Min(found)]
  BY DEF Drafting!FirstHits
<1>2. found \in SUBSET Nat
  OBVIOUS
<1>3. \A n : n \in found <=> n \in DOMAIN hits /\ hits[n] # {}
  OBVIOUS
<1> HIDE DEF found
<1>4. found # {} => Drafting!Min(found) \in found /\ \A y \in found : Drafting!Min(found) <= y
  BY <1>2, Least, DraftMin
<1>5. Drafting!FirstHits(hits) = {} \/ \E n \in DOMAIN hits : Drafting!FirstHits(hits) = hits[n]
  BY <1>1, <1>3, <1>4
<1>6. ASSUME NEW n \in DOMAIN hits, \A k \in DOMAIN hits : n <= k, hits[n] # {}
      PROVE  Drafting!FirstHits(hits) = hits[n]
  <2>1. n \in found /\ Drafting!Min(found) \in found /\ Drafting!Min(found) <= n
    BY <1>3, <1>4, <1>6
  <2>2. n <= Drafting!Min(found) /\ Drafting!Min(found) \in Nat /\ n \in Nat
    BY <1>2, <1>3, <1>6, <2>1
  <2>3. Drafting!Min(found) = n
    BY <2>1, <2>2
  <2> QED BY <1>1, <2>1, <2>3
<1> QED BY <1>5, <1>6

\* A key stands before those to fall back to.
LEMMA KeysAre ==
  ASSUME NEW key, NEW s, Listed(s), NEW keys, keys = <<key>> \o s
  PROVE  DOMAIN keys \subseteq Nat /\ 1 \in DOMAIN keys /\ keys[1] = key /\ \A k \in DOMAIN keys : 1 <= k
<1> DEFINE S == Range(s) \cup {key}
           t == <<key>>
<1>1. s \in Seq(S)
  <2>1. s \in Seq(Range(s)) /\ Range(s) \subseteq S
    BY DEF Listed
  <2> HIDE DEF S
  <2> QED BY <2>1
<1>2. t \in Seq(S) /\ Len(t) = 1 /\ t[1] = key /\ keys = t \o s
  OBVIOUS
<1> HIDE DEF t, S
<1>3. Len(s) \in Nat /\ DOMAIN keys = 1..(Len(t) + Len(s))
  BY <1>1, <1>2
<1>4. \A n \in 1..Len(t) : keys[n] = t[n]
  BY <1>1, <1>2
<1>5. DOMAIN keys = 1..(1 + Len(s)) /\ 1 \in 1..Len(t)
  BY <1>2, <1>3
<1> QED BY <1>2, <1>3, <1>4, <1>5

\* A reference is bound to what it names.
LEMMA ReferencesHold == ASSUME Asking PROVE ReferenceGrounded
<1> SUFFICES ASSUME ask.about = "reference" PROVE ReferenceGrounded
  BY DEF ReferenceGrounded
<1> DEFINE raw == ask.raw
           keys == <<raw.key>> \o ask.fallbacks
           known == Directory \cup Hidden
           byNumber == Drafting!ByNumber(known, raw.id)
           exacts == [n \in DOMAIN keys |-> Drafting!ExactRepos(Directory, keys[n])]
           exact == Drafting!FirstHits(exacts)
           matches == Drafting!MmpMatches(Directory, Hidden, raw, ask.fallbacks)
           numbered == {r.repo : r \in {k \in known : raw.id # Unset /\ k.id = raw.id}}
           named == {r.repo : r \in {k \in Directory : k.repo = raw.key}}
<1>1. Listed(ask.fallbacks) /\ ask.pick \in Drafting!MmpPicks(Directory, Hidden, raw, ask.fallbacks)
  BY DraftsAssumption DEF Asking
<1>2. /\ DOMAIN keys \subseteq Nat /\ 1 \in DOMAIN keys /\ keys[1] = raw.key /\ \A k \in DOMAIN keys : 1 <= k
  <2> HIDE DEF raw
  <2> QED BY <1>1, KeysAre
<1>3. matches = IF byNumber # {} THEN byNumber ELSE exact
  BY Zenon DEF Drafting!MmpMatches
<1>4. ask.pick \in IF matches # {} THEN {Drafting!Hit(matches).repo}
                  ELSE {NoText} \cup {r.repo : r \in Directory}
  BY <1>1, Zenon DEF Drafting!MmpPicks
<1>5. DOMAIN exacts = DOMAIN keys /\ \A n \in DOMAIN keys : exacts[n] = {r \in Directory : r.repo = keys[n]}
  BY DEF Drafting!ExactRepos
<1>6. byNumber = {r \in known : raw.id # Unset /\ r.id = raw.id}
  BY DEF Drafting!ByNumber
<1>7. \A r, s \in known : r.id # Unset /\ r.id = s.id => r = s
  BY DraftsAssumption
<1>8. \A r, s \in Directory : r.repo = s.repo => r = s
  BY DraftsAssumption
<1> HIDE DEF matches, exacts, exact, keys, byNumber
<1>9. /\ exact = {} \/ \E n \in DOMAIN keys : exact = exacts[n]
      /\ exacts[1] # {} => exact = exacts[1]
  <2>1. exact = Drafting!FirstHits(exacts) /\ DOMAIN exacts \subseteq Nat
    BY <1>2, <1>5 DEF exact
  <2>2. 1 \in DOMAIN exacts /\ \A k \in DOMAIN exacts : 1 <= k
    BY <1>2, <1>5
  <2> QED BY <1>5, <2>1, <2>2, FirstIs
<1>10. matches # {} => Drafting!Hit(matches) \in matches
  BY DEF Drafting!Hit
<1>11. matches # {} => \E r \in matches : ask.pick = r.repo
  BY <1>4, <1>10
<1>12. ASSUME NEW r, matches = {r}
       PROVE  ask.pick = r.repo
  BY <1>11, <1>12
<1>13. numbered # {} => ask.pick \in numbered
  <2> SUFFICES ASSUME NEW r \in known, raw.id # Unset, r.id = raw.id PROVE ask.pick = r.repo
    BY DEF numbered
  <2>1. byNumber = {r}
    BY <1>6, <1>7
  <2> QED BY <1>3, <1>12, <2>1
<1>14. numbered = {} => byNumber = {}
  BY <1>6 DEF numbered
<1>15. numbered = {} /\ named # {} => ask.pick \in named
  <2> SUFFICES ASSUME numbered = {}, NEW r \in Directory, r.repo = raw.key PROVE ask.pick = r.repo
    BY DEF named
  <2>1. exacts[1] = {r}
    BY <1>2, <1>5, <1>8
  <2>2. matches = {r}
    BY <1>3, <1>9, <1>14, <2>1
  <2> QED BY <1>12, <2>2
<1>16. numbered = {} => ask.pick = NoText \/ \E r \in Directory : r.repo = ask.pick
  <2> SUFFICES ASSUME numbered = {} PROVE ask.pick = NoText \/ \E r \in Directory : r.repo = ask.pick
    OBVIOUS
  <2>1. exact \subseteq Directory /\ matches = exact
    BY <1>3, <1>5, <1>9, <1>14
  <2>2. CASE matches = {}
    BY <1>4, <2>2
  <2>3. CASE matches # {}
    BY <1>11, <2>1, <2>3
  <2> QED BY <2>2, <2>3
<1> QED BY <1>13, <1>15, <1>16 DEF ReferenceGrounded

\* For every state of CML and of the model monitor, every document and whatever
\* the model picks, what becomes of a draft is what those give: names are kept,
\* nothing is moved without cause or left unasked, a save changes nothing that
\* belongs, a split loses nothing, and a reference is bound to what it names
\* (onboarding_enrich.py, onboarding_graph.py).
THEOREM DraftsAreGrounded == Spec => []DraftsGrounded
<1>1. Asking => DraftsGrounded
  <2> SUFFICES ASSUME Asking PROVE DraftsGrounded
    OBVIOUS
  <2>1. DraftGrounded
    <3> SUFFICES ASSUME ask.about = "draft"
                 PROVE  NamesKept /\ MovesGrounded /\ UnaskedIsThere /\ SaveKeeps /\ PartsWhole
      BY DEF DraftGrounded
    <3> QED BY KeepsNames, MovesForCause, UnaskedFound, SavesKeep, SplitsWhole
  <2>2. ReferenceGrounded
    BY ReferencesHold
  <2> QED BY <2>1, <2>2 DEF DraftsGrounded
<1> QED BY <1>1, AlwaysAsking, PTL
===============================================================================
