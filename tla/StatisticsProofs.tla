-------------------------- MODULE StatisticsProofs --------------------------
(******************************************************************************)
(* The statistics of a website (Statistics): what different requests show of  *)
(* the same rows fits together.                                               *)
(******************************************************************************)
EXTENDS Statistics, DerivedTablesProofs

-----------------------------------------------------------------------------
(* Multiples of a length.                                                  *)

Floor(x, k) == (x \div k) * k
OnGrid(b, k) == b \in Int /\ Floor(b, k) = b

LEMMA FloorIs ==
  ASSUME NEW x \in Int, NEW k \in Nat \ {0}
  PROVE  /\ Floor(x, k) \in Int /\ Floor(x, k) <= x /\ x < Floor(x, k) + k
         /\ x \div k \in Int
BY DEF Floor

LEMMA FloorOf ==
  ASSUME NEW x \in Int, NEW k \in Nat \ {0}, NEW m \in Int, m * k <= x, x < m * k + k
  PROVE  x \div k = m
<1> DEFINE p == x \div k
<1>1. p \in Int /\ p * k <= x /\ x < p * k + k
  OBVIOUS
<1> HIDE DEF p
<1>2. m * k \in Int /\ p * k \in Int /\ m * k + k = (m + 1) * k /\ p * k + k = (p + 1) * k
  BY <1>1
<1>3. CASE p < m
  <2>1. (p + 1) * k <= m * k
    BY <1>1, <1>3
  <2> QED BY <1>1, <1>2, <2>1
<1>4. CASE m < p
  <2>1. (m + 1) * k <= p * k
    BY <1>1, <1>4
  <2> QED BY <1>1, <1>2, <2>1
<1>5. p = m
  BY <1>1, <1>3, <1>4
<1> QED BY <1>5 DEF p

LEMMA GridTimes ==
  ASSUME NEW m \in Int, NEW k \in Nat \ {0}
  PROVE  OnGrid(m * k, k) /\ (m * k) \div k = m
<1>1. m * k \in Int
  OBVIOUS
<1>2. (m * k) \div k = m
  <2>1. m * k <= m * k /\ m * k < m * k + k
    BY <1>1
  <2> QED BY <1>1, <2>1, FloorOf
<1> QED BY <1>1, <1>2 DEF OnGrid, Floor

LEMMA GridFloor ==
  ASSUME NEW x \in Int, NEW k \in Nat \ {0}
  PROVE  OnGrid(Floor(x, k), k)
BY FloorIs, GridTimes DEF Floor

LEMMA GridUnique ==
  ASSUME NEW k \in Nat \ {0}, NEW b, OnGrid(b, k), NEW x \in Int, b <= x, x < b + k
  PROVE  Floor(x, k) = b
<1>1. b \div k \in Int /\ (b \div k) * k = b
  BY FloorIs DEF OnGrid, Floor
<1>2. x \div k = b \div k
  BY <1>1, FloorOf
<1> QED BY <1>1, <1>2 DEF Floor

LEMMA GridApart ==
  ASSUME NEW k \in Nat \ {0}, NEW b, OnGrid(b, k), NEW c, OnGrid(c, k), b < c
  PROVE  b + k <= c
<1>1. b \in Int /\ c \in Int
  BY DEF OnGrid
<1>2. CASE c < b + k
  <2>1. Floor(c, k) = b
    BY <1>1, <1>2, GridUnique
  <2> QED BY <1>1, <2>1 DEF OnGrid
<1> QED BY <1>1, <1>2

LEMMA GridShift ==
  ASSUME NEW k \in Nat \ {0}, NEW b, OnGrid(b, k), NEW n \in Int
  PROVE  OnGrid(b + n * k, k) /\ OnGrid(b - n * k, k)
<1>1. b \div k \in Int /\ (b \div k) * k = b
  BY FloorIs DEF OnGrid, Floor
<1> DEFINE m == b \div k
<1> HIDE DEF m
<1>2. m \in Int /\ m * k = b
  BY <1>1 DEF m
<1>3. (m + n) * k = m * k + n * k /\ (m - n) * k = m * k - n * k
  BY <1>2
<1>4. b + n * k = (m + n) * k /\ b - n * k = (m - n) * k
  BY <1>2, <1>3
<1>5. m + n \in Int /\ m - n \in Int
  BY <1>2
<1>6. OnGrid((m + n) * k, k) /\ OnGrid((m - n) * k, k)
  BY <1>5, GridTimes
<1> QED BY <1>4, <1>6

\* x % k = 0 on the grid only.
LEMMA GridRest ==
  ASSUME NEW k \in Nat \ {0}, NEW x \in Int
  PROVE  x % k = 0 <=> OnGrid(x, k)
<1> DEFINE m == x \div k
           r == x % k
<1>1. m \in Int /\ r \in Int
  OBVIOUS
<1>2. x = k * m + r
  OBVIOUS
<1> HIDE DEF m, r
<1>3. k * m = m * k /\ m * k \in Int
  BY <1>1
<1>4. r = 0 <=> m * k = x
  BY <1>1, <1>2, <1>3
<1> QED BY <1>4 DEF OnGrid, Floor, m, r

LEMMA StepsAre ==
  ASSUME NEW k \in Nat \ {0}, NEW a, OnGrid(a, k), NEW z \in Int
  PROVE  /\ Steps(a, z, k) = {t \in Int : a <= t /\ t <= z /\ OnGrid(t, k)}
         /\ IsFiniteSet(Steps(a, z, k)) /\ Steps(a, z, k) \subseteq Int
<1>0. a \in Int
  BY DEF OnGrid
<1>1. ASSUME NEW t \in Int PROVE (t - a) % k = 0 <=> OnGrid(t, k)
  <2>1. a \div k \in Int /\ (a \div k) * k = a
    BY FloorIs DEF OnGrid, Floor
  <2> DEFINE m == a \div k
  <2>2. t - a \in Int
    BY <1>0
  <2>3. ASSUME OnGrid(t - a, k) PROVE OnGrid(t, k)
    <3>1. OnGrid((t - a) + m * k, k)
      BY <2>1, <2>3, GridShift
    <3>2. (t - a) + m * k = t
      BY <1>0, <2>1
    <3> QED BY <3>1, <3>2
  <2>4. ASSUME OnGrid(t, k) PROVE OnGrid(t - a, k)
    <3>1. OnGrid(t - m * k, k)
      BY <2>1, <2>4, GridShift
    <3> QED BY <2>1, <3>1
  <2> QED BY <2>2, <2>3, <2>4, GridRest
<1>2. Steps(a, z, k) = {t \in Int : a <= t /\ t <= z /\ OnGrid(t, k)}
  BY <1>0, <1>1 DEF Steps
<1>3. Steps(a, z, k) \subseteq a..z /\ IsFiniteSet(a..z)
  BY <1>0, FS_Interval DEF Steps
<1> QED BY <1>0, <1>2, <1>3, FS_Subset

-----------------------------------------------------------------------------
(* The time ranges.                                                        *)

LEMMA Lengths ==
  /\ Hour \in Nat \ {0} /\ Day \in Nat \ {0} /\ Gap \in Nat /\ Hour <= Day
  /\ OnGrid(Day, Hour)
<1>1. Hour \in Nat \ {0} /\ Day \in Nat \ {0} /\ Gap \in Nat /\ Day % Hour = 0
  BY BucketsAssumption
<1>2. OnGrid(Day, Hour)
  BY <1>1, GridRest
<1>3. Hour <= Day
  <2>1. OnGrid(0, Hour)
    <3>1. OnGrid(0 * Hour, Hour) /\ 0 * Hour = 0
      BY <1>1, GridTimes
    <3> QED BY <3>1
  <2>2. 0 + Hour <= Day
    BY <1>1, <1>2, <2>1, GridApart
  <2> QED BY <1>1, <2>2
<1> QED BY <1>1, <1>2, <1>3

LEMMA HourGrid ==
  ASSUME NEW b, OnGrid(b, Day)
  PROVE  OnGrid(b, Hour)
<1>1. b \in Int /\ b \div Day \in Int /\ (b \div Day) * Day = b
  BY Lengths, FloorIs DEF OnGrid, Floor
<1>2. Day \div Hour \in Int /\ (Day \div Hour) * Hour = Day
  BY Lengths, FloorIs DEF OnGrid, Floor
<1> DEFINE m == b \div Day
           n == Day \div Hour
<1> HIDE DEF m, n
<1>3. m \in Int /\ n \in Int /\ m * Day = b /\ n * Hour = Day
  BY <1>1, <1>2 DEF m, n
<1>4. (m * n) * Hour = m * (n * Hour) /\ m * n \in Int
  BY <1>3, Lengths
<1>5. OnGrid((m * n) * Hour, Hour)
  BY <1>4, Lengths, GridTimes
<1> QED BY <1>3, <1>4, <1>5

LEMMA DayIs ==
  ASSUME NEW x \in Int
  PROVE  /\ DayOf(x) \in Int /\ DayOf(x) <= x /\ x < DayOf(x) + Day /\ OnGrid(DayOf(x), Day)
         /\ HourOf(x) \in Int /\ HourOf(x) <= x /\ x < HourOf(x) + Hour /\ OnGrid(HourOf(x), Hour)
BY Lengths, FloorIs, GridFloor DEF DayOf, HourOf, Floor

LEMMA DayUnique ==
  ASSUME NEW b, OnGrid(b, Day), NEW x \in Int, b <= x, x < b + Day
  PROVE  DayOf(x) = b
BY Lengths, GridUnique DEF DayOf, Floor

LEMMA DayOn ==
  ASSUME NEW b, OnGrid(b, Day)
  PROVE  DayOf(b) = b
BY DEF OnGrid, DayOf, Floor

\* From the first second of a day to the last one, or to the first of the last hour.
IsRange(p) ==
  /\ OnGrid(p.from, Day) /\ p.to \in Int /\ p.from <= DayOf(p.to)
  /\ p.to \in {LastSecond(DayOf(p.to)), LastHour(DayOf(p.to))}

LEMMA RangeOf ==
  ASSUME NEW d, OnGrid(d, Day), NEW e, OnGrid(e, Day), d <= e
  PROVE  /\ IsRange(Of(d, LastSecond(e))) /\ IsRange(Of(d, LastHour(e)))
         /\ DayOf(LastSecond(e)) = e /\ DayOf(LastHour(e)) = e
<1>1. d \in Int /\ e \in Int
  BY DEF OnGrid
<1>2. /\ LastSecond(e) \in Int /\ e <= LastSecond(e) /\ LastSecond(e) < e + Day
      /\ LastHour(e) \in Int /\ e <= LastHour(e) /\ LastHour(e) < e + Day
  BY <1>1, Lengths DEF LastSecond, LastHour
<1>3. DayOf(LastSecond(e)) = e /\ DayOf(LastHour(e)) = e
  BY <1>2, DayUnique
<1> QED BY <1>2, <1>3 DEF IsRange, Of

LEMMA RangeBounds ==
  ASSUME NEW p, IsRange(p)
  PROVE  /\ p.from \in Int /\ p.to \in Int /\ DayOf(p.to) \in Int /\ DayOf(p.from) = p.from
         /\ p.from <= DayOf(p.to) /\ DayOf(p.to) <= p.to /\ p.to < DayOf(p.to) + Day
         /\ OnGrid(DayOf(p.to), Day) /\ p.to >= p.from + Gap /\ p.from <= p.to
<1>1. p.from \in Int /\ p.to \in Int
  BY DEF IsRange, OnGrid
<1>2. DayOf(p.from) = p.from
  BY DayOn DEF IsRange
<1>3. /\ DayOf(p.to) \in Int /\ DayOf(p.to) <= p.to /\ p.to < DayOf(p.to) + Day
      /\ OnGrid(DayOf(p.to), Day) /\ p.from <= DayOf(p.to)
  BY <1>1, DayIs DEF IsRange
<1>4. p.to >= DayOf(p.to) + Day - Hour
  BY <1>1, <1>3, Lengths DEF IsRange, LastSecond, LastHour
<1>5. p.to >= p.from + Gap
  BY <1>1, <1>3, <1>4, Lengths, StatAssumption
<1>6. p.from <= p.to
  BY <1>1, <1>5, Lengths
<1> QED BY <1>1, <1>2, <1>3, <1>5, <1>6

LEMMA MonthIs ==
  ASSUME NEW t \in Nat, \E m \in MonthStarts : m <= t
  PROVE  /\ MonthOf(t) \in MonthStarts /\ MonthOf(t) <= t
         /\ \A m \in MonthStarts : m <= t => m <= MonthOf(t)
<1> DEFINE S == {m \in MonthStarts : m <= t}
<1>1. MonthStarts \subseteq Nat
  BY StatAssumption
<1>2. ASSUME NEW m \in S PROVE m \in 0..t
  <2>1. m \in Nat /\ m <= t /\ t \in Int
    BY <1>1
  <2> QED BY <2>1
<1>6. S # {} /\ S \subseteq Nat
  BY <1>1
<1>5. IsFiniteSet(0..t)
  BY FS_Interval
<1>3. IsFiniteSet(S)
  BY <1>2, <1>5, FS_Subset
<1> HIDE DEF S
<1>4. Max(S) \in S /\ \A y \in S : y <= Max(S)
  BY <1>3, <1>6, MaxIs
<1> QED BY <1>4 DEF S, MonthOf

LEMMA NextMonthIs ==
  ASSUME NEW m \in MonthStarts, NEW e \in MonthStarts, m < e
  PROVE  NextMonth(m) \in MonthStarts /\ NextMonth(m) > m
<1> DEFINE S == {n \in MonthStarts : n > m}
<1>1. S \in SUBSET Nat /\ S # {}
  BY StatAssumption
<1> HIDE DEF S
<1>2. Min(S) \in S
  BY <1>1, MinIs
<1> QED BY <1>2 DEF S, NextMonth

LEMMA MonthGrid == \A m \in MonthStarts : m \in Nat /\ OnGrid(m, Day)
<1> SUFFICES ASSUME NEW m \in MonthStarts PROVE m \in Nat /\ OnGrid(m, Day)
  OBVIOUS
<1>1. m \in Nat /\ m % Day = 0
  BY StatAssumption
<1> QED BY <1>1, Lengths, GridRest
LEMMA WholeDays ==
  ASSUME NEW d, OnGrid(d, Day), NEW n \in Int
  PROVE  /\ OnGrid(DaysBack(d, n), Day) /\ (n >= 0 => DaysBack(d, n) <= d)
         /\ DaysBack(d, n) \in Int
<1>1. OnGrid(d - n * Day, Day)
  BY Lengths, GridShift
<1>2. n >= 0 => n * Day >= 0
  BY Lengths
<1>3. n * Day \in Int /\ d \in Int
  BY Lengths DEF OnGrid
<1> QED BY <1>1, <1>2, <1>3 DEF DaysBack

LEMMA TodayIs ==
  ASSUME NEW db, InCalendar(db.now)
  PROVE  /\ db.now \in Nat /\ OnGrid(Today(db), Day) /\ Today(db) \in Nat /\ Today(db) <= db.now
         /\ db.now < Today(db) + Day
<1>1. db.now \in Nat
  BY DEF InCalendar
<1>2. DayOf(db.now) \in Nat
  BY <1>1, EarlierBuckets
<1> QED BY <1>1, <1>2, DayIs DEF Today

\* The month of today, with one before it and one after it.
LEMMA MonthsAround ==
  ASSUME NEW db, InCalendar(db.now)
  PROVE  LET m == MonthOf(Today(db)) IN
         /\ m \in MonthStarts /\ m <= Today(db)
         /\ NextMonth(m) \in MonthStarts /\ NextMonth(m) > m
         /\ m - 1 \in Nat /\ MonthOf(m - 1) \in MonthStarts /\ MonthOf(m - 1) < m
<1> DEFINE t == Today(db)
           m == MonthOf(t)
<1>1. PICK a \in MonthStarts, b \in MonthStarts, e \in MonthStarts :
        a < b /\ b <= db.now /\ db.now < e
  BY DEF InCalendar
<1>2. a \in Nat /\ b \in Nat /\ e \in Nat /\ OnGrid(b, Day) /\ OnGrid(e, Day)
  BY MonthGrid
<1>3. t \in Nat /\ OnGrid(t, Day) /\ t <= db.now /\ db.now < t + Day /\ db.now \in Nat
  BY TodayIs
<1>4. b <= t
  <2>1. CASE t < b
    <3>1. t + Day <= b
      BY <1>2, <1>3, <2>1, Lengths, GridApart
    <3> QED BY <1>1, <1>2, <1>3, <3>1, Lengths
  <2> QED BY <1>2, <1>3, <2>1
<1>5. m \in MonthStarts /\ m <= t /\ b <= m
  BY <1>3, <1>4, MonthIs
<1>6. m \in Nat
  BY <1>5, MonthGrid
<1>7. m < e
  BY <1>1, <1>2, <1>3, <1>5, <1>6
<1>8. NextMonth(m) \in MonthStarts /\ NextMonth(m) > m
  BY <1>5, <1>7, NextMonthIs
<1>9. m - 1 \in Nat /\ a <= m - 1
  BY <1>1, <1>2, <1>5, <1>6
<1>10. MonthOf(m - 1) \in MonthStarts /\ MonthOf(m - 1) <= m - 1
  BY <1>9, MonthIs
<1>11. MonthOf(m - 1) < m
  <2>1. MonthOf(m - 1) \in Nat
    BY <1>10, MonthGrid
  <2> QED BY <1>6, <1>10, <2>1
<1> QED BY <1>5, <1>8, <1>9, <1>10, <1>11

LEMMA MondayIs ==
  ASSUME NEW d, OnGrid(d, Day)
  PROVE  OnGrid(Monday(d), Day)
<1>1. Week \in Nat \ {0} /\ Day \in Nat \ {0}
  BY StatAssumption, Lengths
<1>2. Week * Day \in Nat \ {0} /\ d \in Int
  BY <1>1 DEF OnGrid
<1> DEFINE k == d \div (Week * Day)
<1>3. k \in Int
  BY <1>2
<1> HIDE DEF k
<1>4. k * Week \in Int /\ k * Week * Day = (k * Week) * Day
  BY <1>1, <1>3
<1>5. OnGrid((k * Week) * Day, Day)
  BY <1>1, <1>4, GridTimes
<1> QED BY <1>5 DEF Monday, k

\* Both ranges of a request end in their last day.
LEMMA PeriodIsRange ==
  ASSUME NEW db, InCalendar(db.now), NEW range \in TimeRanges
  PROVE  IsRange(TimePeriod(db, range))
<1> DEFINE t == Today(db)
           m == MonthOf(t)
           e == DaysBack(NextMonth(m), 1)
           w == Monday(t)
<1>1. t \in Nat /\ OnGrid(t, Day)
  BY TodayIs
<1>2. Week \in Nat \ {0} /\ Thirty \in Nat \ {0} /\ Week - 1 \in Nat /\ Thirty - 1 \in Nat
      /\ Day \in Nat \ {0}
  BY StatAssumption, Lengths
<1>3. \A n \in Nat : OnGrid(DaysBack(t, n), Day) /\ DaysBack(t, n) <= t
  <2> SUFFICES ASSUME NEW n \in Nat PROVE OnGrid(DaysBack(t, n), Day) /\ DaysBack(t, n) <= t
    OBVIOUS
  <2>1. n \in Int /\ n >= 0
    OBVIOUS
  <2> HIDE DEF t
  <2> QED BY <1>1, <2>1, WholeDays
<1>4. IsRange(WholeDay(t)) /\ IsRange(WholeDay(DaysBack(t, 1)))
      /\ IsRange(Of(DaysBack(t, Week - 1), LastSecond(t)))
      /\ IsRange(Of(DaysBack(t, Thirty - 1), LastSecond(t)))
  <2>1. \A d : OnGrid(d, Day) => d <= d
    BY DEF OnGrid
  <2> QED BY <1>1, <1>2, <1>3, <2>1, RangeOf DEF WholeDay
<1>5. IsRange(Of(w, LastHour(w + (Week - 1) * Day)))
  <2>1. OnGrid(w, Day) /\ w \in Int
    BY <1>1, MondayIs DEF OnGrid
  <2>2. OnGrid(w + (Week - 1) * Day, Day)
    BY <1>2, <2>1, GridShift
  <2>3. (Week - 1) * Day >= 0 /\ (Week - 1) * Day \in Int
    BY <1>2
  <2>4. w <= w + (Week - 1) * Day
    BY <2>1, <2>3
  <2> HIDE DEF w
  <2> QED BY <2>1, <2>2, <2>4, RangeOf
<1>6. IsRange(Of(m, LastHour(e)))
  <2>1. m \in MonthStarts /\ NextMonth(m) \in MonthStarts /\ NextMonth(m) > m
    BY MonthsAround
  <2>2. OnGrid(m, Day) /\ OnGrid(NextMonth(m), Day) /\ m \in Int /\ NextMonth(m) \in Int
    BY <2>1, MonthGrid
  <2> HIDE DEF m
  <2>3. m + Day <= NextMonth(m)
    BY <1>2, <2>1, <2>2, GridApart
  <2>4. OnGrid(e, Day)
    BY <2>2, WholeDays
  <2>5. e = NextMonth(m) - Day
    BY <1>2, <2>2 DEF DaysBack
  <2>6. m <= e
    BY <1>2, <2>2, <2>3, <2>5
  <2> QED BY <2>2, <2>4, <2>6, RangeOf
<1>7. range \in {"today", "yesterday", "week", "last7days", "month", "last30days"}
  BY DEF TimeRanges
<1> QED BY <1>4, <1>5, <1>6, <1>7 DEF TimePeriod

LEMMA PreviousIsRange ==
  ASSUME NEW db, InCalendar(db.now), NEW range \in TimeRanges
  PROVE  IsRange(PreviousTimeRange(db, range))
<1> DEFINE t == Today(db)
           m == MonthOf(t)
           a == MonthOf(m - 1)
           p == TimePeriod(db, "week")
           b == DaysBack(p.from, Week)
           e == DaysBack(DayOf(p.to), Week)
<1>1. t \in Nat /\ OnGrid(t, Day)
  BY TodayIs
<1>2. Week \in Nat \ {0} /\ Thirty \in Nat \ {0} /\ Day \in Nat \ {0}
  BY StatAssumption, Lengths
<1>3. \A n \in Nat : OnGrid(DaysBack(t, n), Day)
  BY <1>1, WholeDays
<1>4. IsRange(WholeDay(DaysBack(t, 1))) /\ IsRange(WholeDay(DaysBack(t, 2)))
  <2>1. \A d : OnGrid(d, Day) => d <= d
    BY DEF OnGrid
  <2> QED BY <1>3, <2>1, RangeOf DEF WholeDay
<1>5. ASSUME NEW n \in Nat \ {0} PROVE IsRange(Preceding(db, n))
  <2>1. OnGrid(DaysBack(t, 2 * n - 1), Day) /\ OnGrid(DaysBack(t, n), Day)
    BY <1>3
  <2>2. (2 * n - 1) * Day >= n * Day /\ (2 * n - 1) * Day \in Int /\ n * Day \in Int
    BY <1>2
  <2>3. DaysBack(t, 2 * n - 1) <= DaysBack(t, n)
    BY <1>1, <2>2 DEF DaysBack
  <2> QED BY <2>1, <2>3, RangeOf DEF Preceding
<1>6. IsRange(Of(b, DaysBack(p.to, Week)))
  <2>1. IsRange(p)
    BY PeriodIsRange DEF TimeRanges
  <2>2. OnGrid(p.from, Day) /\ OnGrid(DayOf(p.to), Day) /\ p.from <= DayOf(p.to)
        /\ p.from \in Int /\ p.to \in Int /\ DayOf(p.to) \in Int
        /\ p.to \in {LastSecond(DayOf(p.to)), LastHour(DayOf(p.to))}
    BY <2>1, RangeBounds DEF IsRange
  <2> HIDE DEF p
  <2>3. OnGrid(b, Day) /\ OnGrid(e, Day)
    <3>1. Week \in Int
      BY <1>2
    <3> QED BY <2>2, <3>1, WholeDays
  <2>4. Week * Day \in Int
    BY <1>2
  <2>5. b <= e /\ DaysBack(p.to, Week) \in {LastSecond(e), LastHour(e)}
    BY <1>2, <2>2, <2>4, Lengths DEF DaysBack, LastSecond, LastHour
  <2> HIDE DEF b, e
  <2> QED BY <2>3, <2>5, RangeOf
<1>7. IsRange(Of(a, m - 1))
  <2>1. m \in MonthStarts /\ a \in MonthStarts /\ a < m
    BY MonthsAround
  <2>2. OnGrid(m, Day) /\ OnGrid(a, Day) /\ m \in Int /\ a \in Int
    BY <2>1, MonthGrid
  <2> HIDE DEF m, a
  <2>3. a + Day <= m
    BY <1>2, <2>1, <2>2, GridApart
  <2> DEFINE d == DaysBack(m, 1)
  <2>4. OnGrid(d, Day)
    BY <2>2, WholeDays
  <2>5. d = m - Day /\ LastSecond(d) = m - 1
    BY <1>2, <2>2 DEF DaysBack, LastSecond
  <2>6. a <= d
    BY <1>2, <2>2, <2>3, <2>5
  <2> HIDE DEF d
  <2> QED BY <2>2, <2>4, <2>5, <2>6, RangeOf
<1>8. range \in {"today", "yesterday", "week", "last7days", "month", "last30days"}
  BY DEF TimeRanges
<1> QED BY <1>2, <1>4, <1>5, <1>6, <1>7, <1>8 DEF PreviousTimeRange
-----------------------------------------------------------------------------
(* The rows.                                                               *)

Rows(R) ==
  /\ IsFiniteSet(R)
  /\ \A r \in R : r.n \in Nat /\ r.line.ts \in Nat /\ r.line.pv \in BOOLEAN
                  /\ r.line.bytes \in Nat
  /\ \A r \in R : \A q \in R : r.n = q.n => r = q

LEMMA RowsPart ==
  ASSUME NEW R, Rows(R), NEW S \in SUBSET R
  PROVE  Rows(S) /\ IsFiniteSet(S) /\ Cardinality(S) \in Nat /\ Cardinality(S) <= Cardinality(R)
         /\ Cardinality(R) \in Nat
<1>1. IsFiniteSet(S) /\ Cardinality(S) <= Cardinality(R)
  BY FS_Subset DEF Rows
<1>2. Cardinality(S) \in Nat /\ Cardinality(R) \in Nat
  BY <1>1, FS_CardinalityType DEF Rows
<1> QED BY <1>1, <1>2 DEF Rows

\* The members that an operator picks; how many they are of two sets without one in common.
LEMMA CountBoth ==
  ASSUME NEW S, IsFiniteSet(S), NEW A, NEW B, S = A \cup B, A \cap B = {}
  PROVE  /\ IsFiniteSet(A) /\ IsFiniteSet(B)
         /\ Cardinality(A) \in Nat /\ Cardinality(B) \in Nat
         /\ Cardinality(S) = Cardinality(A) + Cardinality(B)
<1>1. IsFiniteSet(A) /\ IsFiniteSet(B)
  BY FS_Subset
<1>2. Cardinality(A \cup B) = Cardinality(A) + Cardinality(B) - Cardinality(A \cap B)
  BY <1>1, FS_Union
<1>3. Cardinality(A \cap B) = 0
  BY FS_EmptySet
<1>4. Cardinality(A) \in Nat /\ Cardinality(B) \in Nat
  BY <1>1, FS_CardinalityType
<1> QED BY <1>1, <1>2, <1>3, <1>4

LEMMA OverZeros ==
  ASSUME NEW f, NEW S, IsFiniteSet(S), \A x \in S : f[x] = 0
  PROVE  Summed(f, S) = 0
<1> DEFINE G == {u \in SUBSET S : Summed(f, u) = 0}
<1>1. \A u \in SUBSET S : IsFiniteSet(u) /\ Summed(f, u) \in Int
  BY OverInt
<1>2. {} \in G
  BY OverNone
<1>3. ASSUME NEW u \in SUBSET S, NEW x \in u, u \ {x} \in G PROVE u \in G
  <2>1. Summed(f, u) = f[x] + Summed(f, u \ {x})
    BY <1>1, OverPoint
  <2>2. f[x] = 0 /\ Summed(f, u \ {x}) = 0
    BY <1>3
  <2> QED BY <2>1, <2>2
<1> HIDE DEF G
<1>4. S \in G
  BY ONLY <1>2, <1>3, IsFiniteSet(S), OneMore
<1> QED BY <1>4 DEF G

\* A counter of ones counts the rows that it is one for.
LEMMA TallyCounts ==
  ASSUME NEW R, IsFiniteSet(R), NEW c \in Counters, NEW S \in SUBSET R,
         \A r \in S : Adds(r.line, c) = 1, \A r \in R \ S : Adds(r.line, c) = 0
  PROVE  Tally(R)[c] = Cardinality(S)
<1> DEFINE f == [r \in R |-> Adds(r.line, c)]
<1>1. f = [x \in R |-> f[x]] /\ (\A r \in S : f[r] = 1) /\ \A r \in R \ S : f[r] = 0
  OBVIOUS
<1>2. Tally(R)[c] = SumOf(f)
  BY DEF Tally
<1> HIDE DEF f
<1>3. SumOf(f) = Summed(f, R)
  BY <1>1, OverAll
<1>4. IsFiniteSet(S) /\ IsFiniteSet(R \ S)
  BY FS_Subset
<1>5. Summed(f, S) = Cardinality(S) /\ Summed(f, R \ S) = 0
  BY <1>1, <1>4, OverOnes, OverZeros
<1>6. Summed(f, R) = Summed(f, S) + Summed(f, R \ S)
  <2> DEFINE Q == R \ S
  <2>1. S \cup Q = R /\ S \cap Q = {} /\ IsFiniteSet(Q) /\ \A x \in S \cup Q : f[x] \in Int
    BY <1>1, <1>4
  <2>2. Summed(f, S \cup Q) = Summed(f, S) + Summed(f, Q)
    <3> HIDE DEF Q
    <3> QED BY <1>4, <2>1, OverUnion
  <2> QED BY <2>1, <2>2
<1>7. Cardinality(S) \in Nat
  BY <1>4, FS_CardinalityType
<1> QED BY <1>2, <1>3, <1>5, <1>6, <1>7

LEMMA PvViews ==
  ASSUME NEW R, Rows(R)
  PROVE  Tally(R)["pv"] = Cardinality(Views(R)) /\ Cardinality(Views(R)) \in Nat
         /\ IsFiniteSet(Views(R))
<1>1. "pv" \in Counters /\ IsFiniteSet(R) /\ Views(R) \in SUBSET R
  BY DEF Counters, Views, Rows
<1>2. (\A r \in Views(R) : Adds(r.line, "pv") = 1) /\ \A r \in R \ Views(R) : Adds(r.line, "pv") = 0
  BY DEF Adds, Views, Rows
<1>3. Tally(R)["pv"] = Cardinality(Views(R))
  BY <1>1, <1>2, TallyCounts
<1> QED BY <1>1, <1>3, RowsPart

\* The visitors of the rows.
LEMMA AddressesOf ==
  ASSUME NEW R, Rows(R), NEW S \in SUBSET R
  PROVE  /\ Addresses(S) \subseteq Addresses(R) /\ IsFiniteSet(Addresses(S))
         /\ Cardinality(Addresses(S)) \in Nat
         /\ Cardinality(Addresses(S)) <= Cardinality(Addresses(R))
<1> DEFINE f == [r \in R |-> r.ip]
<1>1. IsFiniteSet(Views(R))
  BY PvViews
<1>2. IsFiniteSet({f[r] : r \in Views(R)})
  BY <1>1, ImageFinite
<1>3. Addresses(R) = {f[r] : r \in Views(R)} /\ Addresses(S) \subseteq Addresses(R)
  BY DEF Addresses, Views
<1>4. IsFiniteSet(Addresses(R))
  BY <1>2, <1>3
<1> QED BY <1>3, <1>4, FS_Subset, FS_CardinalityType
-----------------------------------------------------------------------------
(* Whole days.                                                             *)

\* The session tables.
IsVisits(T) == IsFiniteSet(T) /\ \A s \in T : s.start \in Int
IsDb(db) == /\ Rows(db.rows) /\ InCalendar(db.now) /\ db.schema \in Schemas
            /\ IsVisits(db.sessions)

Span(R, a, z) == {r \in R : a <= r.line.ts /\ r.line.ts < z}

LEMMA DaysAre ==
  ASSUME NEW p, p.from \in Int, p.to \in Int
  PROVE  /\ IsFiniteSet(DaysOf(p)) /\ DaysOf(p) \subseteq Int
         /\ DaysOf(p) = {d \in Int : DayOf(p.from) <= d /\ d <= DayOf(p.to) /\ OnGrid(d, Day)}
         /\ \A x \in Int : DayOf(x) \in DaysOf(p) <=> DayOf(p.from) <= x /\ x < DayOf(p.to) + Day
<1> DEFINE a == DayOf(p.from)
           z == DayOf(p.to)
<1>1. a \in Int /\ OnGrid(a, Day) /\ z \in Int /\ OnGrid(z, Day)
  BY DayIs
<1> HIDE DEF a, z
<1>2. /\ Steps(a, z, Day) = {d \in Int : a <= d /\ d <= z /\ OnGrid(d, Day)}
      /\ IsFiniteSet(Steps(a, z, Day)) /\ Steps(a, z, Day) \subseteq Int
  BY <1>1, Lengths, StepsAre
<1>3. DaysOf(p) = Steps(a, z, Day)
  BY DEF DaysOf, a, z
<1>4. ASSUME NEW x \in Int PROVE a <= DayOf(x) /\ DayOf(x) <= z <=> a <= x /\ x < z + Day
  <2>1. DayOf(x) \in Int /\ DayOf(x) <= x /\ x < DayOf(x) + Day /\ OnGrid(DayOf(x), Day)
    BY DayIs
  <2>2. Day \in Nat
    BY Lengths
  <2>3. a <= x => a <= DayOf(x)
    <3> SUFFICES ASSUME a <= x, DayOf(x) < a PROVE FALSE
      BY <1>1, <2>1
    <3>1. DayOf(x) + Day <= a
      BY <1>1, <2>1, Lengths, GridApart
    <3> QED BY <1>1, <2>1, <2>2, <3>1
  <2>4. x < z + Day => DayOf(x) <= z
    <3> SUFFICES ASSUME x < z + Day, z < DayOf(x) PROVE FALSE
      BY <1>1, <2>1
    <3>1. z + Day <= DayOf(x)
      BY <1>1, <2>1, Lengths, GridApart
    <3> QED BY <1>1, <2>1, <2>2, <3>1
  <2> QED BY <1>1, <2>1, <2>2, <2>3, <2>4
<1>5. \A x \in Int : DayOf(x) \in Int /\ OnGrid(DayOf(x), Day)
  BY DayIs
<1>6. \A x \in Int : DayOf(x) \in DaysOf(p) <=> a <= x /\ x < z + Day
  BY <1>2, <1>3, <1>4, <1>5
<1> QED BY <1>2, <1>3, <1>6 DEF a, z

\* What is counted day by day is what there is in the days.
LEMMA DaysCount ==
  ASSUME NEW S, IsFiniteSet(S), NEW t, \A x \in S : t[x] \in Int,
         NEW p, p.from \in Int, p.to \in Int
  PROVE  SumOf([d \in DaysOf(p) |-> Cardinality({x \in S : DayOf(t[x]) = d})])
           = Cardinality({x \in S : DayOf(p.from) <= t[x] /\ t[x] < DayOf(p.to) + Day})
<1> DEFINE D == DaysOf(p)
           U == {x \in S : DayOf(p.from) <= t[x] /\ t[x] < DayOf(p.to) + Day}
           key == [x \in S |-> DayOf(t[x])]
           f == [d \in D |-> Cardinality({x \in S : DayOf(t[x]) = d})]
           g == [d \in D |-> Cardinality(KeyPart(key, U, d))]
<1>1. IsFiniteSet(D)
      /\ \A x \in Int : DayOf(x) \in D <=> DayOf(p.from) <= x /\ x < DayOf(p.to) + Day
  BY DaysAre
<1>2. IsFiniteSet(U)
  BY FS_Subset
<1>3. \A x \in U : key[x] \in D
  BY <1>1
<1>4. \A d \in D : {x \in S : DayOf(t[x]) = d} = KeyPart(key, U, d)
  BY <1>1 DEF KeyPart
<1>5. f = g
  BY <1>4
<1>6. g = [d \in D |-> g[d]]
  OBVIOUS
<1>7. Cardinality(U) = Summed([d \in D |-> Cardinality(KeyPart(key, U, d))], D)
  <2> HIDE DEF U, D, key
  <2> QED BY <1>1, <1>2, <1>3, CountKeys
<1>8. SumOf(g) = Summed(g, D)
  <2> HIDE DEF g, D
  <2> QED BY <1>6, OverAll
<1>9. SumOf(f) = Cardinality(U)
  BY <1>5, <1>7, <1>8
<1> QED BY <1>9

\* The rows of the days of a range.
Whole(db, p) == Span(db.rows, DayOf(p.from), DayOf(p.to) + Day)
Counted(db, p, q) == IF q.on THEN Raw(db, p, q) ELSE Whole(db, p)

LEMMA DailyViews ==
  ASSUME NEW db, IsDb(db), NEW p, p.from \in Int, p.to \in Int
  PROVE  Daily(db, p, "pv") = Cardinality(Views(Whole(db, p)))
<1> DEFINE S == Views(db.rows)
           t == [r \in S |-> r.line.ts]
           f == [d \in DaysOf(p) |-> Tally(InDay(db.rows, d))["pv"]]
           g == [d \in DaysOf(p) |-> Cardinality({r \in S : DayOf(t[r]) = d})]
<1>0. IsFiniteSet(S)
  BY PvViews DEF IsDb
<1>1. IsFiniteSet(S) /\ \A r \in S : t[r] \in Int
  BY <1>0 DEF IsDb, Rows, Views
<1>2. ASSUME NEW d PROVE Tally(InDay(db.rows, d))["pv"] = Cardinality({r \in S : DayOf(t[r]) = d})
  <2>1. Rows(InDay(db.rows, d))
    BY RowsPart DEF InDay, IsDb
  <2>2. Views(InDay(db.rows, d)) = {r \in S : DayOf(t[r]) = d}
    BY DEF Views, InDay
  <2> QED BY <2>1, <2>2, PvViews
<1>3. f = g
  BY <1>2
<1>4. {r \in S : DayOf(p.from) <= t[r] /\ t[r] < DayOf(p.to) + Day} = Views(Whole(db, p))
  BY DEF Views, Whole, Span
<1>5. SumOf(g) = Cardinality({r \in S : DayOf(p.from) <= t[r] /\ t[r] < DayOf(p.to) + Day})
  <2> HIDE DEF S, t
  <2> QED BY <1>1, DaysCount
<1> QED BY <1>3, <1>4, <1>5 DEF Daily

LEMMA CountedRows ==
  ASSUME NEW db, IsDb(db), NEW p, NEW q
  PROVE  /\ Raw(db, p, q) \in SUBSET db.rows /\ Whole(db, p) \in SUBSET db.rows
         /\ Counted(db, p, q) \in SUBSET db.rows
         /\ Rows(Raw(db, p, q)) /\ Rows(Whole(db, p)) /\ Rows(Counted(db, p, q))
<1>1. Raw(db, p, q) \in SUBSET db.rows /\ Whole(db, p) \in SUBSET db.rows
      /\ Counted(db, p, q) \in SUBSET db.rows
  BY DEF Raw, Whole, Span, Counted
<1>2. Rows(db.rows)
  BY DEF IsDb
<1> QED BY <1>1, <1>2, RowsPart

LEMMA ColumnIs ==
  ASSUME NEW db, IsDb(db), NEW p, p.from \in Int, p.to \in Int, NEW q
  PROVE  /\ Column(db, p, q, "pv") = Cardinality(Views(Counted(db, p, q)))
         /\ Visitors(db, p, q) = Addresses(Counted(db, p, q))
<1>1. Column(db, p, q, "pv") = Cardinality(Views(Counted(db, p, q)))
  <2>1. Rows(Raw(db, p, q))
    BY CountedRows
  <2> QED BY <2>1, PvViews, DailyViews DEF Column, Counted
<1>2. DayVisitors(db, p) = Addresses(Whole(db, p))
  <2>1. \A x \in Int : DayOf(x) \in DaysOf(p) <=> DayOf(p.from) <= x /\ x < DayOf(p.to) + Day
    BY DaysAre
  <2>2. \A r \in db.rows : r.line.ts \in Int
    BY DEF IsDb, Rows
  <2>3. ASSUME NEW i \in DayVisitors(db, p) PROVE i \in Addresses(Whole(db, p))
    <3>1. PICK y \in DayIPs(db.rows) : i = y[2] /\ y[1] \in DaysOf(p)
      BY DEF DayVisitors
    <3>2. PICK r \in Views(db.rows) : y = <<DayOf(r.line.ts), r.ip>>
      BY DEF DayIPs
    <3>3. r \in Views(Whole(db, p)) /\ i = r.ip
      BY <2>1, <2>2, <3>1, <3>2 DEF Views, Whole, Span
    <3> QED BY <3>3 DEF Addresses
  <2>4. ASSUME NEW i \in Addresses(Whole(db, p)) PROVE i \in DayVisitors(db, p)
    <3>1. PICK r \in Views(Whole(db, p)) : i = r.ip
      BY DEF Addresses
    <3>2. r \in Views(db.rows) /\ DayOf(r.line.ts) \in DaysOf(p)
      BY <2>1, <2>2, <3>1 DEF Views, Whole, Span
    <3>3. <<DayOf(r.line.ts), r.ip>> \in DayIPs(db.rows)
      BY <3>2 DEF DayIPs
    <3> QED BY <3>1, <3>2, <3>3 DEF DayVisitors
  <2> QED BY <2>3, <2>4
<1> QED BY <1>1, <1>2 DEF Visitors, Counted
-----------------------------------------------------------------------------
(* The pages of the sources, of the developer and of this moment.          *)

LEMMA SourcesPart ==
  ASSUME NEW db, IsDb(db), NEW p, NEW q
  PROVE  RefererIPs(db, p, q, "all").total
           = RefererIPs(db, p, q, "search").total + RefererIPs(db, p, q, "direct").total
             + RefererIPs(db, p, q, "external").total
<1> DEFINE V == Views(Raw(db, p, q))
           Kind(k) == {r \in V : SourceIs(k, r.line.ref)}
<1>1. IsFiniteSet(V)
  BY CountedRows, PvViews
<1>2. \A k : RefererIPs(db, p, q, k).total = Cardinality(Kind(k))
  BY DEF RefererIPs
<1>3. /\ Kind("all") = V
      /\ Kind("search") = {r \in V : r.line.ref = "search"}
      /\ Kind("direct") = {r \in V : r.line.ref = "direct"}
      /\ Kind("external") = {r \in V : r.line.ref # "search" /\ r.line.ref # "direct"}
  BY DEF SourceIs
<1> DEFINE rest == Kind("direct") \cup Kind("external")
<1> HIDE DEF V
<1>4. V = Kind("search") \cup rest /\ Kind("search") \cap rest = {}
      /\ Kind("direct") \cap Kind("external") = {}
  BY <1>3
<1> HIDE DEF Kind
<1>5. /\ Cardinality(V) = Cardinality(Kind("search")) + Cardinality(rest) /\ IsFiniteSet(rest)
      /\ Cardinality(Kind("search")) \in Nat
  <2> HIDE DEF rest
  <2> QED BY <1>1, <1>4, CountBoth
<1>6. Cardinality(rest) = Cardinality(Kind("direct")) + Cardinality(Kind("external"))
      /\ Cardinality(Kind("direct")) \in Nat /\ Cardinality(Kind("external")) \in Nat
  BY <1>4, <1>5, CountBoth
<1> QED BY <1>2, <1>3, <1>5, <1>6

LEMMA OneDay ==
  ASSUME NEW db, IsDb(db), NEW d, OnGrid(d, Day), NEW c \in Counters, NEW q, ~q.on
  PROVE  Daily(db, WholeDay(d), c) = Tally(DayRows(db, d, q))[c]
<1>1. d \in Int /\ Day \in Nat \ {0}
  BY Lengths DEF OnGrid
<1> DEFINE p == WholeDay(d)
           R == InDay(db.rows, d)
<1>2. p.from = d /\ p.to = LastSecond(d) /\ LastSecond(d) \in Int
  BY <1>1 DEF WholeDay, Of, LastSecond
<1>3. DayOf(d) = d /\ DayOf(LastSecond(d)) = d
  <2>1. d <= d
    BY <1>1
  <2> QED BY <2>1, RangeOf, DayOn
<1>4. DaysOf(p) = {d}
  <2>1. DaysOf(p) = {e \in Int : DayOf(p.from) <= e /\ e <= DayOf(p.to) /\ OnGrid(e, Day)}
    BY <1>1, <1>2, DaysAre
  <2> QED BY <1>1, <1>2, <1>3, <2>1
<1>5. R = DayRows(db, d, q)
  <2>1. \A r \in db.rows : r.line.ts \in Int
    BY DEF IsDb, Rows
  <2>2. \A x \in Int : DayOf(x) = d <=> d <= x /\ x < d + Day
    BY DayIs, DayUnique
  <2> QED BY <2>1, <2>2 DEF InDay, DayRows, Raw, Of
<1> DEFINE f == [e \in DaysOf(p) |-> Tally(InDay(db.rows, e))[c]]
<1>6. Tally(R)[c] \in Int
  <2> DEFINE g == [r \in R |-> Adds(r.line, c)]
  <2>0. R \in SUBSET db.rows
    BY DEF InDay
  <2>1. IsFiniteSet(R) /\ \A r \in R : g[r] \in Int
    <3>1. Rows(R)
      BY <2>0, RowsPart DEF IsDb
    <3> QED BY <3>1 DEF Rows, Adds
  <2>2. g = [r \in R |-> g[r]] /\ R \in SUBSET R /\ Tally(R)[c] = SumOf(g)
    BY DEF Tally
  <2> HIDE DEF g, R
  <2>3. SumOf(g) = Summed(g, R) /\ Summed(g, R) \in Int
    BY <2>1, <2>2, OverAll, OverInt
  <2> QED BY <2>2, <2>3
<1>7. f = [e \in {d} |-> f[e]] /\ f[d] = Tally(R)[c]
  BY <1>4
<1>8. Daily(db, p, c) = SumOf(f)
  BY DEF Daily
<1> HIDE DEF f
<1>9. SumOf(f) = Summed(f, {d}) /\ Summed(f, {d}) = f[d]
  BY <1>6, <1>7, OverAll, OverOne
<1> QED BY <1>5, <1>7, <1>8, <1>9
LEMMA DivOrder ==
  ASSUME NEW a \in Int, NEW b \in Int, a <= b, NEW k \in Nat \ {0}
  PROVE  a \div k <= b \div k /\ a \div k \in Int /\ b \div k \in Int
<1> DEFINE p == a \div k
           q == b \div k
<1>1. p \in Int /\ q \in Int /\ p * k <= a /\ b < (q + 1) * k
  OBVIOUS
<1> HIDE DEF p, q
<1>2. CASE q < p
  <2>1. (q + 1) * k <= p * k
    BY <1>1, <1>2
  <2>2. (q + 1) * k \in Int /\ p * k \in Int
    BY <1>1
  <2> QED BY <1>1, <2>1, <2>2
<1> QED BY <1>1, <1>2 DEF p, q

LEMMA DivShift ==
  ASSUME NEW a \in Int, NEW n \in Int, NEW k \in Nat \ {0}
  PROVE  (a - n * k) \div k = a \div k - n
<1> DEFINE m == a \div k
<1>1. m \in Int /\ m * k <= a /\ a < m * k + k
  OBVIOUS
<1> HIDE DEF m
<1>2. (m - n) * k = m * k - n * k /\ m * k \in Int /\ n * k \in Int /\ m - n \in Int
  BY <1>1
<1>3. (m - n) * k <= a - n * k /\ a - n * k < (m - n) * k + k /\ a - n * k \in Int
  BY <1>1, <1>2
<1>4. (a - n * k) \div k = m - n
  BY <1>2, <1>3, FloorOf
<1> QED BY <1>4 DEF m

\* The minutes of the series and the one that is running are all of the window.
LEMMA RealtimePart ==
  ASSUME NEW db, IsDb(db), NEW at \in Int
  PROVE  LET R == RealtimeRows(db, at)
             running == Addresses({x \in R : x.line.ts \div Minute = at \div Minute})
                        \ Addresses({x \in R : x.line.ts \div Minute # at \div Minute})
         IN Cardinality(Addresses(R))
              <= SumOf([i \in 1..RealtimeWindow |-> ActiveSeries(db, at)[i]]) + Cardinality(running)
<1> DEFINE R == RealtimeRows(db, at)
           M(x) == x.line.ts \div Minute
           m == at \div Minute
           running == Addresses({x \in R : M(x) = m}) \ Addresses({x \in R : M(x) # m})
           K == 1..RealtimeWindow
           F == [i \in K |-> Addresses({r \in R : M(r) = SeriesBucket(at, i)})]
           U == UNION {F[i] : i \in K}
           c == [i \in K |-> Cardinality(F[i])]
           s == [i \in K |-> ActiveSeries(db, at)[i]]
<1>1. Minute \in Nat \ {0} /\ RealtimeWindow \in Nat \ {0}
  BY StatAssumption
<1>2. RealtimeStart(at) \in Int /\ RealtimeStart(at) \div Minute = m - RealtimeWindow /\ m \in Int
  <2>1. RealtimeWindow * Minute \in Int /\ m \in Int /\ RealtimeWindow \in Int
    BY <1>1
  <2>2. (at - RealtimeWindow * Minute) \div Minute = m - RealtimeWindow
    BY <1>1, <2>1, DivShift
  <2> QED BY <2>1, <2>2 DEF RealtimeStart
<1>3. \A i \in K : SeriesBucket(at, i) = m - RealtimeWindow + i - 1
  BY <1>2 DEF SeriesBucket
<1>4. R \in SUBSET db.rows /\ Rows(R)
  BY CountedRows DEF RealtimeRows
<1>5. ASSUME NEW r \in R PROVE M(r) \in (m - RealtimeWindow)..m
  <2>1. r.line.ts \in Int /\ RealtimeStart(at) <= r.line.ts /\ r.line.ts <= at
    BY <1>4 DEF Rows, RealtimeRows, Raw, Of
  <2>2. RealtimeStart(at) \div Minute <= M(r) /\ M(r) <= m /\ M(r) \in Int
    BY <1>1, <1>2, <2>1, DivOrder
  <2> QED BY <1>1, <1>2, <2>2
<1>6. ASSUME NEW a \in Addresses(R) PROVE a \in U \cup running
  <2>1. CASE a \in Addresses({x \in R : M(x) # m})
    <3>1. PICK r \in R : r.line.pv /\ a = r.ip /\ M(r) # m
      BY <2>1 DEF Addresses, Views
    <3>2. M(r) \in (m - RealtimeWindow)..(m - 1)
      <4>1. M(r) \in (m - RealtimeWindow)..m
        BY <1>5
      <4> HIDE DEF m, M
      <4> QED BY <1>1, <1>2, <3>1, <4>1
    <3> DEFINE i == M(r) - (m - RealtimeWindow) + 1
    <3>3. i \in K /\ M(r) = m - RealtimeWindow + i - 1
      <4> HIDE DEF m, M
      <4> QED BY <1>1, <1>2, <3>2
    <3>4. M(r) = SeriesBucket(at, i)
      BY <1>3, <3>3
    <3> HIDE DEF i
    <3>5. a \in F[i]
      BY <3>1, <3>3, <3>4 DEF Addresses, Views
    <3> QED BY <3>3, <3>5
  <2>2. CASE a \notin Addresses({x \in R : M(x) # m})
    <3>1. a \in Addresses({x \in R : M(x) = m})
      BY <2>2 DEF Addresses, Views
    <3> QED BY <2>2, <3>1
  <2> QED BY <2>1, <2>2
<1>7. \A i \in K : IsFiniteSet(F[i])
  BY <1>4, AddressesOf
<1>8. IsFiniteSet(running) /\ IsFiniteSet(K)
  <2>1. IsFiniteSet(Addresses({x \in R : M(x) = m}))
    BY <1>4, AddressesOf
  <2>2. IsFiniteSet(running)
    BY <2>1, FS_Subset
  <2>3. IsFiniteSet(K)
    BY <1>1, FS_Interval
  <2> QED BY <2>2, <2>3
<1>9. IsFiniteSet(U) /\ Cardinality(U) <= Summed(c, K)
  <2> HIDE DEF F, K
  <2> QED BY <1>7, <1>8, UnionCount
<1>10. c = s
  BY DEF ActiveSeries
<1>11. SumOf(c) = Summed(c, K)
  <2>1. c = [i \in K |-> c[i]]
    OBVIOUS
  <2> HIDE DEF c, K
  <2> QED BY <2>1, OverAll
<1>12. Cardinality(U \cup running) <= Cardinality(U) + Cardinality(running)
       /\ IsFiniteSet(U \cup running)
  <2> HIDE DEF U, running
  <2>1. /\ IsFiniteSet(U \cup running) /\ IsFiniteSet(U \cap running)
        /\ Cardinality(U \cup running)
             = Cardinality(U) + Cardinality(running) - Cardinality(U \cap running)
    BY <1>8, <1>9, FS_Union, FS_Subset
  <2>2. Cardinality(U) \in Nat /\ Cardinality(running) \in Nat
        /\ Cardinality(U \cap running) \in Nat
    BY <1>8, <1>9, <2>1, FS_CardinalityType
  <2> QED BY <2>1, <2>2
<1>13. Cardinality(Addresses(R)) <= Cardinality(U \cup running)
  BY <1>6, <1>12, FS_Subset
<1>14. /\ Cardinality(Addresses(R)) \in Nat /\ Cardinality(U \cup running) \in Nat
       /\ Cardinality(U) \in Nat /\ Cardinality(running) \in Nat
  <2>1. IsFiniteSet(Addresses(R))
    BY <1>4, AddressesOf
  <2> QED BY <1>8, <1>9, <1>12, <2>1, FS_CardinalityType
<1>15. Summed(c, K) \in Int
  <2>1. \A i \in K : c[i] \in Int
    BY <1>7, FS_CardinalityType
  <2>2. K \in SUBSET K
    OBVIOUS
  <2> HIDE DEF c, K
  <2> QED BY <1>8, <2>1, <2>2, OverInt
<1>16. Cardinality(Addresses(R)) <= SumOf(s) + Cardinality(running)
  <2> HIDE DEF c, s, U, running, R, K
  <2> QED BY <1>9, <1>10, <1>11, <1>12, <1>13, <1>14, <1>15
<1> QED BY <1>16
-----------------------------------------------------------------------------
(* The visitors of a range.                                                *)

LEMMA FirstIs ==
  ASSUME NEW R, Rows(R), NEW i \in Addresses(R)
  PROVE  /\ i \in DOMAIN FirstViews(R) /\ FirstViews(R)[i] \in Nat
         /\ \E r \in Views(R) : r.ip = i /\ r.line.ts = FirstViews(R)[i]
         /\ \A r \in Views(R) : r.ip = i => FirstViews(R)[i] <= r.line.ts
<1> DEFINE S == {r.line.ts : r \in {v \in Views(R) : v.ip = i}}
<1>1. i \in DOMAIN FirstViews(R) /\ FirstViews(R)[i] = Min(S)
  BY DEF FirstViews, Addresses
<1>2. S # {}
  BY DEF Addresses
<1>3. S \in SUBSET Nat
  BY DEF Views, Rows
<1> DEFINE m == Min(S)
<1>4. m \in S /\ \A y \in S : m <= y
  <2> HIDE DEF S
  <2> QED BY <1>2, <1>3, MinIs
<1> HIDE DEF m
<1>5. \E r \in Views(R) : r.ip = i /\ r.line.ts = m
  BY <1>4
<1>6. \A r \in Views(R) : r.ip = i => m <= r.line.ts
  BY <1>4
<1>7. m \in Nat
  BY <1>3, <1>4
<1> QED BY <1>1, <1>5, <1>6, <1>7 DEF m

LEMMA VisitorsPart ==
  ASSUME NEW db, IsDb(db), NEW p, IsRange(p), NEW q, q.on \in BOOLEAN
  PROVE  LET first == FirstViews(db.rows)
             late == {i \in DOMAIN first : first[i] >= p.to /\ DayOf(first[i]) = DayOf(p.to)}
         IN Cardinality(Visitors(db, p, q))
              = NewReturning(db, p, q).new + NewReturning(db, p, q).returning
                + IF q.on THEN 0 ELSE Cardinality(late)
<1> DEFINE first == FirstViews(db.rows)
           late == {i \in DOMAIN first : first[i] >= p.to /\ DayOf(first[i]) = DayOf(p.to)}
           V == Visitors(db, p, q)
           N == {i \in V : p.from <= first[i] /\ first[i] < p.to}
           B == {i \in V : first[i] < p.from}
           L == {i \in V : first[i] >= p.to}
           e == DayOf(p.to)
<1>1. /\ p.from \in Int /\ p.to \in Int /\ e \in Int /\ DayOf(p.from) = p.from
      /\ p.from <= e /\ e <= p.to /\ p.to < e + Day /\ OnGrid(e, Day) /\ p.from <= p.to
  BY RangeBounds
<1>2. V = Addresses(Counted(db, p, q)) /\ Counted(db, p, q) \in SUBSET db.rows /\ Rows(db.rows)
  BY <1>1, ColumnIs, CountedRows DEF IsDb
<1>3. V \subseteq Addresses(db.rows) /\ IsFiniteSet(V)
  BY <1>2, AddressesOf
<1> HIDE DEF V
<1>4. ASSUME NEW i \in V
      PROVE  /\ first[i] \in Nat /\ i \in DOMAIN first
             /\ \A r \in Views(db.rows) : r.ip = i => first[i] <= r.line.ts
             /\ \E r \in Views(db.rows) : r.ip = i /\ r.line.ts = first[i]
  BY <1>2, <1>3, FirstIs
<1>5. V = (N \cup B) \cup L /\ (N \cup B) \cap L = {} /\ N \cap B = {}
  <2> HIDE DEF first
  <2> QED BY <1>1, <1>4
<1>6. /\ Cardinality(V) = Cardinality(N \cup B) + Cardinality(L)
      /\ IsFiniteSet(N \cup B) /\ Cardinality(L) \in Nat
  <2> DEFINE NB == N \cup B
  <2>1. V = NB \cup L /\ NB \cap L = {}
    BY <1>5
  <2> HIDE DEF NB, L
  <2>2. /\ Cardinality(V) = Cardinality(NB) + Cardinality(L)
        /\ IsFiniteSet(NB) /\ Cardinality(L) \in Nat
    BY <1>3, <2>1, CountBoth
  <2> QED BY <2>2 DEF NB
<1>7. /\ Cardinality(N \cup B) = Cardinality(N) + Cardinality(B)
      /\ Cardinality(N) \in Nat /\ Cardinality(B) \in Nat
  <2> DEFINE NB == N \cup B
  <2>1. NB = N \cup B /\ N \cap B = {} /\ IsFiniteSet(NB)
    BY <1>5, <1>6
  <2> HIDE DEF N, B, NB
  <2>2. /\ Cardinality(NB) = Cardinality(N) + Cardinality(B)
        /\ Cardinality(N) \in Nat /\ Cardinality(B) \in Nat
    BY ONLY <2>1, CountBoth
  <2> QED BY <2>1, <2>2
<1>8. ASSUME q.on PROVE L = {}
  <2> SUFFICES ASSUME NEW i \in V, first[i] >= p.to PROVE FALSE
    OBVIOUS
  <2>1. PICK r \in Counted(db, p, q) : r.line.pv /\ r.ip = i
    BY <1>2 DEF Addresses, Views
  <2>2. r \in Views(db.rows) /\ r.line.ts < p.to /\ r.line.ts \in Nat
    BY <1>2, <1>8, <2>1 DEF Counted, Raw, Views, Rows
  <2>3. first[i] <= r.line.ts /\ first[i] \in Nat
    BY <1>4, <2>1, <2>2
  <2> QED BY <1>1, <2>2, <2>3
<1>9. ASSUME ~q.on PROVE L = late
  <2>1. ASSUME NEW i \in L PROVE i \in late
    <3>1. PICK r \in Counted(db, p, q) : r.line.pv /\ r.ip = i
      BY <1>2 DEF Addresses, Views
    <3>2. r \in Views(db.rows) /\ r.line.ts < e + Day /\ r.line.ts \in Nat
      BY <1>2, <1>9, <3>1 DEF Counted, Whole, Span, Views, Rows
    <3>3. first[i] <= r.line.ts /\ first[i] \in Nat /\ i \in DOMAIN first
      BY <1>4, <3>1, <3>2
    <3>4. e <= first[i] /\ first[i] < e + Day
      <4> HIDE DEF e, first
      <4> QED BY <1>1, <3>2, <3>3, Lengths
    <3>5. DayOf(first[i]) = e
      BY <1>1, <3>3, <3>4, DayUnique
    <3> QED BY <3>3, <3>5
  <2>2. ASSUME NEW i \in late PROVE i \in L
    <3>1. i \in Addresses(db.rows)
      BY DEF FirstViews, Addresses
    <3>2. first[i] \in Nat
      BY <1>2, <3>1, FirstIs
    <3>3. PICK r \in Views(db.rows) : r.ip = i /\ r.line.ts = first[i]
      BY <1>2, <3>1, FirstIs
    <3>4. e <= first[i] /\ first[i] < e + Day
      BY <3>2, DayIs
    <3>5. p.from <= first[i]
      <4> HIDE DEF first, e
      <4> QED BY <1>1, <3>2, <3>4
    <3>6. r \in Counted(db, p, q) /\ r.line.pv
      BY <1>1, <1>9, <3>3, <3>4, <3>5 DEF Counted, Whole, Span, Views
    <3>7. i \in V
      BY <1>2, <3>3, <3>6 DEF Addresses, Views
    <3> QED BY <3>7
  <2> QED BY <2>1, <2>2
<1>10. NewReturning(db, p, q).new = Cardinality(N)
       /\ NewReturning(db, p, q).returning = Cardinality(B)
  BY DEF NewReturning, V
<1>11. Cardinality(V) = Cardinality(N) + Cardinality(B) + IF q.on THEN 0 ELSE Cardinality(late)
  <2> HIDE DEF N, B, L, late
  <2>1. CASE q.on
    <3>1. Cardinality(L) = 0
      BY <1>8, <2>1, FS_EmptySet
    <3> QED BY <1>6, <1>7, <2>1, <3>1
  <2>2. CASE ~q.on
    BY <1>6, <1>7, <1>9, <2>2
  <2> QED BY <2>1, <2>2
<1> QED BY <1>10, <1>11 DEF V
-----------------------------------------------------------------------------
(* The points of a chart.                                                  *)

Views2 == {"hourly", "daily"}

LEMMA BucketIs ==
  ASSUME NEW view \in Views2, NEW t \in Int
  PROVE  /\ BucketSize(view) \in Nat \ {0} /\ BucketOf(t, view) = Floor(t, BucketSize(view))
         /\ BucketOf(t, view) \in Int /\ OnGrid(BucketOf(t, view), BucketSize(view))
         /\ BucketOf(t, view) <= t /\ t < BucketOf(t, view) + BucketSize(view)
<1>1. BucketSize(view) \in Nat \ {0} /\ BucketOf(t, view) = Floor(t, BucketSize(view))
  BY Lengths DEF BucketSize, BucketOf, HourOf, DayOf, Floor, Views2
<1>2. /\ Floor(t, BucketSize(view)) \in Int /\ Floor(t, BucketSize(view)) <= t
      /\ t < Floor(t, BucketSize(view)) + BucketSize(view)
      /\ OnGrid(Floor(t, BucketSize(view)), BucketSize(view))
  BY <1>1, FloorIs, GridFloor
<1> QED BY <1>1, <1>2

\* The buckets of the points are the ones of the range, and points themselves.
LEMMA PointsAre ==
  ASSUME NEW db, IsDb(db), NEW range \in TimeRanges, NEW view \in Views2
  PROVE  LET P == TimePoints(db, range, view)  p == TimePeriod(db, range) IN
         /\ IsFiniteSet(P) /\ P \subseteq Int /\ p.from \in P
         /\ \A t \in P : p.from <= t
         /\ Buckets(P, view) \subseteq P
         /\ Buckets(P, view)
              = {b \in Int : /\ p.from <= b /\ b < DayOf(p.to) + Day
                             /\ OnGrid(b, BucketSize(view))}
<1> DEFINE P == TimePoints(db, range, view)
           p == TimePeriod(db, range)
           e == DayOf(p.to)
           size == IF range \in {"today", "yesterday"} \/ view = "hourly" THEN Hour ELSE Day
           sz == BucketSize(view)
           z == LastSecond(e)
<1>1. IsRange(p)
  BY PeriodIsRange DEF IsDb
<1>2. /\ p.from \in Int /\ e \in Int /\ p.from <= e /\ OnGrid(p.from, Day) /\ OnGrid(e, Day)
  BY <1>1, RangeBounds DEF IsRange
<1>3. /\ size \in Nat \ {0} /\ sz \in Nat \ {0} /\ Day \in Nat \ {0}
      /\ \A b : OnGrid(b, sz) => OnGrid(b, size)
      /\ \A b : OnGrid(b, Day) => OnGrid(b, size) /\ OnGrid(b, sz)
  <2>1. view = "hourly" \/ view = "daily"
    BY DEF Views2
  <2>2. \A b : OnGrid(b, Day) => OnGrid(b, Hour)
    BY HourGrid
  <2> QED BY <2>1, <2>2, Lengths DEF BucketSize
<1>4. P = Steps(p.from, z, size)
  BY DEF TimePoints
<1>5. z \in Int /\ z = e + Day - 1
  BY <1>2, <1>3 DEF LastSecond
<1> HIDE DEF size, sz, p, z, e, P
<1>6. OnGrid(p.from, size) /\ OnGrid(p.from, sz)
  BY <1>2, <1>3
<1>7. /\ P = {t \in Int : p.from <= t /\ t <= z /\ OnGrid(t, size)}
      /\ IsFiniteSet(P) /\ P \subseteq Int
  BY <1>3, <1>4, <1>5, <1>6, StepsAre
<1>8. p.from \in P
  BY <1>2, <1>3, <1>5, <1>6, <1>7
<1>9. ASSUME NEW b \in Int, p.from <= b, b < e + Day, OnGrid(b, sz)
      PROVE  b \in P /\ b \in Buckets(P, view)
  <2>1. b \in P
    BY <1>2, <1>3, <1>5, <1>7, <1>9
  <2>2. BucketOf(b, view) = Floor(b, sz)
    BY BucketIs DEF sz
  <2>3. BucketOf(b, view) = b
    BY <1>9, <2>2 DEF OnGrid
  <2> QED BY <2>1, <2>3 DEF Buckets
<1>10. ASSUME NEW b \in Buckets(P, view)
       PROVE  b \in Int /\ p.from <= b /\ b < e + Day /\ OnGrid(b, sz)
  <2>1. PICK t \in P : b = BucketOf(t, view)
    BY DEF Buckets
  <2>2. t \in Int /\ p.from <= t /\ t < e + Day
    BY <1>2, <1>3, <1>5, <1>7
  <2>3. b \in Int /\ OnGrid(b, sz) /\ b <= t /\ t < b + sz
    BY <2>1, <2>2, BucketIs DEF sz
  <2>4. p.from <= b
    <3> SUFFICES ASSUME b < p.from PROVE FALSE
      BY <1>2, <2>3
    <3>1. b + sz <= p.from
      BY <1>3, <1>6, <2>3, GridApart
    <3> QED BY <1>2, <1>3, <2>2, <2>3, <3>1
  <2> QED BY <1>2, <1>3, <2>2, <2>3, <2>4
<1>11. Buckets(P, view) \subseteq P
  BY <1>9, <1>10
<1>12. Buckets(P, view) = {b \in Int : p.from <= b /\ b < e + Day /\ OnGrid(b, sz)}
  BY <1>9, <1>10
<1>13. \A t \in P : p.from <= t
  BY <1>7
<1> QED BY <1>7, <1>8, <1>11, <1>12, <1>13 DEF P, p, e, sz

LEMMA ChartSum ==
  ASSUME NEW P, IsFiniteSet(P), P \subseteq Int, NEW view,
         NEW f, \A b \in Buckets(P, view) : f[b] \in Int
  PROVE  SumOf(Charted(P, view, f)) = Summed(f, Buckets(P, view)) /\ IsFiniteSet(Buckets(P, view))
<1> DEFINE g == Charted(P, view, f)
           K == Buckets(P, view)
           key == [t \in P |-> BucketOf(t, view)]
           h == [b \in K |-> Summed(g, KeyPart(key, P, b))]
<1>1. IsFiniteSet(K)
  <2>1. K = {key[t] : t \in P}
    BY DEF Buckets
  <2> HIDE DEF key
  <2>2. IsFiniteSet({key[t] : t \in P})
    BY ONLY IsFiniteSet(P), ImageFinite
  <2> QED BY <2>1, <2>2
<1>2. \A t \in P : key[t] \in K
  BY DEF Buckets
<1>3. /\ g = [t \in P |-> g[t]]
      /\ \A t \in P : g[t] = IF \E u \in P : u > t /\ BucketOf(u, view) = BucketOf(t, view)
                             THEN 0 ELSE f[BucketOf(t, view)]
  BY DEF Charted
<1>4. \A t \in P : g[t] \in Int
  BY <1>2, <1>3
<1>5. SumOf(g) = Summed(g, P)
  <2> HIDE DEF g
  <2> QED BY <1>3, OverAll
<1>6. Summed(g, P) = Summed(h, K)
  <2> HIDE DEF g, K, key
  <2>1. Summed(g, P) = Summed([b \in K |-> Summed(g, KeyPart(key, P, b))], K)
    BY ONLY IsFiniteSet(P), <1>1, <1>2, <1>4, OverKeys
  <2> QED BY <2>1
<1>7. ASSUME NEW b \in K PROVE h[b] = f[b]
  <2> DEFINE T == KeyPart(key, P, b)
             a == [t \in T |-> t]
             n == [t \in T |-> 0]
  <2>1. T = {t \in P : BucketOf(t, view) = b} /\ T # {}
    BY DEF KeyPart, Buckets
  <2>2. IsFiniteSet(T) /\ T \subseteq P
    BY <2>1, FS_Subset
  <2> HIDE DEF T
  <2>3. a \in [T -> Int] /\ n \in [T -> Int]
    BY <2>2
  <2>4. PICK m \in T : \A t \in T : a[t] < a[m] \/ (a[t] = a[m] /\ n[t] <= n[m])
    <3> HIDE DEF a, n
    <3> QED BY ONLY <2>1, <2>2, <2>3, TopOf
  <2>5. m \in P /\ \A t \in T : t = m \/ t < m
    BY <2>2, <2>4
  <2>6. g[m] = f[b]
    <3>1. ~\E u \in P : u > m /\ BucketOf(u, view) = BucketOf(m, view)
      BY <2>1, <2>5
    <3> HIDE DEF g
    <3> QED BY <1>3, <2>1, <2>5, <3>1
  <2>7. \A t \in T \ {m} : g[t] = 0
    <3> TAKE t \in T \ {m}
    <3>1. t \in P /\ m > t /\ BucketOf(m, view) = BucketOf(t, view)
      BY <2>1, <2>5
    <3> HIDE DEF g
    <3> QED BY <1>3, <2>5, <3>1
  <2> HIDE DEF g
  <2>8. \A t \in T : g[t] \in Int
    BY <1>4, <2>2
  <2>9. Summed(g, T) = g[m] + Summed(g, T \ {m})
    <3>1. IsFiniteSet(T) /\ m \in T
      BY <2>2
    <3> HIDE DEF K, key, h, a, n
    <3> QED BY ONLY <2>8, <3>1, OverPoint
  <2>10. IsFiniteSet(T \ {m})
    BY <2>2, FS_Subset
  <2>11. Summed(g, T \ {m}) = 0
    BY <2>7, <2>10, OverZeros
  <2>12. Summed(g, T) = f[b]
    <3>1. f[b] \in Int
      OBVIOUS
    <3> QED BY <2>6, <2>9, <2>11, <3>1
  <2>13. h[b] = Summed(g, T)
    BY DEF T
  <2> QED BY <2>12, <2>13
<1>8. Summed(h, K) = Summed(f, K)
  <2> HIDE DEF h, K
  <2> QED BY <1>7, OverSame
<1> QED BY <1>1, <1>5, <1>6, <1>8
\* The rows of the days of a range that the filter lets through.
Full(db, p, q) ==
  {r \in db.rows : /\ p.from <= r.line.ts /\ r.line.ts < DayOf(p.to) + Day
                   /\ q.on => r.line.url \in q.pages}

LEMMA FullIs ==
  ASSUME NEW db, IsDb(db), NEW p, IsRange(p), NEW q, q.on \in BOOLEAN
  PROVE  /\ Full(db, p, q) \in SUBSET db.rows /\ Rows(Full(db, p, q))
         /\ Counted(db, p, q) \subseteq Full(db, p, q)
         /\ ~q.on => Counted(db, p, q) = Full(db, p, q)
         /\ q.on => /\ Full(db, p, q) = Raw(db, p, q) \cup Raw(db, LeftOut(p), q)
                    /\ Raw(db, p, q) \cap Raw(db, LeftOut(p), q) = {}
<1>1. /\ p.from \in Int /\ p.to \in Int /\ DayOf(p.to) \in Int /\ DayOf(p.from) = p.from
      /\ p.from <= p.to /\ p.to < DayOf(p.to) + Day /\ DayOf(p.to) <= p.to
  BY RangeBounds
<1>2. Full(db, p, q) \in SUBSET db.rows /\ Rows(Full(db, p, q))
  <2>1. Full(db, p, q) \in SUBSET db.rows
    BY DEF Full
  <2> QED BY <2>1, RowsPart DEF IsDb
<1>3. ~q.on => Counted(db, p, q) = Full(db, p, q)
  BY <1>1 DEF Counted, Whole, Span, Full
<1>4. \A r \in db.rows : r.line.ts \in Nat
  BY DEF IsDb, Rows
<1>5. q.on => /\ Full(db, p, q) = Raw(db, p, q) \cup Raw(db, LeftOut(p), q)
              /\ Raw(db, p, q) \cap Raw(db, LeftOut(p), q) = {}
  <2>1. LastSecond(DayOf(p.to)) + 1 = DayOf(p.to) + Day
    BY <1>1, Lengths DEF LastSecond
  <2>2. /\ LeftOut(p).from = p.to /\ LeftOut(p).to = DayOf(p.to) + Day
    BY <2>1 DEF LeftOut, Of
  <2> HIDE DEF LeftOut
  <2> QED BY <1>1, <1>4, <2>2, Lengths DEF Full, Raw
<1>6. q.on => Counted(db, p, q) = Raw(db, p, q)
  BY DEF Counted
<1> QED BY <1>2, <1>3, <1>5, <1>6

\* The rows of a bucket of the points.
LEMMA BucketRows ==
  ASSUME NEW db, IsDb(db), NEW range \in TimeRanges, NEW q, q.on \in BOOLEAN, q.view \in Views2,
         NEW b \in Buckets(TimePoints(db, range, q.view), q.view)
  PROVE  InBucket(ChartRows(db, TimePoints(db, range, q.view), q), b, q.view)
           = {r \in Full(db, TimePeriod(db, range), q) : BucketOf(r.line.ts, q.view) = b}
         /\ InBucket(ChartRows(db, TimePoints(db, range, q.view), q), b, q.view)
              = InBucket(Full(db, TimePeriod(db, range), q), b, q.view)
<1> DEFINE P == TimePoints(db, range, q.view)
           p == TimePeriod(db, range)
           sz == BucketSize(q.view)
           e == DayOf(p.to)
           R == ChartRows(db, P, q)
           F == Full(db, p, q)
<1>1. IsRange(p)
  BY PeriodIsRange DEF IsDb
<1>2. p.from \in Int /\ e \in Int /\ p.from <= e /\ OnGrid(e, Day)
  BY <1>1, RangeBounds
<1>3. /\ IsFiniteSet(P) /\ P \subseteq Int /\ p.from \in P /\ \A t \in P : p.from <= t
  BY PointsAre
<1>4. b \in P /\ b \in Int /\ p.from <= b /\ b < e + Day /\ OnGrid(b, sz)
  BY PointsAre
<1>5. sz \in Nat \ {0}
  BY <1>4, BucketIs
<1>6. b + sz <= e + Day
  <2>1. OnGrid(e + Day, Day)
    <3>1. 1 \in Int /\ 1 * Day = Day
      BY Lengths
    <3>2. OnGrid(e + 1 * Day, Day)
      BY <1>2, <3>1, GridShift, Lengths
    <3> QED BY <3>1, <3>2
  <2>2. OnGrid(e + Day, sz)
    <3>1. sz = Hour \/ sz = Day
      BY DEF BucketSize
    <3> QED BY <2>1, <3>1, HourGrid
  <2> QED BY <1>4, <1>5, <2>2, GridApart
<1>7. ASSUME NEW t \in Nat, BucketOf(t, q.view) = b
      PROVE  t \in Int /\ b <= t /\ t < b + sz
  BY <1>7, BucketIs
<1>8. Min(P) = p.from
  <2>1. \E x \in P : \A y \in P : x <= y
    BY <1>3
  <2>2. Min(P) \in P /\ \A y \in P : Min(P) <= y
    BY <2>1 DEF Min
  <2>3. Min(P) \in Int /\ Min(P) <= p.from /\ p.from <= Min(P)
    BY <1>3, <2>2
  <2> QED BY <1>2, <2>3
<1>9. b <= Max(P) /\ Max(P) \in Int
  <2> DEFINE a == [t \in P |-> t]
             n == [t \in P |-> 0]
  <2>1. a \in [P -> Int] /\ n \in [P -> Int] /\ P # {}
    BY <1>3
  <2>2. PICK m \in P : \A t \in P : a[t] < a[m] \/ (a[t] = a[m] /\ n[t] <= n[m])
    <3> HIDE DEF a, n, P
    <3> QED BY ONLY <1>3, <2>1, TopOf
  <2>3. \A t \in P : m >= t
    <3> TAKE t \in P
    <3>1. t \in Int /\ m \in Int
      BY <1>3
    <3> QED BY <2>2, <3>1
  <2>4. Max(P) \in P /\ \A y \in P : Max(P) >= y
    BY <2>3 DEF Max
  <2>5. Max(P) \in Int /\ Max(P) >= b
    BY <1>3, <1>4, <2>4
  <2> QED BY <1>4, <2>5
<1>10. R = IF q.on THEN Raw(db, Of(p.from, Max(P) + sz), q) ELSE db.rows
  BY <1>8 DEF ChartRows
<1>11. \A r \in db.rows : r.line.ts \in Nat
  BY DEF IsDb, Rows
<1>12. {r \in R : BucketOf(r.line.ts, q.view) = b} = {r \in F : BucketOf(r.line.ts, q.view) = b}
  <2> DEFINE m == Max(P)
  <2> HIDE DEF P, p, sz, e, R, m
  <2>1. m \in Int /\ b <= m
    BY <1>9 DEF m
  <2>2. R = IF q.on THEN Raw(db, Of(p.from, m + sz), q) ELSE db.rows
    BY <1>10 DEF m
  <2>3. ASSUME NEW r \in db.rows, BucketOf(r.line.ts, q.view) = b
        PROVE  /\ p.from <= r.line.ts /\ r.line.ts < m + sz /\ r.line.ts < e + Day
    <3>1. r.line.ts \in Int /\ b <= r.line.ts /\ r.line.ts < b + sz
      BY <1>7, <1>11, <2>3
    <3> QED BY <1>2, <1>4, <1>5, <1>6, <2>1, <3>1, Lengths
  <2>4. F = {r \in db.rows : /\ p.from <= r.line.ts /\ r.line.ts < e + Day
                             /\ q.on => r.line.url \in q.pages}
    BY DEF Full, e
  <2>5. Raw(db, Of(p.from, m + sz), q)
          = {r \in db.rows : /\ p.from <= r.line.ts /\ r.line.ts < m + sz
                             /\ q.on => r.line.url \in q.pages}
    BY DEF Raw, Of
  <2> HIDE DEF F
  <2> QED BY <2>2, <2>3, <2>4, <2>5
<1> QED BY <1>12 DEF InBucket
LEMMA RowBucket ==
  ASSUME NEW db, IsDb(db), NEW range \in TimeRanges, NEW q, q.on \in BOOLEAN, q.view \in Views2,
         NEW r \in Full(db, TimePeriod(db, range), q)
  PROVE  BucketOf(r.line.ts, q.view) \in Buckets(TimePoints(db, range, q.view), q.view)
<1> DEFINE p == TimePeriod(db, range)
           t == r.line.ts
           b == BucketOf(t, q.view)
           sz == BucketSize(q.view)
<1>0. IsRange(p)
  BY PeriodIsRange DEF IsDb
<1>1. t \in Int /\ p.from <= t /\ t < DayOf(p.to) + Day
  BY DEF Full, IsDb, Rows
<1>2. b \in Int /\ OnGrid(b, sz) /\ b <= t /\ t < b + sz /\ sz \in Nat \ {0}
  BY <1>1, BucketIs
<1>3. OnGrid(p.from, sz) /\ p.from \in Int /\ DayOf(p.to) \in Int
  <2>1. sz = Hour \/ sz = Day
    BY DEF BucketSize
  <2>2. OnGrid(p.from, Day)
    BY <1>0 DEF IsRange
  <2> QED BY <1>0, <2>1, <2>2, HourGrid, RangeBounds
<1> HIDE DEF p, t, sz, b
<1>4. p.from <= b
  <2> SUFFICES ASSUME b < p.from PROVE FALSE
    BY <1>2, <1>3
  <2>1. b + sz <= p.from
    BY <1>2, <1>3, GridApart
  <2> QED BY <1>1, <1>2, <1>3, <2>1
<1>5. b < DayOf(p.to) + Day
  BY <1>1, <1>2, <1>3, Lengths
<1>6. b \in Buckets(TimePoints(db, range, q.view), q.view)
  BY <1>2, <1>4, <1>5, PointsAre DEF p, sz
<1> QED BY <1>6 DEF b, t

\* The points of a chart count all that there is in the days of the range.
LEMMA PvSum ==
  ASSUME NEW db, IsDb(db), NEW range \in TimeRanges, NEW q, q.on \in BOOLEAN, q.view \in Views2
  PROVE  SumOf(PvPoints(db, TimePoints(db, range, q.view), q))
           = Cardinality(Views(Full(db, TimePeriod(db, range), q)))
<1> DEFINE P == TimePoints(db, range, q.view)
           F == Full(db, TimePeriod(db, range), q)
           S == Views(F)
           K == Buckets(P, q.view)
           key == [r \in S |-> BucketOf(r.line.ts, q.view)]
           f == [b \in K |-> Tally(InBucket(ChartRows(db, P, q), b, q.view))["pv"]]
           g == [b \in K |-> Cardinality(KeyPart(key, S, b))]
<1>0. IsRange(TimePeriod(db, range))
  BY PeriodIsRange DEF IsDb
<1>1. Rows(F) /\ IsFiniteSet(S)
  BY <1>0, FullIs, PvViews
<1>2. IsFiniteSet(P) /\ P \subseteq Int
  BY PointsAre
<1>3. \A b \in K : f[b] = g[b] /\ f[b] \in Int
  <2> TAKE b \in K
  <2> DEFINE R == InBucket(ChartRows(db, P, q), b, q.view)
  <2>1. R = {r \in F : BucketOf(r.line.ts, q.view) = b}
    BY BucketRows
  <2> HIDE DEF F
  <2>2. Views(R) = KeyPart(key, S, b)
    BY <2>1 DEF KeyPart, Views
  <2>3. Rows(R)
    BY <1>1, <2>1, RowsPart
  <2>4. Tally(R)["pv"] = Cardinality(Views(R)) /\ Cardinality(Views(R)) \in Nat
    BY <2>3, PvViews
  <2> QED BY <2>2, <2>4
<1>4. \A r \in S : key[r] \in K
  <2> TAKE r \in S
  <2>1. r \in F
    BY DEF Views
  <2> HIDE DEF F
  <2> QED BY <2>1, RowBucket DEF F
<1>5. SumOf(Charted(P, q.view, f)) = Summed(f, K) /\ IsFiniteSet(K)
  <2> HIDE DEF f
  <2> QED BY <1>2, <1>3, ChartSum
<1>6. Cardinality(S) = Summed(g, K)
  <2> HIDE DEF S, K, key
  <2>1. Cardinality(S) = Summed([b \in K |-> Cardinality(KeyPart(key, S, b))], K)
    BY ONLY <1>1, <1>4, <1>5, CountKeys
  <2> QED BY <2>1
<1>7. Summed(f, K) = Summed(g, K)
  <2> HIDE DEF f, g, K
  <2> QED BY <1>3, OverSame
<1> QED BY <1>5, <1>6, <1>7 DEF PvPoints

LEMMA UvSum ==
  ASSUME NEW db, IsDb(db), NEW range \in TimeRanges, NEW q, q.on \in BOOLEAN, q.view \in Views2
  PROVE  Cardinality(Addresses(Full(db, TimePeriod(db, range), q)))
           <= SumOf(UvPoints(db, TimePoints(db, range, q.view), q))
         /\ SumOf(UvPoints(db, TimePoints(db, range, q.view), q)) \in Int
<1> DEFINE P == TimePoints(db, range, q.view)
           p == TimePeriod(db, range)
           F == Full(db, p, q)
           K == Buckets(P, q.view)
           f == [b \in K |-> Cardinality(Addresses(InBucket(ChartRows(db, P, q), b, q.view)))]
           A == [b \in K |-> Addresses(InBucket(F, b, q.view))]
           U == UNION {A[b] : b \in K}
           c == [b \in K |-> Cardinality(A[b])]
<1>0. IsRange(p)
  BY PeriodIsRange DEF IsDb
<1>1. Rows(F)
  BY <1>0, FullIs
<1>2. IsFiniteSet(P) /\ P \subseteq Int
  BY PointsAre
<1>3. f = c
  BY BucketRows
<1>4. \A b \in K : IsFiniteSet(A[b])
  <2> TAKE b \in K
  <2>1. InBucket(F, b, q.view) \in SUBSET F
    BY DEF InBucket
  <2> HIDE DEF F
  <2> QED BY <1>1, <2>1, AddressesOf
<1>5. \A b \in K : f[b] \in Int
  <2> HIDE DEF A, f
  <2> QED BY <1>3, <1>4, FS_CardinalityType
<1>6. SumOf(Charted(P, q.view, f)) = Summed(f, K) /\ IsFiniteSet(K)
  <2> HIDE DEF f
  <2> QED BY <1>2, <1>5, ChartSum
<1>7. IsFiniteSet(U) /\ Cardinality(U) <= Summed(c, K)
  <2> HIDE DEF A, K
  <2>1. /\ IsFiniteSet(UNION {A[b] : b \in K})
        /\ Cardinality(UNION {A[b] : b \in K}) <= Summed([b \in K |-> Cardinality(A[b])], K)
    BY ONLY <1>4, <1>6, UnionCount
  <2> QED BY <2>1
<1>8. Addresses(F) \subseteq U
  <2> SUFFICES ASSUME NEW r \in F, r.line.pv PROVE r.ip \in U
    BY DEF Addresses, Views
  <2> DEFINE b == BucketOf(r.line.ts, q.view)
  <2>6. b \in K
    BY RowBucket
  <2>7. r.ip \in A[b]
    <3> HIDE DEF F, K
    <3> QED BY <2>6 DEF Addresses, Views, InBucket
  <2> HIDE DEF A, K, b
  <2> QED BY <2>6, <2>7
<1>9. Cardinality(Addresses(F)) <= Cardinality(U) /\ IsFiniteSet(Addresses(F))
  <2> HIDE DEF F, U
  <2> QED BY <1>7, <1>8, FS_Subset
<1>10. Cardinality(Addresses(F)) \in Nat /\ Cardinality(U) \in Nat
  BY <1>7, <1>9, FS_CardinalityType
<1>11. Summed(f, K) \in Int
  <2>1. K \in SUBSET K
    OBVIOUS
  <2> HIDE DEF f, K
  <2> QED BY <1>5, <1>6, <2>1, OverInt
<1>12. SumOf(UvPoints(db, P, q)) = Summed(c, K)
  BY <1>3, <1>6 DEF UvPoints
<1> QED BY <1>3, <1>7, <1>9, <1>10, <1>11, <1>12
-----------------------------------------------------------------------------
(* The sessions that the rows of a range make up.                          *)

LEMMA InjectCount ==
  ASSUME NEW S, IsFiniteSet(S), NEW f, \A x \in S : \A y \in S : f[x] = f[y] => x = y
  PROVE  IsFiniteSet({f[x] : x \in S}) /\ Cardinality({f[x] : x \in S}) = Cardinality(S)
<1> DEFINE T == {f[x] : x \in S}
           g == [x \in S |-> f[x]]
<1>1. g \in Bijection(S, T)
  BY DEF Bijection, Injection, Surjection, IsInjective
<1>2. ExistsBijection(S, T)
  BY <1>1 DEF ExistsBijection
<1> HIDE DEF T
<1>3. IsFiniteSet(T) /\ Cardinality(T) = Cardinality(S)
  BY <1>2, FS_Bijection
<1> QED BY <1>3 DEF T

\* The first and the last of the rows of a visitor.
LEMMA FirstAndLast ==
  ASSUME NEW R, Rows(R), NEW S \in SUBSET R, S # {}
  PROVE  /\ \E m \in S : \A s \in S : ~Before(m, s)
         /\ \E m \in S : \A s \in S : ~Before(s, m)
<1> DEFINE a == [r \in S |-> r.line.ts]
           b == [r \in S |-> r.n]
           c == [r \in S |-> 0 - r.line.ts]
           d == [r \in S |-> 0 - r.n]
<1>1. IsFiniteSet(S)
  BY RowsPart
<1>2. \A r \in S : r.line.ts \in Nat /\ r.n \in Nat
  BY DEF Rows
<1>3. a \in [S -> Int] /\ b \in [S -> Int] /\ c \in [S -> Int] /\ d \in [S -> Int]
  BY <1>2
<1>4. \E m \in S : \A t \in S : a[t] < a[m] \/ (a[t] = a[m] /\ b[t] <= b[m])
  <2> HIDE DEF a, b
  <2> QED BY ONLY <1>1, <1>3, S # {}, TopOf
<1>5. \E m \in S : \A t \in S : c[t] < c[m] \/ (c[t] = c[m] /\ d[t] <= d[m])
  <2> HIDE DEF c, d
  <2> QED BY ONLY <1>1, <1>3, S # {}, TopOf
<1>6. \E m \in S : \A s \in S : ~Before(m, s)
  BY <1>2, <1>4 DEF Before
<1>7. \E m \in S : \A s \in S : ~Before(s, m)
  BY <1>2, <1>5 DEF Before
<1> QED BY <1>6, <1>7

LEMMA BeforeIs ==
  ASSUME NEW R, Rows(R)
  PROVE  /\ \A r \in R : ~Before(r, r)
         /\ \A r \in R : \A q \in R : Before(r, q) \/ Before(q, r) \/ r = q
         /\ \A r \in R : \A q \in R : Before(r, q) => ~Before(q, r) /\ r.line.ts <= q.line.ts
         /\ \A r \in R : \A q \in R : ~Before(r, q) => q.line.ts <= r.line.ts
         /\ \A r \in R : \A q \in R : \A s \in R : Before(r, q) /\ ~Before(s, q) => Before(r, s)
         /\ \A r \in R : \A q \in R : \A s \in R : ~Before(q, r) /\ Before(q, s) => Before(r, s)
         /\ \A r \in R : \A q \in R : r.line.ts < q.line.ts => Before(r, q)
<1>1. \A r \in R : r.line.ts \in Nat /\ r.n \in Nat
  BY DEF Rows
<1>2. \A r \in R : \A q \in R : r.n = q.n => r = q
  BY DEF Rows
<1>3. \A r \in R : ~Before(r, r)
  BY <1>1 DEF Before
<1>4. \A r \in R : \A q \in R : Before(r, q) \/ Before(q, r) \/ r = q
  BY <1>1, <1>2 DEF Before
<1>5. \A r \in R : \A q \in R : Before(r, q) => ~Before(q, r) /\ r.line.ts <= q.line.ts
  BY <1>1 DEF Before
<1>6. \A r \in R : \A q \in R : ~Before(r, q) => q.line.ts <= r.line.ts
  BY <1>1 DEF Before
<1>7. \A r \in R : \A q \in R : \A s \in R : Before(r, q) /\ ~Before(s, q) => Before(r, s)
  BY <1>1, <1>2 DEF Before
<1>8. \A r \in R : \A q \in R : \A s \in R : ~Before(q, r) /\ Before(q, s) => Before(r, s)
  BY <1>1, <1>2 DEF Before
<1>9. \A r \in R : \A q \in R : r.line.ts < q.line.ts => Before(r, q)
  BY <1>1 DEF Before
<1> QED BY <1>3, <1>4, <1>5, <1>6, <1>7, <1>8, <1>9

\* The page views that open a session.
Openers(R) == {v \in Views(R) : Opens(v, R)}

LEMMA OpenersApart ==
  ASSUME NEW R, Rows(R), NEW r \in Openers(R), NEW q \in Openers(R), r.ip = q.ip,
         r.line.ts = q.line.ts
  PROVE  r = q
<1>1. r \in R /\ q \in R /\ r \in Views(R) /\ q \in Views(R) /\ Opens(r, R) /\ Opens(q, R)
  BY DEF Openers, Views
<1>2. r.line.ts - q.line.ts <= Gap /\ q.line.ts - r.line.ts <= Gap
  BY <1>1, Lengths DEF Rows
<1>3. ~Before(q, r)
  BY <1>1, <1>2 DEF Opens
<1>4. ~Before(r, q)
  BY <1>1, <1>2 DEF Opens
<1> QED BY <1>1, <1>3, <1>4, BeforeIs

\* As many sessions as page views that open one.
LEMMA SessionsCount ==
  ASSUME NEW R, Rows(R), NEW T \in SUBSET Openers(R)
  PROVE  LET S == {SessionOf(r, R) : r \in T} IN
         IsFiniteSet(S) /\ Cardinality(S) = Cardinality(T) /\ IsFiniteSet(T)
<1> DEFINE f == [r \in T |-> SessionOf(r, R)]
<1>1. T \in SUBSET R
  BY DEF Openers, Views
<1>2. IsFiniteSet(T)
  BY <1>1, RowsPart
<1>3. \A r \in T : f[r].ip = r.ip /\ f[r].start = r.line.ts
  BY DEF SessionOf
<1>4. \A r \in T : \A q \in T : f[r] = f[q] => r = q
  <2> SUFFICES ASSUME NEW r \in T, NEW q \in T, f[r] = f[q] PROVE r = q
    OBVIOUS
  <2>1. r.ip = q.ip /\ r.line.ts = q.line.ts
    BY <1>3
  <2> QED BY <2>1, OpenersApart
<1>5. {f[r] : r \in T} = {SessionOf(r, R) : r \in T}
  OBVIOUS
<1>6. IsFiniteSet({f[r] : r \in T}) /\ Cardinality({f[r] : r \in T}) = Cardinality(T)
  <2> HIDE DEF f
  <2> QED BY ONLY <1>2, <1>4, InjectCount
<1> QED BY <1>2, <1>5, <1>6

LEMMA AllSessions ==
  ASSUME NEW R, Rows(R)
  PROVE  /\ SessionsOf(R) = {SessionOf(r, R) : r \in Openers(R)}
         /\ IsFiniteSet(SessionsOf(R)) /\ Cardinality(SessionsOf(R)) = Cardinality(Openers(R))
         /\ IsFiniteSet(Openers(R)) /\ Openers(R) \subseteq R
<1>1. SessionsOf(R) = {SessionOf(r, R) : r \in Openers(R)}
  BY DEF SessionsOf, Openers
<1>2. Openers(R) \in SUBSET Openers(R) /\ Openers(R) \subseteq R
  BY DEF Openers, Views
<1> QED BY <1>1, <1>2, SessionsCount

\* The sessions that start in a stretch of time.
Starting(R, a, z) == {s \in SessionsOf(R) : a <= s.start /\ s.start < z}
Opening(R, a, z) == {r \in Openers(R) : a <= r.line.ts /\ r.line.ts < z}
LEMMA SessionsIn ==
  ASSUME NEW R, Rows(R), NEW a, NEW z
  PROVE  /\ Starting(R, a, z) = {SessionOf(r, R) : r \in Opening(R, a, z)}
         /\ IsFiniteSet(Starting(R, a, z)) /\ IsFiniteSet(Opening(R, a, z))
         /\ Cardinality(Starting(R, a, z)) = Cardinality(Opening(R, a, z))
<1> DEFINE S == Starting(R, a, z)
           T == Opening(R, a, z)
<1>1. \A r \in Openers(R) : SessionOf(r, R).start = r.line.ts
  BY DEF SessionOf
<1>2. S = {SessionOf(r, R) : r \in T}
  BY <1>1, AllSessions DEF Starting, Opening
<1>3. T \in SUBSET Openers(R)
  BY DEF Opening
<1>4. LET Q == {SessionOf(r, R) : r \in T} IN
      IsFiniteSet(Q) /\ Cardinality(Q) = Cardinality(T) /\ IsFiniteSet(T)
  <2> HIDE DEF T
  <2> QED BY <1>3, SessionsCount
<1> QED BY <1>2, <1>4
\* Cutting the rows at two times: a session opens anew in the part exactly when one
\* that began before it goes on in it, at most one of a visitor.
Cut(R, a, z) == Openers(Span(R, a, z)) \ Openers(R)
Crossing(R, a) == {o \in Openers(R) : o.line.ts < a /\ SessionOf(o, R).end >= a}

LEMMA SpanRows ==
  ASSUME NEW R, Rows(R), NEW a \in Int, NEW z \in Int
  PROVE  /\ Span(R, a, z) \in SUBSET R /\ Rows(Span(R, a, z))
         /\ {r \in Openers(R) : a <= r.line.ts /\ r.line.ts < z} \subseteq Openers(Span(R, a, z))
         /\ Openers(Span(R, a, z)) \subseteq R
         /\ Cut(R, a, z)
              = Openers(Span(R, a, z)) \ {r \in Openers(R) : a <= r.line.ts /\ r.line.ts < z}
<1> DEFINE V == Span(R, a, z)
           A == {r \in Openers(R) : a <= r.line.ts /\ r.line.ts < z}
<1>1. V \in SUBSET R /\ Rows(V)
  <2>1. V \in SUBSET R
    BY DEF Span
  <2> QED BY <2>1, RowsPart
<1>2. ASSUME NEW r \in A PROVE r \in Openers(V)
  <2>1. r \in Views(V) /\ Opens(r, R)
    BY DEF Openers, Views, Span
  <2>2. Opens(r, V)
    BY <2>1 DEF Opens, Views, Span
  <2> QED BY <2>1, <2>2 DEF Openers
<1>3. Openers(V) \subseteq V /\ V \subseteq R
  BY DEF Openers, Views, Span
<1>4. \A r \in V : a <= r.line.ts /\ r.line.ts < z
  BY DEF Span
<1>5. Cut(R, a, z) = Openers(V) \ A
  BY <1>3, <1>4 DEF Cut
<1> QED BY <1>1, <1>2, <1>3, <1>5

\* The page view before one that opens a session in the part only.
LEMMA CutFollows ==
  ASSUME NEW R, Rows(R), NEW a \in Int, NEW z \in Int, NEW x \in Cut(R, a, z)
  PROVE  /\ x \in Views(R) /\ a <= x.line.ts /\ x.line.ts < z
         /\ \A q \in Views(R) : q.ip = x.ip /\ Before(q, x) /\ x.line.ts - q.line.ts <= Gap
              => q.line.ts < a
         /\ \E q \in Views(R) : q.ip = x.ip /\ Before(q, x) /\ x.line.ts - q.line.ts <= Gap
<1> DEFINE V == Span(R, a, z)
<1>1. x \in Views(V) /\ Opens(x, V) /\ x \notin Openers(R)
  BY DEF Cut, Openers
<1>2. x \in Views(R) /\ a <= x.line.ts /\ x.line.ts < z
  BY <1>1 DEF Views, Span
<1>3. \E q \in Views(R) : q.ip = x.ip /\ Before(q, x) /\ x.line.ts - q.line.ts <= Gap
  BY <1>1, <1>2 DEF Openers, Opens
<1>4. ASSUME NEW q \in Views(R), q.ip = x.ip, Before(q, x), x.line.ts - q.line.ts <= Gap
      PROVE  q.line.ts < a
  <2> SUFFICES ASSUME a <= q.line.ts PROVE FALSE
    BY <1>4 DEF Rows, Views
  <2>1. q.line.ts <= x.line.ts /\ q.line.ts \in Int /\ x.line.ts \in Int
    BY <1>2, <1>4, BeforeIs DEF Views, Rows
  <2>2. q \in Views(V)
    BY <1>2, <2>1 DEF Views, Span
  <2> QED BY <1>1, <1>4, <2>2 DEF Opens
<1> QED BY <1>2, <1>3, <1>4

LEMMA CutApart ==
  ASSUME NEW R, Rows(R), NEW a \in Int, NEW z \in Int,
         NEW x \in Cut(R, a, z), NEW y \in Cut(R, a, z), x.ip = y.ip
  PROVE  ~Before(x, y)
<1> SUFFICES ASSUME Before(x, y) PROVE FALSE
  OBVIOUS
<1>1. x \in Views(R) /\ y \in Views(R) /\ a <= x.line.ts
  BY CutFollows
<1>2. PICK q \in Views(R) : q.ip = y.ip /\ Before(q, y) /\ y.line.ts - q.line.ts <= Gap
  BY CutFollows
<1>3. q.line.ts < a
  BY <1>2, CutFollows
<1>4. x.line.ts \in Int /\ y.line.ts \in Int /\ q.line.ts \in Int
  BY <1>1, <1>2 DEF Views, Rows
<1>5. y.line.ts - x.line.ts <= Gap
  BY <1>1, <1>2, <1>3, <1>4, Lengths
<1>6. x.line.ts < a
  BY <1>1, <1>5, CutFollows
<1> QED BY <1>1, <1>4, <1>6

LEMMA PagesEnd ==
  ASSUME NEW R, Rows(R), NEW o \in Openers(R)
  PROVE  LET P == PagesFrom(o, R) IN
         /\ LastOf(P) \in P /\ \A q \in P : ~Before(LastOf(P), q)
         /\ P \subseteq Views(R) /\ SessionOf(o, R).end = LastOf(P).line.ts
<1> DEFINE P == PagesFrom(o, R)
<1>1. P \subseteq Views(R) /\ P \in SUBSET R
  BY DEF PagesFrom, Views
<1>2. o \in P
  <2>1. o \in Views(R) /\ o \in R
    BY DEF Openers, Views
  <2>2. ~Before(o, o)
    BY <2>1, BeforeIs
  <2>3. ~\E s \in Views(R) : s.ip = o.ip /\ Opens(s, R) /\ Before(o, s) /\ ~Before(o, s)
    OBVIOUS
  <2> QED BY <2>1, <2>2, <2>3 DEF PagesFrom
<1> HIDE DEF P
<1>3. \E m \in P : \A s \in P : ~Before(m, s)
  BY <1>1, <1>2, FirstAndLast
<1>4. LastOf(P) \in P /\ \A s \in P : ~Before(LastOf(P), s)
  BY <1>3 DEF LastOf
<1>5. SessionOf(o, R).end = LastOf(P).line.ts
  BY DEF SessionOf, P
<1> QED BY <1>1, <1>4, <1>5 DEF P

LEMMA CrossingApart ==
  ASSUME NEW R, Rows(R), NEW a \in Int, NEW o \in Crossing(R, a), NEW u \in Crossing(R, a),
         o.ip = u.ip
  PROVE  ~Before(o, u)
<1> SUFFICES ASSUME Before(o, u) PROVE FALSE
  OBVIOUS
<1> DEFINE P == PagesFrom(o, R)
           l == LastOf(P)
<1>1. o \in Openers(R) /\ u \in Openers(R) /\ u.line.ts < a /\ SessionOf(o, R).end >= a
  BY DEF Crossing
<1>2. l \in P /\ l \in Views(R) /\ l.line.ts >= a
  BY <1>1, PagesEnd
<1>3. u \in Views(R) /\ Opens(u, R)
  BY <1>1 DEF Openers
<1>4. ~Before(l, u)
  <2>1. l \in R /\ u \in R /\ u.line.ts < l.line.ts
    BY <1>1, <1>2, <1>3 DEF Views, Rows
  <2> QED BY <2>1, BeforeIs
<1>5. ~\E s \in Views(R) : s.ip = o.ip /\ Opens(s, R) /\ Before(o, s) /\ ~Before(l, s)
  <2> HIDE DEF l
  <2> QED BY <1>2 DEF PagesFrom
<1> QED BY <1>3, <1>4, <1>5
LEMMA CutCrosses ==
  ASSUME NEW R, Rows(R), NEW a \in Int, NEW z \in Int, NEW x \in Cut(R, a, z)
  PROVE  \E o \in Crossing(R, a) : o.ip = x.ip
<1>1. x \in Views(R) /\ x \in R /\ a <= x.line.ts
  BY CutFollows DEF Views
<1>2. PICK q \in Views(R) : q.ip = x.ip /\ Before(q, x) /\ x.line.ts - q.line.ts <= Gap
  BY CutFollows
<1>3. q.line.ts < a /\ q \in R
  BY <1>2, CutFollows DEF Views
<1> DEFINE W == {s \in Views(R) : s.ip = x.ip /\ ~Before(q, s)}
           U == {s \in W : Opens(s, R)}
<1>4. U # {}
  <2>1. W \in SUBSET R /\ q \in W
    BY <1>2, <1>3, BeforeIs DEF Views
  <2>2. W # {}
    BY <2>1
  <2>3. PICK m \in W : \A s \in W : ~Before(s, m)
    <3> HIDE DEF W
    <3> QED BY <2>1, <2>2, FirstAndLast
  <2>4. Opens(m, R)
    <3> SUFFICES ASSUME NEW s \in Views(R), s.ip = m.ip, Before(s, m) PROVE FALSE
      BY DEF Opens
    <3>1. s \in R /\ m \in R /\ ~Before(q, m)
      BY DEF Views
    <3>2. ~Before(q, s)
      <4> SUFFICES ASSUME Before(q, s) PROVE FALSE
        OBVIOUS
      <4>1. ~Before(s, q)
        BY <1>3, <3>1, BeforeIs
      <4>2. Before(q, m)
        BY <1>3, <3>1, <4>1, BeforeIs
      <4> QED BY <3>1, <4>2
    <3>3. s \in W
      BY <3>2
    <3> QED BY <2>3, <3>3
  <2> QED BY <2>4
<1>5. U \in SUBSET R
  BY DEF Views
<1>6. PICK o \in U : \A s \in U : ~Before(o, s)
  <2> HIDE DEF U
  <2> QED BY <1>4, <1>5, FirstAndLast
<1>7. o \in Openers(R) /\ o \in R /\ o.ip = x.ip /\ ~Before(q, o)
  BY DEF Openers, Views
<1>8. o.line.ts <= q.line.ts /\ o.line.ts \in Int /\ q.line.ts \in Int /\ x.line.ts \in Int
  BY <1>1, <1>3, <1>7, BeforeIs DEF Rows
<1>9. Before(o, x)
  <2>1. o.line.ts < x.line.ts
    BY <1>1, <1>3, <1>8
  <2> QED BY <1>1, <1>7, <2>1, BeforeIs
<1>10. x \in PagesFrom(o, R)
  <2> SUFFICES ASSUME NEW s \in Views(R), s.ip = o.ip, Opens(s, R), Before(o, s), ~Before(x, s)
               PROVE FALSE
    <3>1. ~Before(x, o)
      BY <1>1, <1>7, <1>9, BeforeIs
    <3> QED BY <1>1, <1>7, <3>1 DEF PagesFrom
  <2>1. s \in R
    BY DEF Views
  <2>2. Before(q, s)
    BY <1>6, <1>7
  <2>3. s.line.ts <= x.line.ts /\ s.line.ts \in Int
    BY <1>1, <2>1, BeforeIs DEF Rows
  <2>4. s.line.ts - q.line.ts <= Gap
    BY <1>2, <1>8, <2>3, Lengths
  <2> QED BY <1>2, <1>7, <2>2, <2>4 DEF Opens
<1>11. SessionOf(o, R).end >= a
  <2> DEFINE l == LastOf(PagesFrom(o, R))
  <2>1. l \in PagesFrom(o, R) /\ ~Before(l, x) /\ l \in Views(R) /\ SessionOf(o, R).end = l.line.ts
    BY <1>7, <1>10, PagesEnd
  <2>2. l \in R
    BY <2>1 DEF Views
  <2>3. x.line.ts <= l.line.ts /\ l.line.ts \in Int
    BY <1>1, <2>1, <2>2, BeforeIs DEF Rows
  <2> QED BY <1>1, <1>8, <2>1, <2>3
<1>12. o.line.ts < a
  BY <1>3, <1>8
<1> QED BY <1>7, <1>11, <1>12 DEF Crossing

LEMMA CrossesCut ==
  ASSUME NEW R, Rows(R), NEW a \in Int, NEW z \in Int, a + Gap <= z, NEW o \in Crossing(R, a)
  PROVE  \E x \in Cut(R, a, z) : x.ip = o.ip
<1> DEFINE P == PagesFrom(o, R)
           l == LastOf(P)
           W == {s \in Views(R) : s.ip = o.ip /\ s.line.ts >= a /\ ~Before(l, s)}
<1>1. o \in Openers(R) /\ o.line.ts < a /\ SessionOf(o, R).end >= a /\ o \in R
  BY DEF Crossing, Openers, Views
<1>2. l \in P /\ l \in Views(R) /\ l \in R /\ l.line.ts >= a
  BY <1>1, PagesEnd DEF Views
<1>3. l.ip = o.ip
      /\ ~\E s \in Views(R) : s.ip = o.ip /\ Opens(s, R) /\ Before(o, s) /\ ~Before(l, s)
  <2> HIDE DEF l
  <2> QED BY <1>2 DEF PagesFrom
<1> HIDE DEF l
<1>4. l \in W /\ W \in SUBSET R
  BY <1>2, <1>3, BeforeIs DEF Views
<1>5. PICK x \in W : \A s \in W : ~Before(s, x)
  <2>1. W # {}
    BY <1>4
  <2> HIDE DEF W
  <2> QED BY <1>4, <2>1, FirstAndLast
<1>6. /\ x \in Views(R) /\ x \in R /\ x.ip = o.ip /\ x.line.ts >= a /\ ~Before(l, x)
      /\ x.line.ts \in Int /\ o.line.ts \in Int
  BY <1>1 DEF Views, Rows
<1>7. Before(o, x)
  BY <1>1, <1>6, BeforeIs
<1>8. ~Opens(x, R)
  BY <1>3, <1>6, <1>7
<1>9. ASSUME NEW q \in Views(R), q.ip = x.ip, Before(q, x)
      PROVE  q.line.ts < a /\ q.line.ts \in Int
  <2>1. q \in R /\ q.line.ts \in Int
    BY DEF Views, Rows
  <2>2. ~Before(l, q)
    <3> SUFFICES ASSUME Before(l, q) PROVE FALSE
      OBVIOUS
    <3>1. ~Before(q, l)
      BY <1>2, <2>1, BeforeIs
    <3>2. Before(l, x)
      BY <1>2, <1>6, <1>9, <2>1, <3>1, BeforeIs
    <3> QED BY <1>6, <3>2
  <2>3. q \notin W
    BY <1>5, <1>9
  <2> QED BY <1>6, <1>9, <2>1, <2>2, <2>3
<1>10. PICK q \in Views(R) : q.ip = x.ip /\ Before(q, x) /\ x.line.ts - q.line.ts <= Gap
  BY <1>8 DEF Opens
<1>11. x.line.ts < z
  <2>1. q.line.ts < a /\ q.line.ts \in Int
    BY <1>9, <1>10
  <2> QED BY <1>6, <1>10, <2>1, Lengths
<1>12. x \in Views(Span(R, a, z))
  BY <1>6, <1>11 DEF Views, Span
<1>13. Opens(x, Span(R, a, z))
  <2> SUFFICES ASSUME NEW s \in Views(Span(R, a, z)), s.ip = x.ip, Before(s, x) PROVE FALSE
    BY DEF Opens
  <2>1. s \in Views(R) /\ a <= s.line.ts
    BY DEF Views, Span
  <2>2. s.line.ts < a /\ s.line.ts \in Int
    BY <1>9, <2>1
  <2> QED BY <2>1, <2>2
<1>14. x \in Cut(R, a, z)
  BY <1>8, <1>12, <1>13 DEF Cut, Openers
<1> QED BY <1>6, <1>14

\* As many sessions are cut as begin anew.
LEMMA CutCount ==
  ASSUME NEW R, Rows(R), NEW a \in Int, NEW z \in Int, a + Gap <= z
  PROVE  /\ Cardinality(Cut(R, a, z)) = Cardinality(Crossing(R, a))
         /\ IsFiniteSet(Cut(R, a, z)) /\ IsFiniteSet(Crossing(R, a))
<1> DEFINE X == Cut(R, a, z)
           C == Crossing(R, a)
           f == [x \in X |-> x.ip]
           g == [o \in C |-> o.ip]
<1>1. X \in SUBSET R /\ C \in SUBSET R
  <2>1. X \in SUBSET R
    BY DEF Cut, Openers, Views, Span
  <2>2. C \in SUBSET R
    BY DEF Crossing, Openers, Views
  <2> QED BY <2>1, <2>2
<1>2. IsFiniteSet(X) /\ IsFiniteSet(C)
  <2> HIDE DEF X, C
  <2> QED BY <1>1, RowsPart
<1>3. \A x \in X : \A y \in X : f[x] = f[y] => x = y
  <2> SUFFICES ASSUME NEW x \in X, NEW y \in X, x.ip = y.ip PROVE x = y
    OBVIOUS
  <2>1. ~Before(x, y) /\ ~Before(y, x)
    BY CutApart
  <2>2. x \in R /\ y \in R
    BY <1>1
  <2> QED BY <2>1, <2>2, BeforeIs
<1>4. \A x \in C : \A y \in C : g[x] = g[y] => x = y
  <2> SUFFICES ASSUME NEW x \in C, NEW y \in C, x.ip = y.ip PROVE x = y
    OBVIOUS
  <2>1. ~Before(x, y) /\ ~Before(y, x)
    BY CrossingApart
  <2>2. x \in R /\ y \in R
    BY <1>1
  <2> QED BY <2>1, <2>2, BeforeIs
<1>5. (\A x \in X : \E o \in C : o.ip = x.ip) /\ \A o \in C : \E x \in X : x.ip = o.ip
  BY CutCrosses, CrossesCut
<1>6. {f[x] : x \in X} = {g[o] : o \in C}
  <2> HIDE DEF X, C
  <2> QED BY <1>5
<1>7. Cardinality({f[x] : x \in X}) = Cardinality(X)
  <2> HIDE DEF X, f
  <2> QED BY ONLY <1>2, <1>3, InjectCount
<1>8. Cardinality({g[x] : x \in C}) = Cardinality(C)
  <2> HIDE DEF C, g
  <2> QED BY ONLY <1>2, <1>4, InjectCount
<1> QED BY <1>2, <1>6, <1>7, <1>8
-----------------------------------------------------------------------------
(* The sessions of a range.                                                *)

Within(T, a, z) == {s \in T : a <= s.start /\ s.start < z}

LEMMA SessionCountIs ==
  ASSUME NEW db, IsDb(db), NEW p, p.from \in Int, p.to \in Int, NEW q
  PROVE  /\ FromLogs(db, q) => SessionCount(db, p, q) = Cardinality(SessionsOf(Raw(db, p, q)))
         /\ ~FromLogs(db, q) /\ db.schema = "aggregates" =>
              /\ Tabled(db, p) = Within(db.sessions, DayOf(p.from), DayOf(p.to) + Day)
              /\ SessionCount(db, p, q)
                   = Cardinality(Within(db.sessions, DayOf(p.from), DayOf(p.to) + Day))
         /\ ~FromLogs(db, q) /\ db.schema # "aggregates" =>
              /\ Tabled(db, p) = Within(db.sessions, p.from, p.to)
              /\ SessionCount(db, p, q) = Cardinality(Within(db.sessions, p.from, p.to))
<1> DEFINE S == db.sessions
           t == [s \in S |-> s.start]
           f == [d \in DaysOf(p) |-> SessionsOn(S, d)]
           g == [d \in DaysOf(p) |-> Cardinality({s \in S : DayOf(t[s]) = d})]
           a == DayOf(p.from)
           z == DayOf(p.to) + Day
<1>1. IsFiniteSet(S) /\ \A s \in S : s.start \in Int
  BY DEF IsDb, IsVisits
<1>2. \A s \in S : t[s] \in Int
  BY <1>1
<1>3. f = g
  <2>1. \A d : {s \in S : DayOf(t[s]) = d} = {s \in S : DayOf(s.start) = d}
    OBVIOUS
  <2> HIDE DEF S, t
  <2> QED BY <2>1 DEF SessionsOn
<1>4. SumOf(g) = Cardinality({s \in S : DayOf(p.from) <= t[s] /\ t[s] < DayOf(p.to) + Day})
  <2> HIDE DEF S, t
  <2> QED BY <1>1, <1>2, DaysCount
<1>5. {s \in S : DayOf(p.from) <= t[s] /\ t[s] < DayOf(p.to) + Day} = Within(S, a, z)
  BY DEF Within
<1>6. \A s \in S : DayOf(s.start) \in DaysOf(p) <=> a <= s.start /\ s.start < z
  BY <1>1, DaysAre
<1>7. {s \in S : DayOf(s.start) \in DaysOf(p)} = Within(S, a, z)
  <2> HIDE DEF S, a, z
  <2> QED BY <1>6 DEF Within
<1>8. FromLogs(db, q) => SessionCount(db, p, q) = Cardinality(SessionsOf(Raw(db, p, q)))
  BY DEF SessionCount, FromRows
<1>9. ~FromLogs(db, q) /\ db.schema = "aggregates" =>
        /\ SessionCount(db, p, q) = SumOf(f)
        /\ Tabled(db, p) = {s \in S : DayOf(s.start) \in DaysOf(p)}
  BY DEF SessionCount, Tabled
<1>10. ~FromLogs(db, q) /\ db.schema # "aggregates" =>
         /\ SessionCount(db, p, q) = Cardinality(Within(S, p.from, p.to))
         /\ Tabled(db, p) = Within(S, p.from, p.to)
  BY DEF SessionCount, Tabled, Started, Within
<1> QED BY <1>3, <1>4, <1>5, <1>7, <1>8, <1>9, <1>10

LEMMA WithinIs ==
  ASSUME NEW T, IsVisits(T), NEW a, NEW z
  PROVE  IsFiniteSet(Within(T, a, z)) /\ Cardinality(Within(T, a, z)) \in Nat
BY FS_Subset, FS_CardinalityType DEF IsVisits, Within

\* The sessions that start in a range, or in its days, and those that its rows make up.
LEMMA RangeSessions ==
  ASSUME NEW R, Rows(R), NEW p, IsRange(p)
  PROVE  LET S == SessionsOf(R)
             over == {s \in S : s.start < p.from /\ s.end >= p.from}
             e == DayOf(p.to)
             V == Span(R, p.from, p.to)
         IN /\ Cardinality(Starting(R, p.from, e + Day)) + Cardinality(over)
                 = Cardinality(SessionsOf(V)) + Cardinality(Starting(R, p.to, e + Day))
            /\ Cardinality(Starting(R, p.from, p.to)) + Cardinality(over)
                 = Cardinality(SessionsOf(V))
<1> DEFINE S == SessionsOf(R)
           over == {s \in S : s.start < p.from /\ s.end >= p.from}
           e == DayOf(p.to)
           V == Span(R, p.from, p.to)
           A == Opening(R, p.from, p.to)
           L == Opening(R, p.to, e + Day)
           D == Opening(R, p.from, e + Day)
           X == Cut(R, p.from, p.to)
           C == Crossing(R, p.from)
<1>1. Rows(R)
  OBVIOUS
<1>2. /\ p.from \in Int /\ p.to \in Int /\ e \in Int /\ DayOf(p.from) = p.from
      /\ p.from + Gap <= p.to /\ p.to < e + Day /\ p.from <= p.to
  BY RangeBounds
<1>5. Cardinality(Starting(R, p.from, p.to)) = Cardinality(A) /\ IsFiniteSet(A)
  BY <1>1, SessionsIn
<1>6. Cardinality(Starting(R, p.to, e + Day)) = Cardinality(L)
  BY <1>1, SessionsIn
<1>7. Cardinality(Starting(R, p.from, e + Day)) = Cardinality(D) /\ IsFiniteSet(D)
  BY <1>1, SessionsIn
<1>8. Cardinality(over) = Cardinality(C)
  <2>1. C \in SUBSET Openers(R)
    BY DEF Crossing
  <2>2. over = {SessionOf(r, R) : r \in C}
    <3>1. S = {SessionOf(r, R) : r \in Openers(R)}
      BY <1>1, AllSessions
    <3>2. \A r \in Openers(R) : SessionOf(r, R).start = r.line.ts
      BY DEF SessionOf
    <3> HIDE DEF S
    <3> QED BY <3>1, <3>2 DEF Crossing
  <2>3. Cardinality({SessionOf(r, R) : r \in C}) = Cardinality(C)
    <3> HIDE DEF C
    <3> QED BY <1>1, <2>1, SessionsCount
  <2> QED BY <2>2, <2>3
<1>9. Cardinality(X) = Cardinality(C) /\ IsFiniteSet(X)
  BY <1>1, <1>2, CutCount
<1>10. Cardinality(SessionsOf(V)) = Cardinality(Openers(V)) /\ IsFiniteSet(Openers(V))
       /\ Openers(V) = A \cup X /\ A \cap X = {}
  <2>1. Rows(V) /\ A \subseteq Openers(V) /\ X = Openers(V) \ A
    BY <1>1, <1>2, SpanRows DEF Opening
  <2>2. Cardinality(SessionsOf(V)) = Cardinality(Openers(V)) /\ IsFiniteSet(Openers(V))
    BY <2>1, AllSessions
  <2> HIDE DEF V, A, X
  <2> QED BY <2>1, <2>2
<1>11. /\ Cardinality(Openers(V)) = Cardinality(A) + Cardinality(X)
       /\ Cardinality(A) \in Nat /\ Cardinality(X) \in Nat
  <2> DEFINE O == Openers(V)
  <2>1. O = A \cup X /\ A \cap X = {} /\ IsFiniteSet(O)
    BY <1>10
  <2> HIDE DEF O, A, X
  <2>2. Cardinality(O) = Cardinality(A) + Cardinality(X)
        /\ Cardinality(A) \in Nat /\ Cardinality(X) \in Nat
    BY ONLY <2>1, CountBoth
  <2> QED BY <2>2 DEF O
<1>12. /\ Cardinality(D) = Cardinality(A) + Cardinality(L) /\ Cardinality(L) \in Nat
  <2>1. \A r \in Openers(R) : r.line.ts \in Int
    BY <1>1 DEF Openers, Views, Rows
  <2>2. D = A \cup L /\ A \cap L = {}
    <3> SUFFICES ASSUME NEW r \in Openers(R)
                 PROVE  /\ (r \in D) <=> (r \in A \/ r \in L)
                        /\ ~(r \in A /\ r \in L)
      BY DEF Opening
    <3>1. r.line.ts \in Int
      BY <2>1
    <3> DEFINE t == r.line.ts
               end == e + Day
    <3>2. end \in Int /\ p.to < end
      BY <1>2, BucketsAssumption
    <3>3. /\ (r \in D) <=> (p.from <= t /\ t < end)
          /\ (r \in A) <=> (p.from <= t /\ t < p.to)
          /\ (r \in L) <=> (p.to <= t /\ t < end)
      BY DEF Opening
    <3> HIDE DEF A, D, L, t, end
    <3> QED BY <1>2, <3>1, <3>2, <3>3 DEF t
  <2>3. IsFiniteSet(D)
    BY <1>7
  <2> HIDE DEF D, A, L
  <2> QED BY ONLY <2>2, <2>3, CountBoth
<1> HIDE DEF S, over, e, V, A, L, D, X, C
<1> QED BY <1>5, <1>6, <1>7, <1>8, <1>9, <1>10, <1>11, <1>12 DEF S, over, e, V

\* What the tables have of the visitors outside K is what the rows make up.
VisitsOK(R, T, K) ==
  /\ IsVisits(T)
  /\ {s \in T : s.ip \notin K} = {Visit(r) : r \in Openers({q \in R : q.ip \notin K})}

LEMMA VisitsCount ==
  ASSUME NEW R, Rows(R), NEW T, NEW K, VisitsOK(R, T, K), NEW a, NEW z
  PROVE  Cardinality(Within(T, a, z))
           = Cardinality(Starting({q \in R : q.ip \notin K}, a, z))
             + Cardinality({s \in Within(T, a, z) : s.ip \in K})
<1> DEFINE V == {q \in R : q.ip \notin K}
           W == Within(T, a, z)
           A == {s \in W : s.ip \notin K}
           B == {s \in W : s.ip \in K}
           O == Opening(V, a, z)
           f == [r \in O |-> Visit(r)]
<1>1. IsFiniteSet(W)
  BY WithinIs DEF VisitsOK
<1>2. W = A \cup B /\ A \cap B = {}
  OBVIOUS
<1>3. Rows(V)
  BY RowsPart
<1>4. IsFiniteSet(O) /\ Cardinality(Starting(V, a, z)) = Cardinality(O)
  <2> HIDE DEF V, O
  <2> QED BY <1>3, SessionsIn DEF O
<1>5. A = {f[r] : r \in O}
  <2>1. {s \in T : s.ip \notin K} = {Visit(r) : r \in Openers(V)}
    BY DEF VisitsOK
  <2>2. \A r : Visit(r).start = r.line.ts
    BY DEF Visit
  <2>3. A = {s \in {t \in T : t.ip \notin K} : a <= s.start /\ s.start < z}
    BY DEF Within
  <2>4. O = {r \in Openers(V) : a <= r.line.ts /\ r.line.ts < z}
    BY DEF Opening
  <2>5. {f[r] : r \in O} = {Visit(r) : r \in O}
    OBVIOUS
  <2> HIDE DEF V, W, A, O, f
  <2> QED BY <2>1, <2>2, <2>3, <2>4, <2>5
<1>6. \A r \in O : \A q \in O : f[r] = f[q] => r = q
  <2> SUFFICES ASSUME NEW r \in O, NEW q \in O, f[r] = f[q] PROVE r = q
    OBVIOUS
  <2>1. r.ip = q.ip /\ r.line.ts = q.line.ts
    BY DEF Visit
  <2>2. r \in Openers(V) /\ q \in Openers(V)
    BY DEF Opening
  <2> HIDE DEF V, O
  <2> QED BY <1>3, <2>1, <2>2, OpenersApart
<1>7. Cardinality(A) = Cardinality(O)
  <2> HIDE DEF A, O, f
  <2> QED BY <1>4, <1>5, <1>6, InjectCount
<1>8. Cardinality(W) = Cardinality(A) + Cardinality(B)
  <2> HIDE DEF W, A, B
  <2> QED BY ONLY <1>1, <1>2, CountBoth
<1> QED BY <1>4, <1>7, <1>8

\* What the tables of the sessions count and what the rows do.
LEMMA SessionsPart ==
  ASSUME NEW db, IsDb(db), NEW K, VisitsOK(db.rows, db.sessions, K),
         NEW p, IsRange(p), NEW q, ~FromLogs(db, q)
  PROVE  LET S == SessionsOf({r \in db.rows : r.ip \notin K})
             over == {s \in S : s.start < p.from /\ s.end >= p.from}
             late == IF db.schema = "aggregates" THEN Started(S, LeftOut(p)) ELSE {}
             others == {s \in Tabled(db, p) : s.ip \in K}
         IN SessionCount(db, p, q) + Cardinality(over)
              = Cardinality(SessionsOf({r \in Raw(db, p, q) : r.ip \notin K}))
                + Cardinality(late) + Cardinality(others)
<1> DEFINE R == {r \in db.rows : r.ip \notin K}
           T == db.sessions
           S == SessionsOf(R)
           over == {s \in S : s.start < p.from /\ s.end >= p.from}
           late == IF db.schema = "aggregates" THEN Started(S, LeftOut(p)) ELSE {}
           others == {s \in Tabled(db, p) : s.ip \in K}
           e == DayOf(p.to)
           V == Span(R, p.from, p.to)
           n == SessionCount(db, p, q)
           Fits == n + Cardinality(over)
                     = Cardinality(SessionsOf(V)) + Cardinality(late) + Cardinality(others)
<1>1. Rows(db.rows) /\ Rows(R) /\ IsVisits(T)
  BY RowsPart DEF IsDb
<1>2. /\ p.from \in Int /\ p.to \in Int /\ e \in Int /\ DayOf(p.from) = p.from
      /\ p.to < e + Day
  BY RangeBounds
<1>3. {r \in Raw(db, p, q) : r.ip \notin K} = V
  BY DEF FromLogs, Raw, Span
<1>4. LeftOut(p).from = p.to /\ LeftOut(p).to = e + Day
  BY <1>2, Lengths DEF LeftOut, Of, LastSecond
<1>5. /\ Cardinality(Starting(R, p.from, e + Day)) + Cardinality(over)
           = Cardinality(SessionsOf(V)) + Cardinality(Starting(R, p.to, e + Day))
      /\ Cardinality(Starting(R, p.from, p.to)) + Cardinality(over) = Cardinality(SessionsOf(V))
  <2> HIDE DEF R
  <2> QED BY <1>1, RangeSessions
<1>6. \A a : \A z : Cardinality(Within(T, a, z))
        = Cardinality(Starting(R, a, z)) + Cardinality({s \in Within(T, a, z) : s.ip \in K})
  BY <1>1, VisitsCount
<1>7. \A a : \A z : Cardinality(Starting(R, a, z)) \in Nat
  <2> HIDE DEF R
  <2> QED BY <1>1, SessionsIn, FS_CardinalityType
<1>8. \A a : \A z : Cardinality({s \in Within(T, a, z) : s.ip \in K}) \in Nat
  <2> SUFFICES ASSUME NEW a, NEW z PROVE Cardinality({s \in Within(T, a, z) : s.ip \in K}) \in Nat
    OBVIOUS
  <2>1. IsFiniteSet(Within(T, a, z))
    <3> HIDE DEF T
    <3> QED BY <1>1, WithinIs
  <2>2. {s \in Within(T, a, z) : s.ip \in K} \in SUBSET Within(T, a, z)
    OBVIOUS
  <2> HIDE DEF T
  <2> QED BY <2>1, <2>2, FS_Subset, FS_CardinalityType
<1>9. Cardinality(over) \in Nat /\ Cardinality(SessionsOf(V)) \in Nat
  <2>1. Rows(V)
    BY <1>1, RowsPart DEF Span
  <2>2. IsFiniteSet(SessionsOf(V)) /\ IsFiniteSet(S)
    <3> HIDE DEF R, V
    <3> QED BY <1>1, <2>1, AllSessions
  <2>3. over \in SUBSET S
    OBVIOUS
  <2> HIDE DEF V, S, over
  <2> QED BY <2>2, <2>3, FS_Subset, FS_CardinalityType
<1>10. ASSUME db.schema = "aggregates" PROVE Fits
  <2> DEFINE a == DayOf(p.from)
             W == Within(T, a, e + Day)
  <2>1. SessionCount(db, p, q) = Cardinality(W) /\ Tabled(db, p) = W
    BY <1>2, <1>10, SessionCountIs
  <2>2. late = Starting(R, p.to, e + Day)
    BY <1>4, <1>10 DEF Started, Starting
  <2>3. a = p.from
    BY <1>2
  <2>4. Cardinality(W) = Cardinality(Starting(R, p.from, e + Day))
                         + Cardinality({s \in W : s.ip \in K})
        /\ Cardinality({s \in W : s.ip \in K}) \in Nat
    <3> HIDE DEF R, T, a
    <3> QED BY <1>6, <1>8, <2>3
  <2>5. n = Cardinality(W) /\ others = {s \in W : s.ip \in K}
    BY <2>1
  <2> HIDE DEF R, T, S, over, late, others, e, V, W, a, n
  <2> QED BY <1>5, <1>7, <1>9, <2>2, <2>4, <2>5
<1>11. ASSUME db.schema # "aggregates" PROVE Fits
  <2> DEFINE W == Within(T, p.from, p.to)
  <2>1. SessionCount(db, p, q) = Cardinality(W) /\ Tabled(db, p) = W
    BY <1>2, <1>11, SessionCountIs
  <2>2. Cardinality(late) = 0
    BY <1>11, FS_EmptySet
  <2>3. Cardinality(W) = Cardinality(Starting(R, p.from, p.to))
                         + Cardinality({s \in W : s.ip \in K})
        /\ Cardinality({s \in W : s.ip \in K}) \in Nat
    <3> HIDE DEF R, T
    <3> QED BY <1>6, <1>8
  <2>4. n = Cardinality(W) /\ others = {s \in W : s.ip \in K}
    BY <2>1
  <2> HIDE DEF R, T, S, over, late, others, e, V, W, n
  <2> QED BY <1>5, <1>7, <1>9, <2>2, <2>3, <2>4
<1>12. Fits
  BY <1>10, <1>11
<1> QED BY <1>3, <1>12
-----------------------------------------------------------------------------
(* The entry pages that are listed are some of those of the sessions.      *)

Picks(S, f, n) ==
  \E T \in SUBSET S : Cardinality(T) = n /\ \A x \in T, y \in S \ T : ~(f[y] > f[x])

\* The first n in the order of f, for every n.
LEMMA PicksExist ==
  ASSUME NEW S, IsFiniteSet(S), NEW f, \A x \in S : f[x] \in Int
  PROVE  \A n \in 0..Cardinality(S) : Picks(S, f, n)
<1> DEFINE All(u) == \A n \in 0..Cardinality(u) : Picks(u, f, n)
           G == {u \in SUBSET S : All(u)}
<1>1. ASSUME NEW u \in SUBSET S, \A v \in SUBSET u : v # u => v \in G PROVE u \in G
  <2> SUFFICES ASSUME NEW n \in 0..Cardinality(u) PROVE Picks(u, f, n)
    OBVIOUS
  <2>0. IsFiniteSet(u)
    BY FS_Subset
  <2>1. CASE n = Cardinality(u)
    <3>1. u \in SUBSET u /\ \A x \in u, y \in u \ u : ~(f[y] > f[x])
      OBVIOUS
    <3> QED BY <2>1, <3>1 DEF Picks
  <2>2. CASE n # Cardinality(u)
    <3>1. u # {} /\ Cardinality(u) \in Nat /\ n \in Nat /\ n <= Cardinality(u) - 1
      <4>1. Cardinality(u) \in Nat /\ (u = {} => Cardinality(u) = 0)
        BY <2>0, FS_CardinalityType, FS_EmptySet
      <4> QED BY <2>2, <4>1
    <3>2. PICK m \in u : \A t \in u : f[m] <= f[t]
      <4> DEFINE a == [x \in u |-> 0 - f[x]]
      <4>1. a \in [u -> Int]
        OBVIOUS
      <4> HIDE DEF a
      <4>2. \E m \in u : \A t \in u : a[t] < a[m] \/ (a[t] = a[m] /\ a[t] <= a[m])
        BY ONLY <2>0, <3>1, <4>1, TopOf
      <4>3. PICK m \in u : \A t \in u : a[t] < a[m] \/ (a[t] = a[m] /\ a[t] <= a[m])
        BY <4>2
      <4>4. \A t \in u : f[m] <= f[t]
        BY <4>3 DEF a
      <4> QED BY <4>4
    <3> DEFINE v == u \ {m}
    <3>3. v \in SUBSET u /\ v # u
      BY <3>2
    <3>4. Cardinality(v) = Cardinality(u) - 1
      BY <2>0, <3>2, FS_RemoveElement
    <3>5. All(v)
      BY <1>1, <3>3
    <3>6. Picks(v, f, n)
      <4> HIDE DEF v
      <4> QED BY <3>1, <3>4, <3>5
    <3>7. PICK T \in SUBSET v : Cardinality(T) = n /\ \A x \in T, y \in v \ T : ~(f[y] > f[x])
      BY <3>6 DEF Picks
    <3>8. T \in SUBSET u /\ \A x \in T, y \in u \ T : ~(f[y] > f[x])
      <4> SUFFICES ASSUME NEW x \in T, NEW y \in u \ T, f[y] > f[x] PROVE FALSE
        BY <3>7
      <4>1. CASE y = m
        <5>1. x \in u /\ f[x] \in Int /\ f[m] \in Int /\ f[m] <= f[x]
          BY <3>2, <3>7
        <5> QED BY <4>1, <5>1
      <4>2. CASE y # m
        BY <3>7, <4>2
      <4> QED BY <4>1, <4>2
    <3> QED BY <3>7, <3>8 DEF Picks
  <2> QED BY <2>1, <2>2
<1>2. IsFiniteSet(S)
  OBVIOUS
<1> HIDE DEF G
<1>3. \A u \in SUBSET S : u \in G
  BY ONLY <1>1, <1>2, Smaller
<1>4. S \in G
  BY <1>3
<1> QED BY <1>4 DEF G

LEMMA TopPicks ==
  ASSUME NEW f, IsFiniteSet(DOMAIN f), \A u \in DOMAIN f : f[u] \in Int
  PROVE  \E T \in SUBSET DOMAIN f : TopEntries(f) = {[key |-> u, count |-> f[u]] : u \in T}
<1> DEFINE S == DOMAIN f
           n == Min({Cardinality(S), TopSize})
           Is(T) == Cardinality(T) = n /\ \A x \in T, y \in S \ T : ~(f[y] > f[x])
           T == CHOOSE u \in SUBSET S : Is(u)
<1>1. n \in 0..Cardinality(S)
  <2>1. Cardinality(S) \in Nat /\ TopSize \in Nat
    BY FS_CardinalityType, StatAssumption
  <2> DEFINE P == {Cardinality(S), TopSize}
  <2>2. P \in SUBSET Nat /\ P # {}
    BY <2>1
  <2>3. Min(P) \in P /\ \A y \in P : Min(P) <= y
    <3> HIDE DEF P
    <3> QED BY <2>2, MinIs
  <2>4. n \in P /\ n <= Cardinality(S)
    BY <2>3
  <2> HIDE DEF n
  <2> QED BY <2>1, <2>4
<1>2. Picks(S, f, n)
  <2> HIDE DEF n
  <2> QED BY <1>1, PicksExist
<1>3. \E u \in SUBSET S : Is(u)
  BY <1>2 DEF Picks
<1>4. T \in SUBSET S
  <2> HIDE DEF Is, S
  <2> QED BY <1>3
<1>5. TopEntries(f) = {[key |-> u, count |-> f[u]] : u \in T}
  BY DEF TopEntries, Top
<1> QED BY <1>4, <1>5

LEMMA EntriesBound ==
  ASSUME NEW S, IsFiniteSet(S)
  PROVE  LET f == [u \in {s.entry : s \in S} |-> Cardinality({s \in S : s.entry = u})] IN
         SumOf([e \in TopEntries(f) |-> e.count]) <= Cardinality(S)
<1> DEFINE key == [s \in S |-> s.entry]
           K == {key[s] : s \in S}
           f == [u \in {s.entry : s \in S} |-> Cardinality({s \in S : s.entry = u})]
<1>1. K = {s.entry : s \in S} /\ DOMAIN f = K
  OBVIOUS
<1>2. \A u \in K : KeyPart(key, S, u) = {s \in S : s.entry = u}
  BY DEF KeyPart
<1>3. \A u \in K : f[u] = Cardinality(KeyPart(key, S, u))
  BY <1>1, <1>2
<1>4. \A s \in S : key[s] \in K
  OBVIOUS
<1> HIDE DEF f, key
<1>5. IsFiniteSet(K)
  BY ImageFinite
<1> HIDE DEF K
<1>6. \A u \in K : KeyPart(key, S, u) \in SUBSET S
  BY DEF KeyPart
<1>7. \A u \in K : f[u] \in Nat
  BY <1>3, <1>6, FS_Subset, FS_CardinalityType
<1> DEFINE h == [u \in K |-> Cardinality(KeyPart(key, S, u))]
<1>8. Cardinality(S) = Summed(h, K)
  BY <1>4, <1>5, CountKeys
<1>9. Summed(h, K) = Summed(f, K)
  <2>1. \A u \in K : h[u] = f[u]
    BY <1>3
  <2> QED BY <2>1, OverSame
<1>10. PICK T \in SUBSET K : TopEntries(f) = {[key |-> u, count |-> f[u]] : u \in T}
  <2>1. DOMAIN f = K
    BY <1>1
  <2> QED BY <1>5, <1>7, <2>1, TopPicks
<1> DEFINE r == [u \in T |-> [key |-> u, count |-> f[u]]]
           E == {r[u] : u \in T}
           c == [e \in E |-> e.count]
           k == [e \in E |-> e.key]
           g == [u \in K |-> Summed(c, KeyPart(k, E, u))]
<1>11. TopEntries(f) = E
  BY <1>10
<1>12. IsFiniteSet(T)
  BY <1>5, FS_Subset
<1>13. IsFiniteSet(E)
  <2> HIDE DEF r
  <2> QED BY <1>12, ImageFinite
<1>14. \A e \in E : k[e] \in K /\ c[e] = f[k[e]] /\ e = [key |-> k[e], count |-> f[k[e]]]
                      /\ c[e] \in Int
  BY <1>7
<1>15. c = [e \in E |-> c[e]]
  OBVIOUS
<1> HIDE DEF E, c, k
<1>16. SumOf(c) = Summed(c, E)
  BY <1>15, OverAll
<1>17. Summed(c, E) = Summed(g, K)
  BY <1>5, <1>13, <1>14, OverKeys
<1>18. \A u \in K : g[u] \in Int /\ f[u] \in Int /\ g[u] <= f[u]
  <2> SUFFICES ASSUME NEW u \in K PROVE g[u] \in Int /\ f[u] \in Int /\ g[u] <= f[u]
    OBVIOUS
  <2>0. g[u] = Summed(c, KeyPart(k, E, u))
    OBVIOUS
  <2>1. CASE KeyPart(k, E, u) = {}
    BY <1>7, <2>0, <2>1, OverNone
  <2>2. CASE KeyPart(k, E, u) # {}
    <3>1. PICK e \in E : k[e] = u
      BY <2>2 DEF KeyPart
    <3>2. \A d \in E : k[d] = u => d = e
      <4> HIDE DEF g
      <4> QED BY <1>14, <3>1
    <3>3. KeyPart(k, E, u) = {e}
      BY <3>1, <3>2 DEF KeyPart
    <3>4. c[e] = f[u] /\ c[e] \in Int
      BY <1>14, <3>1
    <3>5. Summed(c, {e}) = c[e]
      BY <3>4, OverOne
    <3> QED BY <1>7, <2>0, <3>3, <3>4, <3>5
  <2> QED BY <2>1, <2>2
<1>19. Summed(g, K) <= Summed(f, K)
  <2> HIDE DEF g
  <2> QED BY <1>5, <1>18, OverLeq
<1>20. SumOf([e \in TopEntries(f) |-> e.count]) = SumOf(c)
  BY <1>11 DEF c
<1> HIDE DEF g, h
<1>21. SumOf([e \in TopEntries(f) |-> e.count]) <= Cardinality(S)
  BY <1>8, <1>9, <1>16, <1>17, <1>19, <1>20
<1> QED BY <1>21 DEF f
LEMMA EntriesPart ==
  ASSUME NEW db, IsDb(db), NEW p, p.from \in Int, p.to \in Int, NEW q
  PROVE  SumOf([e \in TopEntries(EntryCounts(db, p, q)) |-> e.count]) <= SessionCount(db, p, q)
<1> DEFINE S == IF FromLogs(db, q) THEN FromRows(db, p, q) ELSE Tabled(db, p)
<1>1. EntryCounts(db, p, q)
        = [u \in {s.entry : s \in S} |-> Cardinality({s \in S : s.entry = u})]
  BY DEF EntryCounts
<1>2. IsFiniteSet(S) /\ Cardinality(S) = SessionCount(db, p, q)
  <2>1. CASE FromLogs(db, q)
    <3>1. Rows(Raw(db, p, q))
      BY CountedRows
    <3>2. IsFiniteSet(FromRows(db, p, q))
      BY <3>1, AllSessions DEF FromRows
    <3> QED BY <2>1, <3>2 DEF SessionCount
  <2>2. \A a : \A z : IsFiniteSet(Within(db.sessions, a, z))
    BY WithinIs DEF IsDb
  <2>3. CASE ~FromLogs(db, q) /\ db.schema = "aggregates"
    BY <2>2, <2>3, SessionCountIs
  <2>4. CASE ~FromLogs(db, q) /\ db.schema # "aggregates"
    BY <2>2, <2>4, SessionCountIs
  <2> QED BY <2>1, <2>3, <2>4
<1> HIDE DEF S
<1> QED BY <1>1, <1>2, EntriesBound
-----------------------------------------------------------------------------
(* The comparison with the range before, and the forecast.                 *)

LEMMA DayOrder ==
  ASSUME NEW a \in Int, NEW b \in Int, a <= b
  PROVE  DayOf(a) <= DayOf(b)
<1>1. Day \in Nat \ {0}
  BY Lengths
<1> DEFINE m == a \div Day
           n == b \div Day
<1>2. m <= n /\ m \in Int /\ n \in Int
  BY <1>1, DivOrder
<1> HIDE DEF m, n
<1>3. n - m \in Nat /\ (n - m) * Day \in Nat /\ n * Day = m * Day + (n - m) * Day /\ m * Day \in Int
  BY <1>1, <1>2
<1>4. m * Day <= n * Day
  BY <1>3
<1> QED BY <1>4 DEF DayOf, m, n

LEMMA OfTwo ==
  ASSUME NEW a \in Int, NEW b \in Int
  PROVE  /\ Min({a, b}) \in {a, b} /\ Min({a, b}) <= a /\ Min({a, b}) <= b
         /\ Max({a, b}) \in {a, b} /\ a <= Max({a, b}) /\ b <= Max({a, b})
<1>1. (\E x \in {a, b} : \A y \in {a, b} : x <= y) /\ \E x \in {a, b} : \A y \in {a, b} : x >= y
  OBVIOUS
<1>2. Min({a, b}) \in {a, b} /\ \A y \in {a, b} : Min({a, b}) <= y
  BY <1>1 DEF Min
<1>3. Max({a, b}) \in {a, b} /\ \A y \in {a, b} : Max({a, b}) >= y
  BY <1>1 DEF Max
<1> QED BY <1>2, <1>3

\* A session of the rows up to some time opens as it does among all of them.
LEMMA OpensEarly ==
  ASSUME NEW R, Rows(R), NEW V \in SUBSET R, NEW z \in Int,
         \A r \in R : r \in V <=> r.line.ts < z
  PROVE  Openers(V) \subseteq Openers(R)
<1> SUFFICES ASSUME NEW r \in Openers(V) PROVE r \in Openers(R)
  OBVIOUS
<1>1. r \in V /\ r.line.pv /\ Opens(r, V) /\ r.line.ts < z
  BY DEF Openers, Views
<1>2. r \in Views(R)
  BY <1>1 DEF Views
<1>3. ASSUME NEW q \in Views(R), q.ip = r.ip, Before(q, r), r.line.ts - q.line.ts <= Gap PROVE FALSE
  <2>1. q \in R /\ q.line.pv /\ r \in R
    BY <1>1 DEF Views
  <2>2. q.line.ts <= r.line.ts
    BY <1>3, <2>1, BeforeIs
  <2>3. q.line.ts \in Int /\ r.line.ts \in Int
    BY <2>1 DEF Rows
  <2>4. q \in Views(V)
    BY <1>1, <2>1, <2>2, <2>3 DEF Views
  <2> QED BY <1>1, <1>3, <2>4 DEF Opens
<1>4. Opens(r, R)
  BY <1>3 DEF Opens
<1> QED BY <1>2, <1>4 DEF Openers

LEMMA SnapshotIs ==
  ASSUME NEW db, IsDb(db), NEW p, p.from \in Int, p.to \in Int, NEW q
  PROVE  /\ Snapshot(db, p, q).pv = Cardinality(Views(Counted(db, p, q)))
         /\ Snapshot(db, p, q).uv = Cardinality(Addresses(Counted(db, p, q)))
         /\ Snapshot(db, p, q).sessions = SessionCount(db, p, q)
         /\ Snapshot(db, p, q).pv \in Nat /\ Snapshot(db, p, q).uv \in Nat
         /\ Snapshot(db, p, q).sessions \in Nat
<1>1. /\ Snapshot(db, p, q).pv = Cardinality(Views(Counted(db, p, q)))
      /\ Snapshot(db, p, q).uv = Cardinality(Addresses(Counted(db, p, q)))
      /\ Snapshot(db, p, q).sessions = SessionCount(db, p, q)
  BY ColumnIs DEF Snapshot
<1>2. Rows(Counted(db, p, q)) /\ Rows(Raw(db, p, q)) /\ Rows(db.rows)
  BY CountedRows DEF IsDb
<1>3. Cardinality(Views(Counted(db, p, q))) \in Nat
  BY <1>2, PvViews
<1>4. Cardinality(Addresses(Counted(db, p, q))) \in Nat
  BY <1>2, AddressesOf
<1>5. SessionCount(db, p, q) \in Nat
  <2>1. \A a : \A z : Cardinality(Within(db.sessions, a, z)) \in Nat
    BY WithinIs DEF IsDb
  <2>2. Cardinality(SessionsOf(Raw(db, p, q))) \in Nat
    BY <1>2, AllSessions, FS_CardinalityType
  <2> QED BY <2>1, <2>2, SessionCountIs
<1> QED BY <1>1, <1>3, <1>4, <1>5

\* A range that ends earlier has fewer of everything.
LEMMA SnapshotGrows ==
  ASSUME NEW db, IsDb(db), NEW b, b.from \in Int, b.to \in Int, NEW z \in Int, z <= b.to, NEW q
  PROVE  LET s == Snapshot(db, Of(b.from, z), q)  t == Snapshot(db, b, q) IN
         s.pv <= t.pv /\ s.uv <= t.uv /\ s.sessions <= t.sessions
<1> DEFINE a == Of(b.from, z)
<1>1. a.from = b.from /\ a.to = z
  BY DEF Of
<1> HIDE DEF a
<1>2. DayOf(z) <= DayOf(b.to) /\ DayOf(z) \in Int /\ DayOf(b.to) \in Int /\ Day \in Nat
  BY DayOrder, DayIs, Lengths
<1>3. \A r \in db.rows : r.line.ts \in Nat
  BY DEF IsDb, Rows
<1>4. Raw(db, a, q) \subseteq Raw(db, b, q)
  BY <1>1, <1>3 DEF Raw
<1>5. Whole(db, a) \subseteq Whole(db, b)
  BY <1>1, <1>2, <1>3 DEF Whole, Span
<1>6. Counted(db, a, q) \in SUBSET Counted(db, b, q)
  BY <1>4, <1>5 DEF Counted
<1>7. Rows(Counted(db, b, q)) /\ Rows(Raw(db, b, q)) /\ Rows(db.rows)
  BY CountedRows DEF IsDb
<1>8. Cardinality(Views(Counted(db, a, q))) <= Cardinality(Views(Counted(db, b, q)))
  <2>1. Views(Counted(db, a, q)) \subseteq Views(Counted(db, b, q))
    BY <1>6 DEF Views
  <2>2. IsFiniteSet(Views(Counted(db, b, q)))
    BY <1>7, PvViews
  <2> QED BY <2>1, <2>2, FS_Subset
<1>9. Cardinality(Addresses(Counted(db, a, q))) <= Cardinality(Addresses(Counted(db, b, q)))
  BY <1>6, <1>7, AddressesOf
<1>10. SessionCount(db, a, q) <= SessionCount(db, b, q)
  <2>1. CASE FromLogs(db, q)
    <3> DEFINE W == Raw(db, b, q)
               V == Raw(db, a, q)
    <3>1. V \in SUBSET W /\ \A r \in W : r \in V <=> r.line.ts < z
      BY <1>1, <1>4 DEF Raw
    <3>2. Rows(W)
      BY <1>7
    <3>3. Rows(V)
      BY CountedRows
    <3>4. Openers(V) \subseteq Openers(W)
      <4> HIDE DEF V, W
      <4> QED BY <3>1, <3>2, OpensEarly
    <3>5. IsFiniteSet(Openers(W)) /\ Cardinality(SessionsOf(W)) = Cardinality(Openers(W))
          /\ Cardinality(SessionsOf(V)) = Cardinality(Openers(V))
      <4> HIDE DEF V, W
      <4> QED BY <3>2, <3>3, AllSessions
    <3>6. Cardinality(Openers(V)) <= Cardinality(Openers(W))
      BY <3>4, <3>5, FS_Subset
    <3>7. SessionCount(db, a, q) = Cardinality(SessionsOf(V))
          /\ SessionCount(db, b, q) = Cardinality(SessionsOf(W))
      BY <1>1, <2>1, SessionCountIs
    <3> QED BY <3>5, <3>6, <3>7
  <2>2. IsVisits(db.sessions)
    BY DEF IsDb
  <2>3. ASSUME NEW f \in Int, NEW y \in Int, NEW x \in Int, y <= x
        PROVE  Cardinality(Within(db.sessions, f, y)) <= Cardinality(Within(db.sessions, f, x))
    <3>1. Within(db.sessions, f, y) \subseteq Within(db.sessions, f, x)
      BY <2>2, <2>3 DEF Within, IsVisits
    <3>2. IsFiniteSet(Within(db.sessions, f, x))
      BY <2>2, WithinIs
    <3> QED BY <3>1, <3>2, FS_Subset
  <2>4. CASE ~FromLogs(db, q) /\ db.schema = "aggregates"
    <3> DEFINE f == DayOf(b.from)
               y == DayOf(z) + Day
               x == DayOf(b.to) + Day
    <3>1. /\ SessionCount(db, a, q) = Cardinality(Within(db.sessions, f, y))
          /\ SessionCount(db, b, q) = Cardinality(Within(db.sessions, f, x))
      BY <1>1, <2>4, SessionCountIs
    <3>2. f \in Int /\ y \in Int /\ x \in Int /\ y <= x
      BY <1>2, DayIs
    <3> HIDE DEF f, y, x
    <3> QED BY <2>3, <3>1, <3>2
  <2>5. CASE ~FromLogs(db, q) /\ db.schema # "aggregates"
    <3>1. /\ SessionCount(db, a, q) = Cardinality(Within(db.sessions, b.from, z))
          /\ SessionCount(db, b, q) = Cardinality(Within(db.sessions, b.from, b.to))
      BY <1>1, <2>5, SessionCountIs
    <3> QED BY <2>3, <3>1
  <2> QED BY <2>1, <2>4, <2>5
<1>11. a.from \in Int /\ a.to \in Int
  BY <1>1
<1> QED BY <1>8, <1>9, <1>10, <1>11, SnapshotIs DEF a

LEMMA RoundIs ==
  ASSUME NEW a \in Int, NEW b \in Nat \ {0}, NEW x \in Int, x * b <= a
  PROVE  Round(a, b) \in Int /\ x <= Round(a, b)
<1> DEFINE c == 2 * a + b
           k == 2 * b
           m == c \div k
<1>1. c \in Int /\ k \in Nat \ {0} /\ x * k = 2 * (x * b) /\ x * b \in Int
  OBVIOUS
<1>2. x * k <= c
  BY <1>1
<1> HIDE DEF c, k
<1>3. m \in Int /\ c < m * k + k
  BY <1>1
<1> HIDE DEF m
<1>4. x <= m
  <2> SUFFICES ASSUME x > m PROVE FALSE
    BY <1>3
  <2>1. x - (m + 1) \in Nat /\ (x - (m + 1)) * k \in Nat
    BY <1>1, <1>3
  <2>2. x * k = (x - (m + 1)) * k + m * k + k /\ m * k \in Int /\ x * k \in Int
    BY <1>1, <1>3
  <2> QED BY <1>1, <1>2, <1>3, <2>1, <2>2
<1> QED BY <1>3, <1>4 DEF Round, c, k, m
LEMMA CurrentEndIs ==
  ASSUME NEW db, IsDb(db), NEW p, IsRange(p)
  PROVE  CurrentEnd(db, p) \in Int /\ p.from <= CurrentEnd(db, p) /\ CurrentEnd(db, p) <= p.to
<1>1. p.from \in Int /\ p.to \in Int /\ p.from <= p.to
  BY RangeBounds
<1>2. db.now \in Int
  BY DEF IsDb, InCalendar
<1> DEFINE m == Min({db.now, p.to})
<1>3. m \in Int /\ m <= p.to
  BY <1>1, <1>2, OfTwo
<1> HIDE DEF m
<1>4. Max({p.from, m}) \in {p.from, m} /\ p.from <= Max({p.from, m})
  BY <1>1, <1>3, OfTwo
<1>5. CurrentEnd(db, p) = Max({p.from, m})
  BY DEF CurrentEnd, m
<1> QED BY <1>1, <1>3, <1>4, <1>5

LEMMA ScaledIs ==
  ASSUME NEW db, IsDb(db), NEW p, IsRange(p), NEW x \in Nat
  PROVE  Scaled(db, x, p) \in Int /\ x <= Scaled(db, x, p)
<1> DEFINE e == CurrentEnd(db, p) - p.from
           l == p.to - p.from
<1>1. e \in Nat /\ l \in Nat /\ e <= l
  BY CurrentEndIs, RangeBounds
<1>2. Scaled(db, x, p) = IF e = 0 THEN x ELSE Round(x * l, e)
  BY DEF Scaled
<1> HIDE DEF e, l
<1>3. x * l \in Int /\ x * e <= x * l
  <2>1. l - e \in Nat /\ x * (l - e) \in Nat /\ x * e \in Int /\ x * l = x * e + x * (l - e)
    BY <1>1
  <2> QED BY <2>1
<1>4. CASE e = 0
  BY <1>2, <1>4
<1>5. CASE e # 0
  <2>1. Round(x * l, e) \in Int /\ x <= Round(x * l, e)
    BY <1>1, <1>3, <1>5, RoundIs
  <2> QED BY <1>2, <1>5, <2>1
<1> QED BY <1>4, <1>5

Figures == {"pv", "uv", "sessions"}

LEMMA ForecastIs ==
  ASSUME NEW db, IsDb(db), NEW p, IsRange(p), NEW q, NEW current, DOMAIN current = Figures,
         \A f \in Figures : current[f] \in Nat, NEW failing
  PROVE  \A f \in Figures : Forecast(db, current, p, q, "forecast" \in failing)[f] >= current[f]
<1> DEFINE end == CurrentEnd(db, p)
           window == Min({ForecastWindow, end - p.from})
           recent == Snapshot(db, Of(end - window, end), q)
           progress == [f \in DOMAIN current |-> Scaled(db, current[f], p)]
           rate(f) == progress[f] + Round(recent[f] * (p.to - end), window)
           w == ForecastWeight(p)
           now2 == end = p.to \/ window < MinWindow \/ "forecast" \in failing \/ recent = NoSnapshot
           late == [f \in DOMAIN current |-> Round(w * rate(f) + (10 - w) * progress[f], 10)]
<1>1. Forecast(db, current, p, q, "forecast" \in failing) = IF now2 THEN progress ELSE late
  BY DEF Forecast
<1>2. end \in Int /\ p.from \in Int /\ p.to \in Int /\ p.from <= end /\ end <= p.to
  BY CurrentEndIs, RangeBounds
<1>3. \A f \in Figures : progress[f] \in Int /\ progress[f] >= current[f]
                        /\ progress[f] = Scaled(db, current[f], p)
  BY ScaledIs
<1>4. w \in {3, 5, 7}
  BY DEF ForecastWeight
<1>5. window \in Int /\ MinWindow \in Nat \ {0}
  <2>1. ForecastWindow \in Int /\ end - p.from \in Int
    BY <1>2, StatAssumption
  <2> HIDE DEF end
  <2>2. Min({ForecastWindow, end - p.from}) \in {ForecastWindow, end - p.from}
    BY <2>1, OfTwo
  <2> QED BY <2>1, <2>2, StatAssumption
<1>6. \A f \in Figures : recent[f] \in Nat
  <2> DEFINE b == Of(end - window, end)
  <2>1. b.from \in Int /\ b.to \in Int
    <3> HIDE DEF end, window
    <3> QED BY <1>2, <1>5 DEF Of
  <2>2. Snapshot(db, b, q).pv \in Nat /\ Snapshot(db, b, q).uv \in Nat
        /\ Snapshot(db, b, q).sessions \in Nat
    <3> HIDE DEF b
    <3> QED BY <2>1, SnapshotIs
  <2> QED BY <2>2 DEF Figures
<1>7. \A f \in Figures : late[f] = Round(w * rate(f) + (10 - w) * progress[f], 10)
  OBVIOUS
<1> HIDE DEF end, window, recent, progress, w, late
<1>8. ASSUME NEW f \in Figures, ~now2 PROVE late[f] >= current[f]
  <2> DEFINE x == recent[f] * (p.to - end)
             y == Round(x, window)
             u == rate(f)
             v == progress[f]
             a == w * u + (10 - w) * v
  <2>1. window \in Nat \ {0}
    BY <1>5, <1>8
  <2>2. x \in Nat
    <3>1. p.to - end \in Nat /\ recent[f] \in Nat
      BY <1>2, <1>6
    <3> QED BY <3>1
  <2>3. y \in Int /\ 0 <= y
    <3> HIDE DEF x
    <3> QED BY <2>1, <2>2, RoundIs
  <2>4. u \in Int /\ v \in Int /\ v <= u /\ current[f] <= v /\ current[f] \in Int
    <3> HIDE DEF y
    <3>1. u = v + y
      BY DEF y
    <3> HIDE DEF u, v
    <3> QED BY <1>3, <2>3, <3>1 DEF v
  <2>5. a \in Int /\ current[f] * 10 <= a
    <3> HIDE DEF u, v
    <3>1. CASE w = 3
      BY <2>4, <3>1
    <3>2. CASE w = 5
      BY <2>4, <3>2
    <3>3. CASE w = 7
      BY <2>4, <3>3
    <3> QED BY <1>4, <3>1, <3>2, <3>3
  <2>6. Round(a, 10) >= current[f]
    <3> HIDE DEF a
    <3>1. Round(a, 10) \in Int /\ current[f] <= Round(a, 10)
      BY <2>4, <2>5, RoundIs
    <3> QED BY <2>4, <3>1
  <2>7. late[f] = Round(a, 10)
    BY <1>7
  <2> QED BY <2>6, <2>7
<1>9. ASSUME NEW f \in Figures PROVE (IF now2 THEN progress ELSE late)[f] >= current[f]
  <2> HIDE DEF now2
  <2> QED BY <1>3, <1>8
<1> QED BY <1>1, <1>9

LEMMA ComparePart ==
  ASSUME NEW db, IsDb(db), NEW range \in TimeRanges, NEW q, NEW current,
         current = Snapshot(db, TimePeriod(db, range), q)
  PROVE  LET c == Compare(db, range, TimePeriod(db, range), q, current, {}) IN
         \A f \in Figures : c.sameTime[f] <= c.previous[f] /\ c.forecast[f] >= current[f]
<1> DEFINE p == TimePeriod(db, range)
           c == Compare(db, range, p, q, current, {})
           b == PreviousTimeRange(db, range)
           end == SameEnd(b, CurrentEnd(db, p) - p.from)
<1>1. IsRange(p) /\ IsRange(b)
  BY PeriodIsRange, PreviousIsRange DEF IsDb
<1> HIDE DEF p
<1>2. /\ p.from \in Int /\ p.to \in Int /\ b.from \in Int /\ b.to \in Int
      /\ CurrentEnd(db, p) \in Int
  BY <1>1, RangeBounds, CurrentEndIs
<1>3. end \in Int /\ end <= b.to
  <2> DEFINE x == b.from + (CurrentEnd(db, p) - p.from)
  <2>1. x \in Int
    BY <1>2
  <2> HIDE DEF x, b
  <2>2. Min({x, b.to}) \in {x, b.to} /\ Min({x, b.to}) <= b.to
    BY <1>2, <2>1, OfTwo
  <2>3. end = Min({x, b.to})
    BY DEF SameEnd, x
  <2> QED BY <1>2, <2>1, <2>2, <2>3
<1>4. c.previous = Snapshot(db, b, q)
  BY DEF Compare
<1>5. c.sameTime = IF end = b.from THEN Snapshot(db, b, q) ELSE Snapshot(db, Of(b.from, end), q)
  <2> DEFINE prev == IF "previous" \in {} THEN NoSnapshot ELSE Snapshot(db, b, q)
  <2>1. c.sameTime = IF end = b.from \/ "sameTime" \in {} THEN prev
                     ELSE Snapshot(db, Of(b.from, end), q)
    BY Zenon DEF Compare
  <2>2. prev = Snapshot(db, b, q)
    OBVIOUS
  <2> HIDE DEF prev, c, b, end
  <2> QED BY <2>1, <2>2
<1>6. c.forecast = Forecast(db, current, p, q, "forecast" \in {})
  BY Zenon DEF Compare
<1> HIDE DEF b, c, end
<1>7. \A f \in Figures : c.sameTime[f] <= c.previous[f]
  <2>1. LET s == Snapshot(db, Of(b.from, end), q)  t == Snapshot(db, b, q) IN
        s.pv <= t.pv /\ s.uv <= t.uv /\ s.sessions <= t.sessions
    BY <1>2, <1>3, SnapshotGrows
  <2>2. LET t == Snapshot(db, b, q) IN t.pv \in Nat /\ t.uv \in Nat /\ t.sessions \in Nat
    BY <1>2, SnapshotIs
  <2> QED BY <1>4, <1>5, <2>1, <2>2 DEF Figures
<1>8. \A f \in Figures : c.forecast[f] >= current[f]
  <2>1. current = Snapshot(db, p, q)
    BY DEF p
  <2>2. current.pv \in Nat /\ current.uv \in Nat /\ current.sessions \in Nat
    BY <1>2, <2>1, SnapshotIs
  <2>3. DOMAIN current = Figures
    BY <2>1 DEF Snapshot, Figures
  <2>4. \A f \in Figures : current[f] \in Nat
    BY <2>2 DEF Figures
  <2> QED BY <1>1, <1>6, <2>3, <2>4, ForecastIs
<1> QED BY <1>7, <1>8 DEF c, p
-----------------------------------------------------------------------------
(* The rows and the time.  Every row has a number of its own, and the time is one  *)
(* that the calendar of its case has.                                              *)

Spares == {"who", "asks", "ask", "lines", "ticks", "clears", "faults"}
\* A table whose rows are numbered.
IsTable(R) == Rows(R) /\ \A r \in R : r.n \in 1..Cardinality(R)
ClockOK(t, sp) ==
  \E c \in Cases : \E n \in c.nows :
    t = n + (c.left.ticks - sp.ticks) /\ sp.ticks \in Nat /\ sp.ticks <= c.left.ticks
SpareOK(sp) ==
  /\ DOMAIN sp = Spares /\ sp.ask \in DOMAIN Queries /\ IsLines(sp.lines)
  /\ sp.asks \in Nat /\ sp.clears \in Nat /\ sp.faults \in Nat
DbOK == /\ IsTable(shown) /\ ClockOK(now, spare) /\ SpareOK(spare) /\ schema \in Schemas
        /\ VisitsOK(shown, sessionTable, skipped)

LEMMA ClockIs ==
  ASSUME NEW t, NEW sp, ClockOK(t, sp)
  PROVE  InCalendar(t)
<1>1. PICK c \in Cases : \E n \in c.nows :
        t = n + (c.left.ticks - sp.ticks) /\ sp.ticks \in Nat /\ sp.ticks <= c.left.ticks
  BY DEF ClockOK
<1>2. PICK n \in c.nows :
        t = n + (c.left.ticks - sp.ticks) /\ sp.ticks \in Nat /\ sp.ticks <= c.left.ticks
  BY <1>1
<1>3. c.left.ticks \in Nat /\ \A k \in 0..c.left.ticks : InCalendar(n + k)
  BY StatAssumption
<1>4. c.left.ticks - sp.ticks \in 0..c.left.ticks
  BY <1>2, <1>3
<1> QED BY <1>2, <1>3, <1>4

LEMMA DbIsDb == DbOK => IsDb(Db)
BY ClockIs DEF DbOK, IsDb, Db, IsTable, VisitsOK

LEMMA TableRows ==
  ASSUME NEW s, IsLines(s)
  PROVE  IsTable(TableOf(s))
<1> DEFINE D == DOMAIN s
           f == [n \in D |-> RowOf(s[n], n)]
           R == TableOf(s)
<1>1. s \in Seq(ToSet(s)) /\ D = 1..Len(s) /\ Len(s) \in Nat
  BY DEF IsLines
<1>2. \A n \in D : s[n] \in ToSet(s)
  BY DEF ToSet
<1>3. R = {f[n] : n \in D}
  BY DEF TableOf
<1>4. IsFiniteSet(D) /\ Cardinality(D) = Len(s)
  BY <1>1, FS_Interval
<1>5. \A m \in D : \A n \in D : f[m] = f[n] => m = n
  BY DEF RowOf
<1>6. IsFiniteSet(R) /\ Cardinality(R) = Len(s)
  <2> HIDE DEF f, D, R
  <2> QED BY <1>3, <1>4, <1>5, InjectCount
<1>7. ASSUME NEW n \in D
      PROVE  LET r == RowOf(s[n], n) IN
             /\ r.n = n /\ r.n \in 1..Len(s) /\ r.n \in Nat /\ r.line.ts \in Nat
             /\ r.line.pv \in BOOLEAN /\ r.line.bytes \in Nat
  <2>1. s[n].ts \in Nat /\ s[n].pv \in BOOLEAN /\ s[n].bytes \in Nat
    BY <1>2 DEF IsLines
  <2> QED BY <1>1, <2>1 DEF RowOf
<1>8. \A r \in R : \E n \in D : r = RowOf(s[n], n)
  BY DEF TableOf
<1> HIDE DEF R, D
<1>9. \A r \in R : r.n \in 1..Len(s) /\ r.n \in Nat /\ r.line.ts \in Nat
                   /\ r.line.pv \in BOOLEAN /\ r.line.bytes \in Nat
  BY <1>7, <1>8
<1>10. \A r \in R : \A q \in R : r.n = q.n => r = q
  BY <1>7, <1>8
<1> QED BY <1>6, <1>9, <1>10 DEF IsTable, Rows, R

LEMMA RowAdded ==
  ASSUME NEW R, IsTable(R), NEW l, l.ts \in Nat, l.pv \in BOOLEAN, l.bytes \in Nat
  PROVE  IsTable(R \cup {RowOf(l, Cardinality(R) + 1)})
<1> DEFINE x == RowOf(l, Cardinality(R) + 1)
           S == R \cup {x}
<1>1. IsFiniteSet(R) /\ Cardinality(R) \in Nat
  BY FS_CardinalityType DEF IsTable, Rows
<1>2. x.n = Cardinality(R) + 1 /\ x.line = l
  BY DEF RowOf
<1>3. \A r \in R : r.n \in 1..Cardinality(R)
  BY DEF IsTable
<1> HIDE DEF x
<1>4. x \notin R
  BY <1>1, <1>2, <1>3
<1>5. IsFiniteSet(S) /\ Cardinality(S) = Cardinality(R) + 1
  BY <1>1, <1>4, FS_AddElement
<1>6. \A r \in S : /\ r.n \in 1..(Cardinality(R) + 1) /\ r.n \in Nat /\ r.line.ts \in Nat
                   /\ r.line.pv \in BOOLEAN /\ r.line.bytes \in Nat
  BY <1>1, <1>2, <1>3 DEF IsTable, Rows
<1>7. \A r \in S : \A q \in S : r.n = q.n => r = q
  <2>1. \A r \in R : \A q \in R : r.n = q.n => r = q
    BY DEF IsTable, Rows
  <2>2. \A r \in R : r.n # x.n
    BY <1>1, <1>2, <1>3
  <2> QED BY <2>1, <2>2
<1> QED BY <1>5, <1>6, <1>7 DEF IsTable, Rows, x

\* The tables after a rebuild, and after one page view more.
LEMMA VisitsRebuilt ==
  ASSUME NEW R, Rows(R)
  PROVE  VisitsOK(R, Rebuilt(R), {})
<1> DEFINE O == Openers(R)
           f == [r \in O |-> Visit(r)]
<1>1. Rebuilt(R) = {Visit(r) : r \in O}
  BY DEF Rebuilt, Openers
<1>2. IsFiniteSet(O) /\ O \subseteq R
  BY AllSessions
<1>3. {f[r] : r \in O} = {Visit(r) : r \in O}
  OBVIOUS
<1>4. IsFiniteSet({f[r] : r \in O})
  <2> HIDE DEF f, O
  <2> QED BY <1>2, ImageFinite
<1>5. \A r \in O : Visit(r).start \in Int
  BY <1>2 DEF Visit, Rows
<1>6. {q \in R : q.ip \notin {}} = R /\ {s \in Rebuilt(R) : s.ip \notin {}} = Rebuilt(R)
  OBVIOUS
<1> HIDE DEF O, f
<1>7. IsVisits(Rebuilt(R))
  BY <1>1, <1>3, <1>4, <1>5 DEF IsVisits
<1> QED BY <1>1, <1>6, <1>7 DEF VisitsOK, O

\* A visitor whose rows are left out has no part in the sessions of the others.
LEMMA OpenersOf ==
  ASSUME NEW R, NEW K
  PROVE  Openers({q \in R : q.ip \notin K}) = {r \in Openers(R) : r.ip \notin K}
BY DEF Openers, Opens, Views

LEMMA VisitAdded ==
  ASSUME NEW R, Rows(R), NEW x, Rows(R \cup {x}), \A r \in R : r.n < x.n,
         NEW T, NEW K, VisitsOK(R, T, K),
         NEW opens, opens <=> x.line.pv /\ \A r \in Views(R) : r.ip = x.ip => x.line.ts - r.line.ts > Gap,
         NEW late, late <=> x.line.pv /\ \E r \in Views(R) : r.ip = x.ip /\ x.line.ts < r.line.ts
  PROVE  VisitsOK(R \cup {x}, IF opens THEN T \cup {Visit(x)} ELSE T,
                  IF late THEN K \cup {x.ip} ELSE K)
<1> DEFINE S == R \cup {x}
           U == IF opens THEN T \cup {Visit(x)} ELSE T
           L == IF late THEN K \cup {x.ip} ELSE K
<1>1. x.line.ts \in Nat /\ x.line.pv \in BOOLEAN /\ x.n \in Nat
      /\ \A r \in R : r.line.ts \in Nat /\ r.n \in Nat
  BY DEF Rows
<1>2. Visit(x).ip = x.ip /\ Visit(x).start = x.line.ts
  BY DEF Visit
<1>3. IsVisits(U)
  <2>1. IsFiniteSet(T) /\ \A s \in T : s.start \in Int
    BY DEF VisitsOK, IsVisits
  <2>2. IsFiniteSet(T \cup {Visit(x)})
    BY <2>1, FS_AddElement
  <2> QED BY <1>1, <1>2, <2>1, <2>2 DEF IsVisits
<1>4. {s \in T : s.ip \notin K} = {Visit(r) : r \in {q \in Openers(R) : q.ip \notin K}}
  <2>1. {s \in T : s.ip \notin K} = {Visit(r) : r \in Openers({q \in R : q.ip \notin K})}
    BY DEF VisitsOK
  <2>2. Openers({q \in R : q.ip \notin K}) = {q \in Openers(R) : q.ip \notin K}
    BY OpenersOf
  <2> QED BY <2>1, <2>2
<1>5. \A r : Visit(r).ip = r.ip
  BY DEF Visit
\* The sessions of the others, and without a late page view its own, open as before.
<1>6. ASSUME NEW r \in R, r.ip # x.ip \/ ~late PROVE r \in Openers(S) <=> r \in Openers(R)
  <2>1. (x \in Views(S) /\ x.ip = r.ip /\ r.line.pv) => ~Before(x, r)
    <3> SUFFICES ASSUME x.line.pv, x.ip = r.ip, r.line.pv PROVE ~Before(x, r)
      BY DEF Views
    <3>1. r \in Views(R)
      BY DEF Views
    <3>2. ~(x.line.ts < r.line.ts)
      BY <1>6, <3>1
    <3> QED BY <1>1, <3>2 DEF Before
  <2>2. Views(R) \subseteq Views(S) /\ \A q \in Views(S) : q \in Views(R) \/ q = x
    BY DEF Views
  <2>3. r \in Views(S) <=> r \in Views(R)
    BY DEF Views
  <2>4. r \in Views(R) => (Opens(r, S) <=> Opens(r, R))
    <3> SUFFICES ASSUME r \in Views(R) PROVE Opens(r, S) <=> Opens(r, R)
      OBVIOUS
    <3>1. r.line.pv
      BY DEF Views
    <3> QED BY <2>1, <2>2, <3>1 DEF Opens
  <2> QED BY <2>3, <2>4 DEF Openers
<1>7. x \notin R
  BY <1>1
<1>8. ~late => (x \in Openers(S) <=> opens)
  <2> SUFFICES ASSUME ~late PROVE x \in Openers(S) <=> opens
    OBVIOUS
  <2>1. ~Before(x, x)
    BY <1>1 DEF Before
  <2>2. ASSUME x.line.pv, NEW r \in Views(R), r.ip = x.ip PROVE Before(r, x)
    <3>1. ~(x.line.ts < r.line.ts) /\ r \in R
      BY <2>2 DEF Views
    <3> QED BY <1>1, <3>1 DEF Before
  <2>3. \A r \in Views(R) : x.line.ts - r.line.ts > Gap <=> ~(x.line.ts - r.line.ts <= Gap)
    BY <1>1, Lengths DEF Views
  <2>4. Views(R) \subseteq Views(S) /\ \A q \in Views(S) : q \in Views(R) \/ q = x
    BY DEF Views
  <2>5. x \in Views(S) <=> x.line.pv
    BY DEF Views
  <2> QED BY <2>1, <2>2, <2>3, <2>4, <2>5 DEF Openers, Opens
<1>9. Openers(S) \subseteq S /\ Openers(R) \subseteq R
  BY DEF Openers, Views
<1> DEFINE A == {q \in Openers(R) : q.ip \notin L}
           B == {q \in Openers(S) : q.ip \notin L}
<1>10. {s \in T : s.ip \notin L} = {Visit(r) : r \in A}
  <2>1. K \subseteq L
    OBVIOUS
  <2>2. {s \in T : s.ip \notin L} = {s \in {t \in T : t.ip \notin K} : s.ip \notin L}
    BY <2>1
  <2>3. A = {q \in {o \in Openers(R) : o.ip \notin K} : q.ip \notin L}
    BY <2>1
  <2> HIDE DEF A, L
  <2> QED BY <1>4, <1>5, <2>2, <2>3
<1>11. B = IF opens /\ x.ip \notin L THEN A \cup {x} ELSE A
  <2>1. x.ip \notin L => ~late
    OBVIOUS
  <2>2. \A r \in R : r.ip \notin L => (r \in Openers(S) <=> r \in Openers(R))
    BY <1>6
  <2> HIDE DEF L
  <2> QED BY <1>7, <1>8, <1>9, <2>1, <2>2
<1>12. {s \in U : s.ip \notin L} = {Visit(r) : r \in B}
  <2>1. {s \in U : s.ip \notin L}
          = IF opens /\ x.ip \notin L THEN {s \in T : s.ip \notin L} \cup {Visit(x)}
            ELSE {s \in T : s.ip \notin L}
    <3> HIDE DEF L
    <3> QED BY <1>2
  <2> HIDE DEF A, B, L, U
  <2> QED BY <1>10, <1>11, <2>1
<1>13. {s \in U : s.ip \notin L} = {Visit(r) : r \in Openers({q \in S : q.ip \notin L})}
  <2>1. Openers({q \in S : q.ip \notin L}) = B
    <3> HIDE DEF L
    <3> QED BY OpenersOf
  <2> HIDE DEF B, U, L, S
  <2> QED BY <1>12, <2>1
<1> HIDE DEF U, L, S
<1>14. VisitsOK(S, U, L)
  BY <1>3, <1>13 DEF VisitsOK
<1> QED BY <1>14 DEF U, L, S

LEMMA LinesRest ==
  ASSUME NEW s, IsLines(s), s # <<>>
  PROVE  /\ IsLines(Tail(s))
         /\ Head(s).ts \in Nat /\ Head(s).pv \in BOOLEAN /\ Head(s).bytes \in Nat
<1> DEFINE T == ToSet(s)
<1>1. s \in Seq(T) /\ \A l \in T : {l.ts, l.code, l.bytes, l.took} \subseteq Nat /\ l.pv \in BOOLEAN
  BY DEF IsLines
<1>2. ToSet(Tail(s)) \subseteq T
  <2> SUFFICES ASSUME NEW i \in DOMAIN Tail(s) PROVE Tail(s)[i] \in T
    BY DEF ToSet
  <2> HIDE DEF T
  <2>1. Tail(s) \in Seq(T)
    BY <1>1
  <2> QED BY <2>1
<1>3. \A i \in DOMAIN Tail(s) : Tail(s)[i] \in ToSet(Tail(s))
  BY DEF ToSet
<1> HIDE DEF T
<1>4. Head(s) \in T
  BY <1>1
<1>5. Tail(s) \in Seq(ToSet(Tail(s)))
  <2>1. Tail(s) \in Seq(T)
    BY <1>1
  <2> DEFINE u == Tail(s)
             U == ToSet(u)
  <2>2. Len(u) \in Nat /\ DOMAIN u = 1..Len(u) /\ u = [i \in 1..Len(u) |-> u[i]]
    <3>1. u \in Seq(T)
      BY <2>1
    <3> HIDE DEF u
    <3> QED BY <3>1
  <2>3. \A i \in 1..Len(u) : u[i] \in U
    BY <1>3, <2>2
  <2> HIDE DEF u, U
  <2>4. u \in Seq(U)
    BY <2>2, <2>3
  <2> QED BY <2>4 DEF u, U
<1> QED BY <1>1, <1>2, <1>4, <1>5 DEF IsLines
-----------------------------------------------------------------------------
(* A request that nothing disturbed and no fault met: each of its figures is one of  *)
(* the rows and the time there are, and those it lacks are still to be read.         *)

Named == {"totals", "uv", "codes", "prevCodes", "sessions", "entries", "active", "visitors",
          "prevVisitors", "pvPoints", "uvPoints", "list", "all", "search", "direct", "external",
          "summary", "sessionList", "activeNow", "series", "lists", "day", "prevDay", "trend",
          "issues"}
Needed(kind) ==
  CASE kind = "overall" -> {"totals", "uv", "sessions", "entries", "visitors", "compare"}
    [] kind = "referer_ip_batch" -> {"all", "search", "direct", "external"}
    [] kind = "developer_daily" -> {"day", "trend"}
    [] kind = "realtime" -> {"activeNow", "series"}
    [] OTHER -> {}
\* The comparison is read last, and by itself.
IsPlan(todo) ==
  /\ todo \in Seq(SUBSET (Named \cup {"compare"}))
  /\ \A i \in 1..Len(todo) : /\ todo[i] # {}
                             /\ "compare" \in todo[i] => todo[i] = {"compare"} /\ i = Len(todo)
Asked(todo, f) == \E i \in 1..Len(todo) : f \in todo[i]
Begins(db, r) ==
  /\ IsQuery(r.query) /\ r.at = db.now
  /\ r.period = TimePeriod(db, r.query.range)
  /\ r.previous = PreviousTimeRange(db, r.query.range)
  /\ r.points = TimePoints(db, r.query.range, r.query.view)
Compared(db, r) ==
  Compare(db, r.query.range, r.period, r.query, Current(r.ans), {})
Sound(db, r) ==
  /\ Begins(db, r) /\ IsPlan(r.todo)
  /\ \A f \in Needed(r.query.kind) : f \in DOMAIN r.ans \/ Asked(r.todo, f)
  /\ DOMAIN r.ans \subseteq Named \cup {"compare"}
  /\ \A f \in DOMAIN r.ans : f # "compare" => r.ans[f] = Figure(db, f, r)
  /\ "compare" \in DOMAIN r.ans => r.todo = <<>> /\ r.ans.compare = Compared(db, r)
  /\ Asked(r.todo, "compare") => r.query.kind = "overall"

LEMMA FigureSame ==
  ASSUME NEW db, NEW r, NEW s, r.query = s.query, r.at = s.at, r.period = s.period,
         r.previous = s.previous, r.points = s.points, NEW f \in Named
  PROVE  Figure(db, f, r) = Figure(db, f, s)
BY DEF Figure, Named

\* Statements other than the comparison.
Early(s) == s \in Seq(SUBSET Named) /\ \A i \in 1..Len(s) : s[i] # {}

LEMMA Joined ==
  ASSUME NEW X, NEW s \in Seq(X), NEW t \in Seq(X)
  PROVE  /\ s \o t \in Seq(X) /\ Len(s \o t) = Len(s) + Len(t)
         /\ Len(s) \in Nat /\ Len(t) \in Nat
         /\ \A i \in 1..Len(s) : (s \o t)[i] = s[i]
         /\ \A i \in 1..Len(t) : (s \o t)[Len(s) + i] = t[i]
         /\ \A i \in 1..Len(s \o t) : \/ i \in 1..Len(s) /\ (s \o t)[i] = s[i]
                                     \/ \E k \in 1..Len(t) : i = Len(s) + k /\ (s \o t)[i] = t[k]
<1>1. Len(s) \in Nat /\ Len(t) \in Nat /\ s \o t \in Seq(X) /\ Len(s \o t) = Len(s) + Len(t)
  OBVIOUS
<1>2. \A i \in 1..Len(s) : (s \o t)[i] = s[i]
  OBVIOUS
<1>3. \A i \in 1..Len(t) : (s \o t)[Len(s) + i] = t[i]
  OBVIOUS
<1>4. \A i \in 1..Len(s \o t) : i \in 1..Len(s) \/ \E k \in 1..Len(t) : i = Len(s) + k
  <2> SUFFICES ASSUME NEW i \in 1..Len(s \o t), i \notin 1..Len(s)
               PROVE  \E k \in 1..Len(t) : i = Len(s) + k
    OBVIOUS
  <2> DEFINE m == Len(s)
             n == Len(t)
  <2>1. m \in Nat /\ n \in Nat /\ i \in 1..(m + n) /\ i \notin 1..m
    BY <1>1
  <2> HIDE DEF m, n
  <2>2. i - m \in 1..n /\ i = m + (i - m)
    BY <2>1
  <2> QED BY <2>2 DEF m, n
<1> QED BY <1>1, <1>2, <1>3, <1>4

LEMMA AskedJoined ==
  ASSUME NEW X, NEW s \in Seq(X), NEW t \in Seq(X), NEW f
  PROVE  Asked(s, f) \/ Asked(t, f) => Asked(s \o t, f)
<1>1. ASSUME NEW i \in 1..Len(s), f \in s[i] PROVE Asked(s \o t, f)
  <2>1. i \in 1..Len(s \o t) /\ (s \o t)[i] = s[i]
    BY Joined
  <2> QED BY <1>1, <2>1 DEF Asked
<1>2. ASSUME NEW i \in 1..Len(t), f \in t[i] PROVE Asked(s \o t, f)
  <2>1. Len(s) + i \in 1..Len(s \o t) /\ (s \o t)[Len(s) + i] = t[i]
    BY Joined
  <2> QED BY <1>2, <2>1 DEF Asked
<1> QED BY <1>1, <1>2 DEF Asked

LEMMA EarlyJoined ==
  ASSUME NEW s, Early(s), NEW t, Early(t)
  PROVE  Early(s \o t) /\ \A f : Asked(s, f) \/ Asked(t, f) => Asked(s \o t, f)
<1>1. s \in Seq(SUBSET Named) /\ t \in Seq(SUBSET Named)
  BY DEF Early
<1>2. \A i \in 1..Len(s \o t) : (s \o t)[i] # {}
  <2> SUFFICES ASSUME NEW i \in 1..Len(s \o t) PROVE (s \o t)[i] # {}
    OBVIOUS
  <2>1. \/ i \in 1..Len(s) /\ (s \o t)[i] = s[i]
        \/ \E k \in 1..Len(t) : i = Len(s) + k /\ (s \o t)[i] = t[k]
    BY <1>1, Joined
  <2>2. (\A k \in 1..Len(s) : s[k] # {}) /\ \A k \in 1..Len(t) : t[k] # {}
    BY DEF Early
  <2> DEFINE u == s \o t
  <2> HIDE DEF u
  <2> QED BY <2>1, <2>2 DEF u
<1>3. s \o t \in Seq(SUBSET Named)
  BY <1>1, Joined
<1> QED BY <1>1, <1>2, <1>3, AskedJoined DEF Early

LEMMA PlanJoined ==
  ASSUME NEW s, Early(s), NEW t, IsPlan(t)
  PROVE  IsPlan(s \o t) /\ \A f : Asked(s, f) \/ Asked(t, f) => Asked(s \o t, f)
<1> DEFINE X == SUBSET (Named \cup {"compare"})
           u == s \o t
<1>1. s \in Seq(X) /\ t \in Seq(X)
  <2>1. s \in Seq(SUBSET Named)
    BY DEF Early
  <2>2. SUBSET Named \subseteq X
    OBVIOUS
  <2> HIDE DEF X
  <2>3. s \in Seq(X)
    BY <2>1, <2>2
  <2> QED BY <2>3 DEF IsPlan, X
<1>2. \A i \in 1..Len(s) : s[i] # {} /\ "compare" \notin s[i]
  <2>1. \A i \in 1..Len(s) : s[i] \in SUBSET Named
    BY DEF Early
  <2>2. "compare" \notin Named
    BY DEF Named
  <2> QED BY <2>1, <2>2 DEF Early
<1>3. \A i \in 1..Len(u) : u[i] # {} /\ ("compare" \in u[i] => u[i] = {"compare"} /\ i = Len(u))
  <2> SUFFICES ASSUME NEW i \in 1..Len(u)
               PROVE  u[i] # {} /\ ("compare" \in u[i] => u[i] = {"compare"} /\ i = Len(u))
    OBVIOUS
  <2> HIDE DEF X
  <2>1. \/ i \in 1..Len(s) /\ u[i] = s[i]
        \/ \E k \in 1..Len(t) : i = Len(s) + k /\ u[i] = t[k]
    BY <1>1, Joined
  <2>2. Len(u) = Len(s) + Len(t)
    BY <1>1, Joined
  <2>3. \A k \in 1..Len(t) : t[k] # {} /\ ("compare" \in t[k] => t[k] = {"compare"} /\ k = Len(t))
    BY DEF IsPlan
  <2> HIDE DEF u
  <2> QED BY <1>2, <2>1, <2>2, <2>3
<1>4. u \in Seq(X)
  <2> HIDE DEF X
  <2> QED BY <1>1, Joined
<1>5. \A f : Asked(s, f) \/ Asked(t, f) => Asked(s \o t, f)
  <2> HIDE DEF X, u
  <2> QED BY <1>1, AskedJoined
<1> QED BY <1>3, <1>4, <1>5 DEF IsPlan

LEMMA EarlyIsPlan ==
  ASSUME NEW s, Early(s)
  PROVE  IsPlan(s) /\ ~Asked(s, "compare")
<1> DEFINE X == SUBSET (Named \cup {"compare"})
<1>1. s \in Seq(SUBSET Named) /\ SUBSET Named \subseteq X
  BY DEF Early
<1>2. "compare" \notin Named
  BY DEF Named
<1>3. \A i \in 1..Len(s) : s[i] \in SUBSET Named /\ s[i] # {}
  BY DEF Early
<1>4. s \in Seq(X)
  <2> HIDE DEF X
  <2> QED BY <1>1
<1> QED BY <1>2, <1>3, <1>4 DEF IsPlan, Asked

LEMMA PlanIs ==
  ASSUME NEW db, NEW q, IsQuery(q)
  PROVE  /\ IsPlan(Plan(db, q)) /\ \A f \in Needed(q.kind) : Asked(Plan(db, q), f)
         /\ Asked(Plan(db, q), "compare") => q.kind = "overall"
<1>1. CASE q.kind = "overall"
  <2> DEFINE a == IF q.on THEN <<{"totals", "uv"}>> ELSE <<{"totals"}, {"uv"}>>
             b == <<{"codes"}, {"prevCodes"}>>
             c == IF FromLogs(db, q) THEN <<{"sessions", "entries"}>>
                ELSE <<{"sessions"}, {"entries"}>>
             d == <<{"active"}, {"visitors"}, {"prevVisitors"}, {"compare"}>>
  <2>1. Plan(db, q) = ((a \o b) \o c) \o d
    BY <1>1 DEF Plan
  <2>2. Early(a) /\ Asked(a, "totals") /\ Asked(a, "uv")
    <3>1. CASE q.on
      <4> DEFINE s == <<{"totals", "uv"}>>
      <4>1. Early(s) /\ Len(s) = 1 /\ "totals" \in s[1] /\ "uv" \in s[1]
        BY DEF Early, Named
      <4>2. a = s
        BY <3>1
      <4> HIDE DEF a, s
      <4> QED BY <4>1, <4>2 DEF Asked
    <3>2. CASE ~q.on
      <4> DEFINE s == <<{"totals"}, {"uv"}>>
      <4>1. Early(s) /\ Len(s) = 2 /\ "totals" \in s[1] /\ "uv" \in s[2]
        BY DEF Early, Named
      <4>2. a = s
        BY <3>2
      <4> HIDE DEF a, s
      <4> QED BY <4>1, <4>2 DEF Asked
    <3> QED BY <3>1, <3>2
  <2>3. Early(b)
    BY DEF Early, Named
  <2>4. Early(c) /\ Asked(c, "sessions") /\ Asked(c, "entries")
    <3>1. CASE FromLogs(db, q)
      <4> DEFINE s == <<{"sessions", "entries"}>>
      <4>1. Early(s) /\ Len(s) = 1 /\ "sessions" \in s[1] /\ "entries" \in s[1]
        BY DEF Early, Named
      <4>2. c = s
        BY <3>1
      <4> HIDE DEF c, s
      <4> QED BY <4>1, <4>2 DEF Asked
    <3>2. CASE ~FromLogs(db, q)
      <4> DEFINE s == <<{"sessions"}, {"entries"}>>
      <4>1. Early(s) /\ Len(s) = 2 /\ "sessions" \in s[1] /\ "entries" \in s[2]
        BY DEF Early, Named
      <4>2. c = s
        BY <3>2
      <4> HIDE DEF c, s
      <4> QED BY <4>1, <4>2 DEF Asked
    <3> QED BY <3>1, <3>2
  <2>5. IsPlan(d) /\ Asked(d, "visitors") /\ Asked(d, "compare")
    <3>1. IsPlan(d) /\ Len(d) = 4 /\ "visitors" \in d[2] /\ "compare" \in d[4]
      BY DEF IsPlan, Named
    <3> HIDE DEF d
    <3> QED BY <3>1 DEF Asked
  <2> HIDE DEF a, b, c, d
  <2>6. Early(a \o b) /\ Asked(a \o b, "totals") /\ Asked(a \o b, "uv")
    BY <2>2, <2>3, EarlyJoined
  <2> DEFINE ab == a \o b
             abc == ab \o c
  <2> HIDE DEF ab
  <2>7. /\ Early(abc) /\ Asked(abc, "totals") /\ Asked(abc, "uv")
        /\ Asked(abc, "sessions") /\ Asked(abc, "entries")
    BY <2>4, <2>6, EarlyJoined DEF ab
  <2> HIDE DEF abc
  <2>8. IsPlan(abc \o d) /\ \A f : Asked(abc, f) \/ Asked(d, f) => Asked(abc \o d, f)
    BY <2>5, <2>7, PlanJoined
  <2>9. Needed(q.kind) = {"totals", "uv", "sessions", "entries", "visitors", "compare"}
    BY <1>1 DEF Needed
  <2>10. Plan(db, q) = abc \o d
    BY <2>1 DEF ab, abc
  <2> QED BY <1>1, <2>5, <2>7, <2>8, <2>9, <2>10
<1>2. CASE q.kind = "referer_ip_batch"
  <2> DEFINE s == <<{"all"}, {"search"}, {"direct"}, {"external"}>>
  <2>1. Plan(db, q) = s
    BY <1>2 DEF Plan
  <2>2. Early(s) /\ Len(s) = 4 /\ "all" \in s[1] /\ "search" \in s[2] /\ "direct" \in s[3]
        /\ "external" \in s[4]
    BY DEF Early, Named
  <2>3. Needed(q.kind) = {"all", "search", "direct", "external"}
    BY <1>2 DEF Needed
  <2> HIDE DEF s
  <2> QED BY <2>1, <2>2, <2>3, EarlyIsPlan DEF Asked
<1>3. CASE q.kind = "developer_daily"
  <2> DEFINE s == <<{"day"}, {"prevDay"}, {"trend"}, {"issues"}>>
  <2>1. Plan(db, q) = s
    BY <1>3 DEF Plan
  <2>2. Early(s) /\ Len(s) = 4 /\ "day" \in s[1] /\ "trend" \in s[3]
    BY DEF Early, Named
  <2>3. Needed(q.kind) = {"day", "trend"}
    BY <1>3 DEF Needed
  <2> HIDE DEF s
  <2> QED BY <2>1, <2>2, <2>3, EarlyIsPlan DEF Asked
<1>4. CASE q.kind = "realtime"
  <2> DEFINE s == <<{"activeNow"}, {"series"}, {"lists"}>>
  <2>1. Plan(db, q) = s
    BY <1>4 DEF Plan
  <2>2. Early(s) /\ Len(s) = 3 /\ "activeNow" \in s[1] /\ "series" \in s[2]
    BY DEF Early, Named
  <2>3. Needed(q.kind) = {"activeNow", "series"}
    BY <1>4 DEF Needed
  <2> HIDE DEF s
  <2> QED BY <2>1, <2>2, <2>3, EarlyIsPlan DEF Asked
<1>5. CASE q.kind \in {"timeseries", "url", "referer", "session_summary", "session"}
  <2>1. Needed(q.kind) = {}
    BY <1>5 DEF Needed
  <2>2. /\ Early(<<{"pvPoints", "uvPoints"}>>) /\ Early(<<{"pvPoints"}, {"uvPoints"}>>)
        /\ Early(<<{"list"}>>) /\ Early(<<{"summary"}>>) /\ Early(<<{"sessionList"}>>)
    BY DEF Early, Named
  <2>3. Plan(db, q) \in {<<{"pvPoints", "uvPoints"}>>, <<{"pvPoints"}, {"uvPoints"}>>,
                         <<{"list"}>>, <<{"summary"}>>, <<{"sessionList"}>>}
    <3>1. q.kind = "timeseries" 
          => Plan(db, q) \in {<<{"pvPoints", "uvPoints"}>>, <<{"pvPoints"}, {"uvPoints"}>>}
      BY DEF Plan
    <3>2. q.kind \in {"url", "referer"} => Plan(db, q) = <<{"list"}>>
      BY DEF Plan
    <3>3. q.kind = "session_summary" => Plan(db, q) = <<{"summary"}>>
      BY DEF Plan
    <3>4. q.kind = "session" => Plan(db, q) = <<{"sessionList"}>>
      BY DEF Plan
    <3> QED BY <1>5, <3>1, <3>2, <3>3, <3>4
  <2>4. Early(Plan(db, q))
    BY <2>2, <2>3
  <2> QED BY <2>1, <2>4, EarlyIsPlan
<1> QED BY <1>1, <1>2, <1>3, <1>4, <1>5 DEF IsQuery, Kinds
LEMMA PlanRest ==
  ASSUME NEW s, IsPlan(s), s # <<>>
  PROVE  /\ IsPlan(Tail(s)) /\ Head(s) # {} /\ Head(s) \subseteq Named \cup {"compare"}
         /\ "compare" \in Head(s) => Head(s) = {"compare"} /\ Tail(s) = <<>>
         /\ \A f : Asked(s, f) => f \in Head(s) \/ Asked(Tail(s), f)
         /\ \A f : f \in Head(s) \/ Asked(Tail(s), f) => Asked(s, f)
<1> DEFINE X == SUBSET (Named \cup {"compare"})
<1>1. s \in Seq(X) /\ s # <<>>
  BY DEF IsPlan
<1>2. \A i \in 1..Len(s) : s[i] # {} /\ ("compare" \in s[i] => s[i] = {"compare"} /\ i = Len(s))
  BY DEF IsPlan
<1>3. /\ Len(s) \in Nat /\ Len(s) >= 1 /\ Head(s) = s[1] /\ Head(s) \in X /\ 1 \in 1..Len(s)
      /\ Tail(s) \in Seq(X) /\ Len(Tail(s)) = Len(s) - 1
      /\ \A i \in 1..Len(Tail(s)) : Tail(s)[i] = s[i + 1] /\ i + 1 \in 1..Len(s)
  <2> HIDE DEF X
  <2> QED BY <1>1
<1>4. \A i \in 1..Len(Tail(s)) :
        Tail(s)[i] # {} /\ ("compare" \in Tail(s)[i] => Tail(s)[i] = {"compare"} /\ i = Len(Tail(s)))
  <2> SUFFICES ASSUME NEW i \in 1..Len(Tail(s))
               PROVE  /\ Tail(s)[i] # {}
                      /\ "compare" \in Tail(s)[i] => Tail(s)[i] = {"compare"} /\ i = Len(Tail(s))
    OBVIOUS
  <2>1. Tail(s)[i] = s[i + 1] /\ i + 1 \in 1..Len(s)
    BY <1>3
  <2>2. s[i + 1] # {} /\ ("compare" \in s[i + 1] => s[i + 1] = {"compare"} /\ i + 1 = Len(s))
    BY <1>2, <2>1
  <2>3. i + 1 = Len(s) => i = Len(Tail(s))
    <3> DEFINE m == Len(Tail(s))
               n == Len(s)
    <3>1. n \in Nat /\ m = n - 1 /\ i \in 1..m
      BY <1>3
    <3> HIDE DEF X, m, n
    <3>2. i + 1 = n => i = m
      BY <3>1
    <3> QED BY <3>2 DEF m, n
  <2> HIDE DEF X
  <2> QED BY <2>1, <2>2, <2>3
<1>5. IsPlan(Tail(s))
  BY <1>3, <1>4 DEF IsPlan
<1>6. "compare" \in Head(s) => Head(s) = {"compare"} /\ Tail(s) = <<>>
  <2> SUFFICES ASSUME "compare" \in Head(s) PROVE Head(s) = {"compare"} /\ Tail(s) = <<>>
    OBVIOUS
  <2>1. Head(s) = {"compare"} /\ Len(s) = 1
    BY <1>2, <1>3
  <2>2. Len(Tail(s)) = 0
    BY <1>3, <2>1
  <2>3. Tail(s) = <<>>
    <3> DEFINE u == Tail(s)
    <3>1. u \in Seq(X) /\ Len(u) = 0
      BY <1>3, <2>2
    <3> HIDE DEF u, X
    <3>2. u = <<>>
      BY <3>1
    <3> QED BY <3>2 DEF u
  <2> QED BY <2>1, <2>3
<1>7. ASSUME NEW f, NEW i \in 1..Len(s), f \in s[i], f \notin Head(s)
      PROVE  Asked(Tail(s), f)
  <2>1. i - 1 \in 1..Len(Tail(s)) /\ Tail(s)[i - 1] = s[i]
    <3>1. i # 1
      BY <1>3, <1>7
    <3>2. i - 1 \in 1..(Len(s) - 1) /\ (i - 1) + 1 = i
      BY <1>3, <3>1
    <3>3. i - 1 \in 1..Len(Tail(s))
      BY <1>3, <3>2
    <3> QED BY <1>3, <3>2, <3>3
  <2> QED BY <1>7, <2>1 DEF Asked
<1>8. \A f : Asked(s, f) => f \in Head(s) \/ Asked(Tail(s), f)
  BY <1>7 DEF Asked
<1>9. \A f : f \in Head(s) \/ Asked(Tail(s), f) => Asked(s, f)
  BY <1>3 DEF Asked
<1> QED BY <1>2, <1>3, <1>5, <1>6, <1>8, <1>9

\* A request is sound when it begins, ...
LEMMA SoundBegun ==
  ASSUME NEW db, NEW r, IsQuery(r.query), r.at = db.now, r.period = TimePeriod(db, r.query.range),
         r.previous = PreviousTimeRange(db, r.query.range),
         r.points = TimePoints(db, r.query.range, r.query.view),
         r.todo = Plan(db, r.query), r.ans = <<>>
  PROVE  Sound(db, r)
<1>1. Begins(db, r)
  BY DEF Begins
<1>2. /\ IsPlan(r.todo) /\ \A f \in Needed(r.query.kind) : Asked(r.todo, f)
      /\ Asked(r.todo, "compare") => r.query.kind = "overall"
  BY PlanIs
<1>3. DOMAIN r.ans = {}
  OBVIOUS
<1> QED BY <1>1, <1>2, <1>3 DEF Sound

\* ... when a statement has answered, ...
LEMMA SoundRead ==
  ASSUME NEW db, NEW r, Sound(db, r), r.todo # <<>>, Head(r.todo) # {"compare"},
         NEW s, s.query = r.query, s.at = r.at, s.period = r.period, s.previous = r.previous,
         s.points = r.points, s.todo = Tail(r.todo),
         s.ans = With(r.ans, Head(r.todo), [f \in Head(r.todo) |-> Figure(db, f, r)])
  PROVE  Sound(db, s)
<1> DEFINE F == Head(r.todo)
<1>1. IsPlan(r.todo) /\ "compare" \notin DOMAIN r.ans
  BY DEF Sound
<1>2. /\ IsPlan(s.todo) /\ F \subseteq Named \cup {"compare"} /\ "compare" \notin F
      /\ \A f : Asked(r.todo, f) => f \in F \/ Asked(s.todo, f)
      /\ \A f : Asked(s.todo, f) => Asked(r.todo, f)
  BY <1>1, PlanRest
<1>3. DOMAIN s.ans = DOMAIN r.ans \cup F
  BY DEF With
<1>4. \A f \in DOMAIN s.ans : s.ans[f] = IF f \in F THEN Figure(db, f, r) ELSE r.ans[f]
  BY DEF With
<1> HIDE DEF F
<1>5. \A f \in DOMAIN r.ans : f \in Named
  BY <1>1 DEF Sound
<1>6. \A f \in DOMAIN s.ans : f \in Named /\ s.ans[f] = Figure(db, f, r)
  BY <1>1, <1>2, <1>3, <1>4, <1>5 DEF Sound
<1>7. \A f \in DOMAIN s.ans : s.ans[f] = Figure(db, f, s)
  BY <1>6, FigureSame
<1>8. Begins(db, s)
  BY DEF Sound, Begins
<1>9. \A f \in Needed(s.query.kind) : f \in DOMAIN s.ans \/ Asked(s.todo, f)
  BY <1>2, <1>3 DEF Sound
<1>10. "compare" \notin DOMAIN s.ans
  BY <1>1, <1>2, <1>3
<1>11. Asked(s.todo, "compare") => s.query.kind = "overall"
  BY <1>2 DEF Sound
<1> QED BY <1>2, <1>6, <1>7, <1>8, <1>9, <1>10, <1>11 DEF Sound

\* ... and when it has been compared.
LEMMA SoundCompared ==
  ASSUME NEW db, NEW r, Sound(db, r), r.todo # <<>>, Head(r.todo) = {"compare"},
         NEW s, s.query = r.query, s.at = r.at, s.period = r.period, s.previous = r.previous,
         s.points = r.points, s.todo = Tail(r.todo),
         s.ans = With(r.ans, {"compare"}, [compare |-> Compared(db, r)])
  PROVE  Sound(db, s)
<1>1. IsPlan(r.todo) /\ "compare" \notin DOMAIN r.ans
  BY DEF Sound
<1>2. /\ IsPlan(s.todo) /\ s.todo = <<>>
      /\ \A f : Asked(r.todo, f) => f = "compare" \/ Asked(s.todo, f)
      /\ Asked(r.todo, "compare")
  BY <1>1, PlanRest
<1>3. DOMAIN s.ans = DOMAIN r.ans \cup {"compare"}
  BY DEF With
<1>4. /\ s.ans["compare"] = Compared(db, r)
      /\ \A f \in DOMAIN r.ans : f # "compare" => s.ans[f] = r.ans[f]
  BY DEF With
<1>5. \A f \in DOMAIN r.ans : f \in Named
  BY <1>1 DEF Sound
<1>6. \A f \in DOMAIN s.ans : f # "compare" => s.ans[f] = Figure(db, f, s)
  BY <1>1, <1>3, <1>4, <1>5, FigureSame DEF Sound
<1>7. Begins(db, s)
  BY DEF Sound, Begins
<1>8. \A f \in Needed(s.query.kind) : f \in DOMAIN s.ans \/ Asked(s.todo, f)
  BY <1>2, <1>3 DEF Sound
<1>9. s.ans.compare = Compared(db, s)
  <2>1. s.query.kind = "overall"
    BY <1>2 DEF Sound
  <2>2. {"totals", "uv", "sessions"} \subseteq Needed(s.query.kind)
    BY <2>1 DEF Needed
  <2>3. \A f : ~Asked(<<>>, f)
    BY DEF Asked
  <2>4. {"totals", "uv", "sessions"} \subseteq DOMAIN r.ans
    BY <1>2, <1>3, <1>8, <2>2, <2>3
  <2>5. Current(s.ans) = Current(r.ans)
    BY <1>4, <2>4 DEF Current
  <2> QED BY <1>4, <2>5 DEF Compared
<1>10. Asked(s.todo, "compare") => s.query.kind = "overall"
  <2>1. ~Asked(<<>>, "compare")
    BY DEF Asked
  <2> QED BY <1>2, <2>1
<1> QED BY <1>2, <1>3, <1>5, <1>6, <1>7, <1>8, <1>9, <1>10 DEF Sound
-----------------------------------------------------------------------------
(* The invariant.                                                          *)

Fields == {"pc", "query", "at", "period", "previous", "points", "todo", "ans", "epoch", "calm",
           "failed", "raced", "behind", "age"}
\* What a request has read, and what it knows of the clears: e is how many there were.
ReqOK(r, db, e) ==
  \/ r = NoRequest
  \/ /\ DOMAIN r = Fields /\ r.pc \in {"query", "done"}
     /\ r.calm \in BOOLEAN /\ r.raced \in BOOLEAN
     /\ r.pc = "query" => /\ r.epoch \in Nat /\ r.epoch <= e /\ (r.epoch < e => r.raced)
                          /\ r.age = 0
     /\ r.pc = "done" => r.todo = <<>> /\ (r.behind > 0 => r.raced /\ r.age <= Expiry)
     /\ r.calm /\ r.failed = {} => Sound(db, r)
CacheOK ==
  \A q \in DOMAIN cache :
    /\ cache[q].at \in Int /\ cache[q].at <= now
    /\ cache[q].epoch \in Nat /\ cache[q].epoch <= epoch
    /\ cache[q].raced \in BOOLEAN /\ (cache[q].epoch < epoch => cache[q].raced)
StatInv ==
  /\ DbOK /\ CacheOK /\ epoch \in Nat /\ DOMAIN req = Requests
  /\ \A g \in Requests : ReqOK(req[g], Db, epoch)

LEMMA StatFirst == StatInit => StatInv
<1> SUFFICES ASSUME StatInit PROVE StatInv
  OBVIOUS
<1>1. PICK c \in Cases : /\ shown \in {TableOf(s) : s \in c.tables} /\ now \in c.nows
                         /\ schema \in c.schemas /\ spare = c.left
  BY DEF StatInit
<1>2. PICK s \in c.tables : shown = TableOf(s)
  BY <1>1
<1>3. IsTable(shown)
  BY <1>2, TableRows, StatAssumption
<1>4. /\ DOMAIN c.left = Spares /\ c.left.ask \in DOMAIN Queries /\ c.schemas \subseteq Schemas
      /\ c.left.asks \in Nat /\ c.left.ticks \in Nat /\ c.left.clears \in Nat
      /\ c.left.faults \in Nat /\ IsLines(c.left.lines)
  BY StatAssumption DEF Spares
<1>5. now \in Nat
  BY <1>1, StatAssumption
<1>6. ClockOK(now, spare)
  BY <1>1, <1>4, <1>5 DEF ClockOK
<1>7. DbOK
  <2>1. sessionTable = Rebuilt(shown) /\ skipped = {}
    BY DEF StatInit
  <2>2. VisitsOK(shown, sessionTable, skipped)
    BY <1>3, <2>1, VisitsRebuilt DEF IsTable
  <2> QED BY <1>1, <1>3, <1>4, <1>6, <2>2 DEF DbOK, SpareOK
<1>8. epoch = 0 /\ DOMAIN req = Requests /\ \A g \in Requests : req[g] = NoRequest
  BY DEF StatInit
<1>9. CacheOK
  BY DEF StatInit, CacheOK
<1> QED BY <1>7, <1>8, <1>9 DEF StatInv, ReqOK
\* The requests that a step leaves as they are.
LEMMA OthersOK ==
  ASSUME StatInv, NEW g \in Requests, NEW x, req' = [req EXCEPT ![g] = x],
         Db' = Db, epoch' = epoch, ReqOK(x, Db, epoch)
  PROVE  DOMAIN req' = Requests /\ \A h \in Requests : ReqOK(req'[h], Db', epoch')
<1>1. DOMAIN req = Requests /\ \A h \in Requests : ReqOK(req[h], Db, epoch)
  BY DEF StatInv
<1>2. DOMAIN req' = Requests
  BY <1>1
<1>3. \A h \in Requests : req'[h] = IF h = g THEN x ELSE req[h]
  BY <1>1
<1> QED BY <1>1, <1>2, <1>3

LEMMA KeptDb ==
  ASSUME Kept, spare'.ticks = spare.ticks, SpareOK(spare'), StatInv
  PROVE  DbOK' /\ Db' = Db /\ epoch' = epoch /\ now' = now
<1>1. /\ shown' = shown /\ now' = now /\ schema' = schema /\ epoch' = epoch
      /\ sessionTable' = sessionTable /\ skipped' = skipped
  BY DEF Kept
<1>2. Db' = Db
  BY <1>1 DEF Db
<1>3. ClockOK(now', spare')
  <2>1. ClockOK(now, spare)
    BY DEF StatInv, DbOK
  <2> QED BY <1>1, <2>1 DEF ClockOK
<1>4. IsTable(shown') /\ schema' \in Schemas /\ VisitsOK(shown', sessionTable', skipped')
  BY <1>1 DEF StatInv, DbOK
<1> QED BY <1>1, <1>2, <1>3, <1>4 DEF DbOK

LEMMA BegunOK ==
  ASSUME NEW q, IsQuery(q), epoch \in Nat
  PROVE  ReqOK(Begun(q), Db, epoch) /\ DOMAIN Begun(q) = Fields
<1> DEFINE r == Begun(q)
<1>1. DOMAIN r = Fields
  BY DEF Begun, Fields
<1>2. /\ r.query = q /\ r.at = now /\ r.period = TimePeriod(Db, q.range)
      /\ r.previous = PreviousTimeRange(Db, q.range)
      /\ r.points = TimePoints(Db, q.range, q.view) /\ r.todo = Plan(Db, q) /\ r.ans = <<>>
  BY DEF Begun
<1>3. /\ r.pc = "query" /\ r.calm = TRUE /\ r.raced = FALSE /\ r.epoch = epoch /\ r.age = 0
  BY DEF Begun
<1>4. now = Db.now
  BY DEF Db
<1> HIDE DEF r
<1>5. Sound(Db, r)
  BY <1>2, <1>4, SoundBegun
<1>6. r.pc = "query" => /\ r.epoch \in Nat /\ r.epoch <= epoch /\ (r.epoch < epoch => r.raced)
                         /\ r.age = 0
  BY <1>3
<1>7. r.calm \in BOOLEAN /\ r.raced \in BOOLEAN
  BY <1>3
<1>8. ReqOK(r, Db, epoch)
  BY <1>1, <1>3, <1>5, <1>6, <1>7 DEF ReqOK
<1> QED BY <1>1, <1>8 DEF r

LEMMA GivenOK ==
  ASSUME NEW q, IsQuery(q), StatInv, Fresh(q)
  PROVE  ReqOK(Given(q), Db, epoch)
<1> DEFINE r == Given(q)
           c == cache[q]
<1>1. DOMAIN Begun(q) = Fields /\ epoch \in Nat
  BY BegunOK DEF StatInv
<1>2. DOMAIN r = Fields
  BY <1>1 DEF Given
<1>3. /\ r.pc = "done" /\ r.todo = <<>> /\ r.calm = FALSE /\ r.raced = c.raced
      /\ r.behind = epoch - c.epoch /\ r.age = now - c.at
  BY <1>1 DEF Given, Fields
<1>4. q \in DOMAIN cache /\ now - c.at <= Expiry
  BY DEF Fresh
<1>5. c.epoch \in Nat /\ c.epoch <= epoch /\ c.raced \in BOOLEAN /\ (c.epoch < epoch => c.raced)
  BY <1>4 DEF StatInv, CacheOK
<1> HIDE DEF r, c
<1>6. r.behind > 0 => r.raced
  BY <1>1, <1>3, <1>5
<1>7. r.behind > 0 => r.age <= Expiry
  BY <1>3, <1>4
<1> QED BY <1>2, <1>3, <1>5, <1>6, <1>7 DEF ReqOK, r

LEMMA StepAsk ==
  ASSUME StatInv, NEW g \in Requests, NEW q \in Queries[spare.ask], Ask(g, q)
  PROVE  StatInv'
<1>1. SpareOK(spare)
  BY DEF StatInv, DbOK
<1>2. IsQuery(q)
  BY <1>1, StatAssumption DEF SpareOK
<1>3. spare' = [spare EXCEPT !.asks = @ - 1] /\ spare.asks > 0 /\ Kept /\ cache' = cache
  BY DEF Ask
<1>4. SpareOK(spare') /\ spare'.ticks = spare.ticks
  BY <1>1, <1>3 DEF SpareOK, Spares
<1>5. DbOK' /\ Db' = Db /\ epoch' = epoch /\ now' = now
  BY <1>3, <1>4, KeptDb
<1> DEFINE x == IF Cached(q.kind) /\ Fresh(q) THEN Given(q) ELSE Begun(q)
<1>6. ReqOK(x, Db, epoch)
  BY <1>2, BegunOK, GivenOK DEF StatInv
<1>7. req' = [req EXCEPT ![g] = x]
  BY DEF Ask
<1> HIDE DEF x
<1>8. DOMAIN req' = Requests /\ \A h \in Requests : ReqOK(req'[h], Db', epoch')
  BY <1>5, <1>6, <1>7, OthersOK
<1>9. CacheOK'
  BY <1>3, <1>5 DEF StatInv, CacheOK
<1> QED BY <1>5, <1>8, <1>9 DEF StatInv
\* A request that is under way.
LEMMA Underway ==
  ASSUME StatInv, NEW g \in Requests, req[g].pc = "query"
  PROVE  /\ DOMAIN req[g] = Fields /\ req[g].calm \in BOOLEAN /\ req[g].raced \in BOOLEAN
         /\ req[g].epoch \in Nat /\ req[g].epoch <= epoch
         /\ req[g].epoch < epoch => req[g].raced
         /\ req[g].age = 0
         /\ req[g].calm /\ req[g].failed = {} => Sound(Db, req[g])
<1>1. ReqOK(req[g], Db, epoch)
  BY DEF StatInv
<1>2. req[g] # NoRequest
  BY DEF NoRequest
<1> QED BY <1>1, <1>2 DEF ReqOK

\* What a request knows of the clears does not change while it reads.
LEMMA StillReading ==
  ASSUME StatInv, NEW g \in Requests, req[g].pc = "query", NEW x, DOMAIN x = Fields,
         x.pc = "query", x.calm = req[g].calm, x.raced = req[g].raced, x.epoch = req[g].epoch,
         x.age = req[g].age, x.calm /\ x.failed = {} => Sound(Db, x)
  PROVE  ReqOK(x, Db, epoch)
BY Underway DEF ReqOK

LEMMA StepRead ==
  ASSUME StatInv, NEW g \in Requests, ReadFigures(g)
  PROVE  StatInv'
<1> DEFINE r == req[g]
           F == Head(r.todo)
           a == With(r.ans, F, [f \in F |-> Figure(Db, f, r)])
           x == [[r EXCEPT !.todo = Tail(r.todo)] EXCEPT !.ans = a]
<1>1. /\ r.pc = "query" /\ r.todo # <<>> /\ F # {"compare"}
      /\ cache' = cache /\ spare' = spare /\ Kept
  BY DEF ReadFigures, Reading
<1>2. DOMAIN req = Requests /\ DOMAIN r = Fields
  BY <1>1, Underway DEF StatInv
<1>3. req' = [req EXCEPT ![g] = x]
  <2> HIDE DEF a
  <2>1. req' = [req EXCEPT ![g].todo = Tail(@), ![g].ans = a]
    BY DEF ReadFigures, a
  <2> QED BY <1>2, <2>1 DEF Fields
<1>4. /\ DOMAIN x = Fields /\ x.pc = "query" /\ x.calm = r.calm /\ x.raced = r.raced
      /\ x.epoch = r.epoch /\ x.age = r.age /\ x.failed = r.failed
      /\ x.query = r.query /\ x.at = r.at /\ x.period = r.period /\ x.previous = r.previous
      /\ x.points = r.points /\ x.todo = Tail(r.todo) /\ x.ans = a
  <2> HIDE DEF a, r
  <2> QED BY <1>1, <1>2 DEF Fields
<1> HIDE DEF x
<1>5. x.calm /\ x.failed = {} => Sound(Db, x)
  <2> SUFFICES ASSUME x.calm, x.failed = {} PROVE Sound(Db, x)
    OBVIOUS
  <2>1. Sound(Db, r)
    BY <1>1, <1>4, Underway
  <2> HIDE DEF r
  <2> QED BY <1>1, <1>4, <2>1, SoundRead
<1>6. ReqOK(x, Db, epoch)
  BY <1>1, <1>4, <1>5, StillReading
<1>7. SpareOK(spare') /\ spare'.ticks = spare.ticks
  BY <1>1 DEF StatInv, DbOK
<1>8. DbOK' /\ Db' = Db /\ epoch' = epoch /\ now' = now
  BY <1>1, <1>7, KeptDb
<1>9. DOMAIN req' = Requests /\ \A h \in Requests : ReqOK(req'[h], Db', epoch')
  BY <1>3, <1>6, <1>8, OthersOK
<1>10. CacheOK'
  BY <1>1, <1>8 DEF StatInv, CacheOK
<1> QED BY <1>8, <1>9, <1>10 DEF StatInv

LEMMA StepCompare ==
  ASSUME StatInv, NEW g \in Requests, NEW failing \in SUBSET {"previous", "sameTime", "forecast"},
         CompareRanges(g, failing)
  PROVE  StatInv'
<1> DEFINE r == req[g]
           v == Compare(Db, r.query.range, r.period, r.query, Current(r.ans), failing)
           a == With(r.ans, {"compare"}, [compare |-> v])
           x == [[[r EXCEPT !.todo = Tail(r.todo)] EXCEPT !.failed = r.failed \cup failing]
                    EXCEPT !.ans = a]
<1>1. /\ r.pc = "query" /\ r.todo # <<>> /\ Head(r.todo) = {"compare"} /\ cache' = cache /\ Kept
      /\ Cardinality(failing) <= spare.faults
      /\ spare' = [spare EXCEPT !.faults = @ - Cardinality(failing)]
  BY DEF CompareRanges, Reading
<1>2. DOMAIN req = Requests /\ DOMAIN r = Fields
  BY <1>1, Underway DEF StatInv
<1>3. req' = [req EXCEPT ![g] = x]
  <2> HIDE DEF a
  <2>1. req' = [req EXCEPT ![g].todo = Tail(@), ![g].failed = @ \cup failing, ![g].ans = a]
    BY DEF CompareRanges, a
  <2> QED BY <1>2, <2>1 DEF Fields
<1>4. /\ DOMAIN x = Fields /\ x.pc = "query" /\ x.calm = r.calm /\ x.raced = r.raced
      /\ x.epoch = r.epoch /\ x.age = r.age /\ x.failed = r.failed \cup failing
      /\ x.query = r.query /\ x.at = r.at /\ x.period = r.period /\ x.previous = r.previous
      /\ x.points = r.points /\ x.todo = Tail(r.todo) /\ x.ans = a
  <2> HIDE DEF a, r
  <2> QED BY <1>1, <1>2 DEF Fields
<1> HIDE DEF x
<1>5. x.calm /\ x.failed = {} => Sound(Db, x)
  <2> SUFFICES ASSUME x.calm, x.failed = {} PROVE Sound(Db, x)
    OBVIOUS
  <2>1. failing = {} /\ r.failed = {}
    BY <1>4
  <2>2. Sound(Db, r)
    BY <1>1, <1>4, <2>1, Underway
  <2>3. x.ans = With(r.ans, {"compare"}, [compare |-> Compared(Db, r)])
    BY <1>4, <2>1 DEF Compared
  <2> HIDE DEF r, a
  <2> QED BY <1>1, <1>4, <2>2, <2>3, SoundCompared
<1>6. ReqOK(x, Db, epoch)
  BY <1>1, <1>4, <1>5, StillReading
<1>7. SpareOK(spare') /\ spare'.ticks = spare.ticks
  <2>1. SpareOK(spare)
    BY DEF StatInv, DbOK
  <2>2. Cardinality(failing) \in Nat
    <3>1. IsFiniteSet({"previous"}) /\ IsFiniteSet({"sameTime"}) /\ IsFiniteSet({"forecast"})
      BY FS_Singleton
    <3>2. IsFiniteSet({"previous"} \cup {"sameTime"})
      BY <3>1, FS_Union
    <3>3. IsFiniteSet(({"previous"} \cup {"sameTime"}) \cup {"forecast"})
      BY <3>1, <3>2, FS_Union
    <3>4. failing \subseteq ({"previous"} \cup {"sameTime"}) \cup {"forecast"}
      OBVIOUS
    <3>5. IsFiniteSet(failing)
      BY ONLY <3>3, <3>4, FS_Subset
    <3> QED BY <3>5, FS_CardinalityType
  <2> QED BY <1>1, <2>1, <2>2 DEF SpareOK, Spares
<1>8. DbOK' /\ Db' = Db /\ epoch' = epoch /\ now' = now
  BY <1>1, <1>7, KeptDb
<1>9. DOMAIN req' = Requests /\ \A h \in Requests : ReqOK(req'[h], Db', epoch')
  BY <1>3, <1>6, <1>8, OthersOK
<1>10. CacheOK'
  BY <1>1, <1>8 DEF StatInv, CacheOK
<1> QED BY <1>8, <1>9, <1>10 DEF StatInv
LEMMA StepFails ==
  ASSUME StatInv, NEW g \in Requests, ReadFails(g)
  PROVE  StatInv'
<1> DEFINE r == req[g]
           F == Head(r.todo)
           D == DroppedWith(F)
           y == Without(r, D)
           x == IF F \subseteq Optional THEN y ELSE NoRequest
<1>1. /\ r.pc = "query" /\ r.todo # <<>> /\ F # {"compare"} /\ cache' = cache /\ Kept
      /\ spare.faults > 0 /\ spare' = [spare EXCEPT !.faults = @ - 1]
  BY DEF ReadFails, Reading
<1>2. DOMAIN req = Requests /\ DOMAIN r = Fields
  BY <1>1, Underway DEF StatInv
<1>3. req' = [req EXCEPT ![g] = x]
  BY DEF ReadFails
<1>4. ReqOK(x, Db, epoch)
  <2>1. /\ DOMAIN y = Fields /\ y.pc = "query" /\ y.calm = r.calm /\ y.raced = r.raced
        /\ y.epoch = r.epoch /\ y.age = r.age /\ y.failed = r.failed \cup D
    <3> HIDE DEF r, D
    <3> QED BY <1>1, <1>2 DEF Fields, Without
  <2> HIDE DEF y
  <2>2. ~(y.calm /\ y.failed = {})
    <3> SUFFICES ASSUME y.calm, y.failed = {} PROVE FALSE
      OBVIOUS
    <3>1. r.calm /\ r.failed = {} /\ D = {}
      <4> HIDE DEF D, r
      <4> QED BY <2>1
    <3>2. Sound(Db, r)
      BY <1>1, <3>1, Underway
    <3>3. F # {}
      <4>1. IsPlan(r.todo)
        BY <3>2 DEF Sound
      <4> HIDE DEF r
      <4> QED BY <1>1, <4>1, PlanRest
    <3> HIDE DEF F
    <3> QED BY <3>1, <3>3 DEF DroppedWith
  <2>3. ReqOK(y, Db, epoch)
    BY <1>1, <2>1, <2>2, StillReading
  <2>4. ReqOK(NoRequest, Db, epoch)
    BY DEF ReqOK
  <2> QED BY <2>3, <2>4
<1> HIDE DEF x
<1>5. SpareOK(spare') /\ spare'.ticks = spare.ticks
  BY <1>1 DEF StatInv, DbOK, SpareOK, Spares
<1>6. DbOK' /\ Db' = Db /\ epoch' = epoch /\ now' = now
  BY <1>1, <1>5, KeptDb
<1>7. DOMAIN req' = Requests /\ \A h \in Requests : ReqOK(req'[h], Db', epoch')
  BY <1>3, <1>4, <1>6, OthersOK
<1>8. CacheOK'
  BY <1>1, <1>6 DEF StatInv, CacheOK
<1> QED BY <1>6, <1>7, <1>8 DEF StatInv

\* Being sound is about what a request asked, when, and what it has read.
LEMMA SoundSame ==
  ASSUME NEW db, NEW r, Sound(db, r), NEW x, x.query = r.query, x.at = r.at,
         x.period = r.period, x.previous = r.previous, x.points = r.points,
         x.todo = r.todo, x.ans = r.ans
  PROVE  Sound(db, x)
<1>1. \A f \in Named : Figure(db, f, x) = Figure(db, f, r)
  BY FigureSame
<1>2. \A f \in DOMAIN r.ans : f # "compare" => f \in Named
  BY DEF Sound
<1>3. Begins(db, x) /\ Compared(db, x) = Compared(db, r)
  BY DEF Sound, Begins, Compared
<1> QED BY <1>1, <1>2, <1>3 DEF Sound

LEMMA StepAnswer ==
  ASSUME StatInv, NEW g \in Requests, Answer(g)
  PROVE  StatInv'
<1> DEFINE r == req[g]
           x == [[r EXCEPT !.pc = "done"] EXCEPT !.behind = epoch - r.epoch]
<1>1. r.pc = "query" /\ r.todo = <<>> /\ spare' = spare /\ Kept
  BY DEF Answer
<1>2. DOMAIN req = Requests /\ DOMAIN r = Fields
  BY <1>1, Underway DEF StatInv
<1>3. req' = [req EXCEPT ![g] = x]
  BY <1>2 DEF Answer, Fields
<1>4. /\ DOMAIN x = Fields /\ x.pc = "done" /\ x.calm = r.calm /\ x.raced = r.raced
      /\ x.age = r.age /\ x.failed = r.failed /\ x.behind = epoch - r.epoch
      /\ x.query = r.query /\ x.at = r.at /\ x.period = r.period /\ x.previous = r.previous
      /\ x.points = r.points /\ x.todo = r.todo /\ x.ans = r.ans
  <2> HIDE DEF r
  <2> QED BY <1>1, <1>2 DEF Fields
<1> HIDE DEF x
<1>5. /\ r.calm \in BOOLEAN /\ r.raced \in BOOLEAN /\ r.epoch \in Nat /\ r.epoch <= epoch
      /\ (r.epoch < epoch => r.raced) /\ r.age = 0 /\ epoch \in Nat
      /\ (r.calm /\ r.failed = {} => Sound(Db, r))
  BY <1>1, Underway DEF StatInv
<1>6. ReqOK(x, Db, epoch)
  <2>1. x.calm /\ x.failed = {} => Sound(Db, x)
    <3> SUFFICES ASSUME x.calm, x.failed = {} PROVE Sound(Db, x)
      OBVIOUS
    <3>1. Sound(Db, r)
      BY <1>4, <1>5
    <3> HIDE DEF r
    <3> QED BY <1>4, <3>1, SoundSame
  <2>2. x.behind > 0 => x.raced /\ x.age <= Expiry
    <3>1. Expiry \in Nat
      BY StatAssumption
    <3> HIDE DEF r
    <3> QED BY <1>4, <1>5, <3>1
  <2> QED BY <1>1, <1>4, <1>5, <2>1, <2>2 DEF ReqOK
<1>7. SpareOK(spare') /\ spare'.ticks = spare.ticks
  BY <1>1 DEF StatInv, DbOK
<1>8. DbOK' /\ Db' = Db /\ epoch' = epoch /\ now' = now
  BY <1>1, <1>7, KeptDb
<1>9. DOMAIN req' = Requests /\ \A h \in Requests : ReqOK(req'[h], Db', epoch')
  BY <1>3, <1>6, <1>8, OthersOK
<1>10. CacheOK'
  <2> DEFINE e == [ans |-> r.ans, at |-> now, epoch |-> r.epoch, raced |-> r.raced]
             c == [q \in DOMAIN cache \cup {r.query} |-> IF q = r.query THEN e ELSE cache[q]]
  <2>1. cache' = c \/ cache' = cache
    BY DEF Answer
  <2>2. now \in Int
    BY ClockIs DEF StatInv, DbOK, InCalendar
  <2>3. /\ e.at = now /\ e.epoch = r.epoch /\ e.raced = r.raced
    OBVIOUS
  <2>4. \A q \in DOMAIN c : c[q] = e \/ (q \in DOMAIN cache /\ c[q] = cache[q])
    <3> HIDE DEF e, r
    <3> QED OBVIOUS
  <2>5. \A q \in DOMAIN cache' : cache'[q] = e \/ (q \in DOMAIN cache /\ cache'[q] = cache[q])
    <3> HIDE DEF c, e
    <3> QED BY <2>1, <2>4
  <2> HIDE DEF e, r, c
  <2> QED BY <1>5, <1>8, <2>2, <2>3, <2>5 DEF StatInv, CacheOK
<1> QED BY <1>8, <1>9, <1>10 DEF StatInv
\* A request that something disturbs has nothing left to be sound about.
LEMMA DisturbedOK ==
  ASSUME StatInv, req' = Disturbed, epoch' = epoch
  PROVE  DOMAIN req' = Requests /\ \A h \in Requests : ReqOK(req'[h], Db', epoch')
<1>1. DOMAIN req' = Requests
  BY DEF Disturbed
<1>2. ASSUME NEW h \in Requests PROVE ReqOK(req'[h], Db', epoch')
  <2> DEFINE r == req[h]
             x == [r EXCEPT !.calm = FALSE]
  <2>1. req'[h] = IF r.pc = "idle" THEN r ELSE x
    BY DEF Disturbed
  <2>2. ReqOK(r, Db, epoch)
    BY DEF StatInv
  <2> HIDE DEF r
  <2>3. CASE r = NoRequest
    <3>1. req'[h] = NoRequest
      BY <2>1, <2>3 DEF NoRequest
    <3> QED BY <3>1 DEF ReqOK
  <2>4. CASE r # NoRequest
    <3>1. DOMAIN r = Fields /\ r.pc \in {"query", "done"}
      BY <2>2, <2>4 DEF ReqOK
    <3>2. /\ DOMAIN x = Fields /\ x.pc = r.pc /\ x.calm = FALSE /\ x.raced = r.raced
          /\ x.epoch = r.epoch /\ x.age = r.age /\ x.behind = r.behind /\ x.todo = r.todo
      BY <3>1 DEF Fields
    <3>3. req'[h] = x
      BY <2>1, <3>1
    <3> HIDE DEF x
    <3> QED BY <2>2, <2>4, <3>2, <3>3 DEF ReqOK
  <2> QED BY <2>3, <2>4
<1> QED BY <1>1, <1>2

LEMMA StepInsert ==
  ASSUME StatInv, Insert
  PROVE  StatInv'
<1> DEFINE l == Head(spare.lines)
           x == RowOf(l, Cardinality(shown) + 1)
<1>1. /\ spare.lines # <<>> /\ spare' = [spare EXCEPT !.lines = Tail(@)]
      /\ shown' = shown \cup {x}
      /\ req' = Disturbed /\ now' = now /\ schema' = schema /\ cache' = cache /\ epoch' = epoch
      /\ sessionTable' = IF OpensVisit(x) THEN sessionTable \cup {Visit(x)} ELSE sessionTable
      /\ skipped' = IF ComesLate(x) THEN skipped \cup {x.ip} ELSE skipped
  BY DEF Insert
<1>2. /\ SpareOK(spare) /\ IsTable(shown) /\ ClockOK(now, spare) /\ schema \in Schemas
      /\ VisitsOK(shown, sessionTable, skipped)
  BY DEF StatInv, DbOK
<1>3. IsLines(Tail(spare.lines)) /\ l.ts \in Nat /\ l.pv \in BOOLEAN /\ l.bytes \in Nat
  BY <1>1, <1>2, LinesRest DEF SpareOK
<1>4. IsTable(shown')
  BY <1>1, <1>2, <1>3, RowAdded
<1>5. SpareOK(spare') /\ spare'.ticks = spare.ticks
  BY <1>1, <1>2, <1>3 DEF SpareOK, Spares
<1>6. ClockOK(now', spare')
  BY <1>1, <1>2, <1>5 DEF ClockOK
<1>7. VisitsOK(shown', sessionTable', skipped')
  <2>1. \A r \in shown : r.n < x.n
    <3>1. x.n = Cardinality(shown) + 1
      BY DEF RowOf
    <3>2. Cardinality(shown) \in Nat /\ \A r \in shown : r.n \in 1..Cardinality(shown)
      BY <1>2, FS_CardinalityType DEF IsTable, Rows
    <3> HIDE DEF x
    <3> QED BY <3>1, <3>2
  <2>2. Rows(shown) /\ Rows(shown \cup {x})
    BY <1>1, <1>2, <1>4 DEF IsTable
  <2>3. ComesLate(x) <=> x.line.pv /\ \E r \in Views(shown) : r.ip = x.ip /\ x.line.ts < r.line.ts
    BY DEF ComesLate, ViewsBefore
  <2>4. OpensVisit(x)
          <=> x.line.pv /\ \A r \in Views(shown) : r.ip = x.ip => x.line.ts - r.line.ts > Gap
    BY DEF OpensVisit, ViewsBefore
  <2> HIDE DEF x
  <2> QED BY <1>1, <1>2, <2>1, <2>2, <2>3, <2>4, VisitAdded
<1>8. DbOK'
  BY <1>1, <1>2, <1>4, <1>5, <1>6, <1>7 DEF DbOK
<1>9. DOMAIN req' = Requests /\ \A h \in Requests : ReqOK(req'[h], Db', epoch')
  BY <1>1, DisturbedOK
<1>10. CacheOK' /\ epoch' \in Nat
  BY <1>1 DEF StatInv, CacheOK
<1> QED BY <1>8, <1>9, <1>10 DEF StatInv

LEMMA StepTick ==
  ASSUME StatInv, Tick
  PROVE  StatInv'
<1>1. /\ spare.ticks > 0 /\ spare' = [spare EXCEPT !.ticks = @ - 1] /\ now' = now + 1
      /\ req' = Disturbed /\ shown' = shown /\ schema' = schema /\ cache' = cache /\ epoch' = epoch
      /\ sessionTable' = sessionTable /\ skipped' = skipped
  BY DEF Tick
<1>2. SpareOK(spare) /\ IsTable(shown) /\ ClockOK(now, spare) /\ schema \in Schemas
      /\ VisitsOK(shown, sessionTable, skipped)
  BY DEF StatInv, DbOK
<1>3. SpareOK(spare') /\ spare'.ticks = spare.ticks - 1
  BY <1>1, <1>2 DEF SpareOK, Spares
<1>4. ClockOK(now', spare') /\ now \in Int
  <2>1. PICK c \in Cases : \E n \in c.nows :
          /\ now = n + (c.left.ticks - spare.ticks)
          /\ spare.ticks \in Nat /\ spare.ticks <= c.left.ticks
    BY <1>2 DEF ClockOK
  <2>2. PICK n \in c.nows :
          /\ now = n + (c.left.ticks - spare.ticks)
          /\ spare.ticks \in Nat /\ spare.ticks <= c.left.ticks
    BY <2>1
  <2>3. n \in Nat /\ c.left.ticks \in Nat
    BY StatAssumption
  <2>4. /\ now' = n + (c.left.ticks - spare'.ticks)
        /\ spare'.ticks \in Nat /\ spare'.ticks <= c.left.ticks
    BY <1>1, <1>3, <2>2, <2>3
  <2> QED BY <2>2, <2>3, <2>4 DEF ClockOK
<1>5. DbOK'
  BY <1>1, <1>2, <1>3, <1>4 DEF DbOK
<1>6. DOMAIN req' = Requests /\ \A h \in Requests : ReqOK(req'[h], Db', epoch')
  BY <1>1, DisturbedOK
<1>7. CacheOK' /\ epoch' \in Nat
  BY <1>1, <1>4 DEF StatInv, CacheOK
<1> QED BY <1>5, <1>6, <1>7 DEF StatInv

LEMMA StepClear ==
  ASSUME StatInv, ClearCache
  PROVE  StatInv'
<1>1. /\ spare.clears > 0 /\ spare' = [spare EXCEPT !.clears = @ - 1] /\ cache' = <<>>
      /\ epoch' = epoch + 1 /\ now' = now /\ shown' = shown /\ schema' = schema
      /\ req' = [g \in Requests |-> IF req[g].pc = "query" THEN [req[g] EXCEPT !.raced = TRUE]
                                    ELSE req[g]]
      /\ sessionTable' = sessionTable /\ skipped' = skipped
  BY DEF ClearCache, Emptied
<1>2. SpareOK(spare) /\ IsTable(shown) /\ ClockOK(now, spare) /\ schema \in Schemas
      /\ epoch \in Nat /\ VisitsOK(shown, sessionTable, skipped)
  BY DEF StatInv, DbOK
<1>3. SpareOK(spare') /\ spare'.ticks = spare.ticks
  BY <1>1, <1>2 DEF SpareOK, Spares
<1>4. ClockOK(now', spare')
  BY <1>1, <1>2, <1>3 DEF ClockOK
<1>5. DbOK'
  BY <1>1, <1>2, <1>3, <1>4 DEF DbOK
<1>6. Db' = Db
  BY <1>1 DEF Db
<1>7. ASSUME NEW h \in Requests PROVE ReqOK(req'[h], Db', epoch')
  <2> DEFINE r == req[h]
             x == [r EXCEPT !.raced = TRUE]
  <2>1. ReqOK(r, Db, epoch)
    BY DEF StatInv
  <2>2. req'[h] = IF r.pc = "query" THEN x ELSE r
    BY <1>1
  <2> HIDE DEF r
  <2>3. CASE r.pc # "query"
    <3>1. req'[h] = r
      BY <2>2, <2>3
    <3>2. ReqOK(r, Db, epoch + 1)
      BY <2>1, <2>3 DEF ReqOK
    <3> QED BY <1>1, <1>6, <3>1, <3>2
  <2>4. CASE r.pc = "query"
    <3>1. /\ DOMAIN r = Fields /\ r.calm \in BOOLEAN /\ r.epoch \in Nat /\ r.epoch <= epoch
          /\ r.age = 0 /\ (r.calm /\ r.failed = {} => Sound(Db, r))
      BY <2>1, <2>4 DEF ReqOK, NoRequest
    <3>2. /\ DOMAIN x = Fields /\ x.pc = r.pc /\ x.calm = r.calm /\ x.raced = TRUE
          /\ x.epoch = r.epoch /\ x.age = r.age /\ x.failed = r.failed
          /\ x.query = r.query /\ x.at = r.at /\ x.period = r.period /\ x.previous = r.previous
          /\ x.points = r.points /\ x.todo = r.todo /\ x.ans = r.ans
      BY <3>1 DEF Fields
    <3>3. req'[h] = x
      BY <2>2, <2>4
    <3> HIDE DEF x
    <3>4. x.calm /\ x.failed = {} => Sound(Db, x)
      BY <3>1, <3>2, SoundSame
    <3>5. x.epoch \in Nat /\ x.epoch <= epoch + 1
      BY <1>2, <3>1, <3>2
    <3>6. ReqOK(x, Db, epoch + 1)
      BY <2>4, <3>1, <3>2, <3>4, <3>5 DEF ReqOK
    <3> QED BY <1>1, <1>6, <3>3, <3>6
  <2> QED BY <2>3, <2>4
<1>8. DOMAIN req' = Requests
  BY <1>1
<1>9. CacheOK' /\ epoch' \in Nat
  <2>1. DOMAIN cache' = {}
    BY <1>1
  <2> QED BY <1>1, <1>2, <2>1 DEF CacheOK
<1> QED BY <1>5, <1>7, <1>8, <1>9 DEF StatInv

LEMMA StatStep == StatInv /\ [StatNext]_statVars => StatInv'
<1> SUFFICES ASSUME StatInv, [StatNext]_statVars PROVE StatInv'
  OBVIOUS
<1>1. CASE \E g \in Requests :
             \/ \E q \in Queries[spare.ask] : Ask(g, q)
             \/ ReadFigures(g) \/ ReadFails(g) \/ Answer(g)
             \/ \E F \in SUBSET {"previous", "sameTime", "forecast"} : CompareRanges(g, F)
  BY <1>1, StepAsk, StepRead, StepFails, StepAnswer, StepCompare
<1>2. CASE Insert
  BY <1>2, StepInsert
<1>3. CASE Tick
  BY <1>3, StepTick
<1>4. CASE ClearCache
  BY <1>4, StepClear
<1>5. CASE UNCHANGED statVars
  <2>1. /\ shown' = shown /\ now' = now /\ schema' = schema /\ cache' = cache /\ req' = req
        /\ epoch' = epoch /\ spare' = spare /\ sessionTable' = sessionTable /\ skipped' = skipped
    BY <1>5 DEF statVars
  <2>2. Db' = Db
    BY <2>1 DEF Db
  <2> QED BY <2>1, <2>2 DEF StatInv, DbOK, CacheOK
<1> QED BY <1>1, <1>2, <1>3, <1>4, <1>5 DEF StatNext

\* The rows and the time are in order, every request under way has begun with its range
\* and has, unless something disturbed it, the figures of now; a cached answer missed no
\* clear unless it raced with it (QueryStats, stats_cache.go).
THEOREM StatInvHolds == StatSpec => []StatInv
BY StatFirst, StatStep, PTL DEF StatSpec
-----------------------------------------------------------------------------
(* The properties.                                                         *)

\* What a settled answer shows is computed from the rows and the time there are.
LEMMA AnswerIs ==
  ASSUME StatInv, NEW g \in Requests, NEW kind, Settled(g, kind)
  PROVE  LET r == req[g] IN
         /\ IsDb(Db) /\ Begins(Db, r) /\ r.query.kind = kind
         /\ \A f \in Needed(kind) : f # "compare" => r.ans[f] = Figure(Db, f, r)
         /\ "compare" \in Needed(kind) => r.ans.compare = Compared(Db, r)
<1> DEFINE r == req[g]
<1>1. ReqOK(r, Db, epoch) /\ r.pc = "done" /\ r.calm /\ r.failed = {} /\ r.query.kind = kind
  BY DEF StatInv, Settled
<1>2. r # NoRequest
  BY <1>1 DEF NoRequest
<1> HIDE DEF r
<1>3. Sound(Db, r) /\ r.todo = <<>>
  BY <1>1, <1>2 DEF ReqOK
<1>4. \A f \in Needed(kind) : f \in DOMAIN r.ans
  <2>1. \A f : ~Asked(<<>>, f)
    BY DEF Asked
  <2> QED BY <1>1, <1>3, <2>1 DEF Sound
<1>5. IsDb(Db)
  BY DbIsDb DEF StatInv
<1> QED BY <1>1, <1>3, <1>4, <1>5 DEF Sound, r

\* What a request's figures are computed from.
LEMMA BeginsIs ==
  ASSUME NEW db, IsDb(db), NEW r, Begins(db, r)
  PROVE  /\ IsQuery(r.query) /\ r.query.range \in TimeRanges /\ r.query.on \in BOOLEAN
         /\ IsRange(r.period) /\ IsRange(r.previous) /\ r.at \in Int
         /\ r.period.from \in Int /\ r.period.to \in Int
         /\ r.period = TimePeriod(db, r.query.range)
         /\ r.previous = PreviousTimeRange(db, r.query.range)
<1>1. /\ IsQuery(r.query) /\ r.query.range \in TimeRanges /\ r.query.on \in BOOLEAN
      /\ r.period = TimePeriod(db, r.query.range)
      /\ r.previous = PreviousTimeRange(db, r.query.range) /\ r.at = db.now
  BY DEF Begins, IsQuery
<1>2. IsRange(r.period) /\ IsRange(r.previous)
  BY <1>1, PeriodIsRange, PreviousIsRange DEF IsDb
<1>3. r.at \in Int
  BY <1>1 DEF IsDb, InCalendar
<1>4. r.period.from \in Int /\ r.period.to \in Int
  BY <1>2, RangeBounds
<1> QED BY <1>1, <1>2, <1>3, <1>4

\* An answer from before the cache was cleared comes from a request that was under
\* way then, and is forgotten once it expires (QueryStats, ClearCache).
THEOREM AnswersAreCurrent == StatSpec => []ClearedOrRaced
<1>1. StatInv => ClearedOrRaced
  <2> SUFFICES ASSUME StatInv, NEW g \in Requests, req[g].pc = "done", req[g].behind > 0
               PROVE  req[g].raced /\ req[g].age <= Expiry
    BY DEF ClearedOrRaced
  <2>1. ReqOK(req[g], Db, epoch)
    BY DEF StatInv
  <2>2. req[g] # NoRequest
    BY DEF NoRequest
  <2> QED BY <2>1, <2>2 DEF ReqOK
<1> QED BY <1>1, StatInvHolds, PTL

\* The sources of the page views of a range leave none out, and count none twice
\* (GetRefererIPBatch).
LEMMA SourcesAgree == StatInv => SourcesAddUp
<1> SUFFICES ASSUME StatInv, NEW g \in Requests, Settled(g, "referer_ip_batch")
             PROVE  LET ans == req[g].ans IN
                    ans.all.total = ans.search.total + ans.direct.total + ans.external.total
  BY DEF SourcesAddUp
<1> DEFINE r == req[g]
           R(k) == RefererIPs(Db, r.period, r.query, k)
<1>1. \A f \in {"all", "search", "direct", "external"} : r.ans[f] = Figure(Db, f, r)
  <2>1. Needed("referer_ip_batch") = {"all", "search", "direct", "external"}
    BY DEF Needed
  <2>2. \A f \in Needed("referer_ip_batch") : f # "compare" => r.ans[f] = Figure(Db, f, r)
    BY AnswerIs
  <2> HIDE DEF r
  <2> QED BY <2>1, <2>2
<1>2. IsDb(Db)
  BY AnswerIs
<1> HIDE DEF r
<1>3. /\ Figure(Db, "all", r) = R("all") /\ Figure(Db, "search", r) = R("search")
      /\ Figure(Db, "direct", r) = R("direct") /\ Figure(Db, "external", r) = R("external")
  BY DEF Figure
<1>4. R("all").total = R("search").total + R("direct").total + R("external").total
  BY <1>2, SourcesPart
<1> HIDE DEF R
<1>5. r.ans.all.total = r.ans.search.total + r.ans.direct.total + r.ans.external.total
  BY <1>1, <1>3, <1>4
<1> QED BY <1>5 DEF r

LEMMA DeveloperPart == StatInv => DeveloperAgrees
<1> SUFFICES ASSUME StatInv, NEW g \in Requests, Settled(g, "developer_daily")
             PROVE  LET r == req[g] IN
                    /\ ~r.query.on => \A c \in {"s4xx", "s5xx"} :
                          r.ans.day[c] = Daily(Db, WholeDay(TheDay(r.period)), c)
                    /\ r.ans.trend[TrendDays] = r.ans.day
  BY DEF DeveloperAgrees
<1> DEFINE r == req[g]
           p == r.period
           q == r.query
           d == TheDay(p)
<1>1. IsDb(Db) /\ Begins(Db, r)
  BY AnswerIs
<1>2. r.ans.day = Figure(Db, "day", r) /\ r.ans.trend = Figure(Db, "trend", r)
  <2>1. Needed("developer_daily") = {"day", "trend"}
    BY DEF Needed
  <2>2. \A f \in Needed("developer_daily") : f # "compare" => r.ans[f] = Figure(Db, f, r)
    BY AnswerIs
  <2> HIDE DEF r
  <2> QED BY <2>1, <2>2
<1> HIDE DEF r
<1>3. p.from \in Int
  BY <1>1, BeginsIs
<1>4. OnGrid(d, Day) /\ d \in Int
  BY <1>3, DayIs DEF TheDay
<1>5. r.ans.day = DaySnapshot(DayRows(Db, d, q)) /\ r.ans.trend = Trend(Db, p, q)
  BY <1>2 DEF Figure
<1>6. r.ans.trend[TrendDays] = r.ans.day
  <2>1. TrendDays \in Nat \ {0}
    BY StatAssumption
  <2>2. TrendDays - TrendDays = 0 /\ TrendDays \in 1..TrendDays
    BY <2>1
  <2>3. DaysBack(d, 0) = d
    BY <1>4, Lengths DEF DaysBack
  <2>4. Trend(Db, p, q)[TrendDays] = DaySnapshot(DayRows(Db, DaysBack(d, 0), q))
    BY <2>2 DEF Trend
  <2> QED BY <1>5, <2>3, <2>4
<1>7. ASSUME ~q.on, NEW c \in {"s4xx", "s5xx"} PROVE r.ans.day[c] = Daily(Db, WholeDay(d), c)
  <2>1. Daily(Db, WholeDay(d), c) = Tally(DayRows(Db, d, q))[c]
    <3>1. c \in Counters
      BY DEF Counters
    <3> HIDE DEF d, q
    <3> QED BY <1>1, <1>4, <1>7, <3>1, OneDay
  <2>2. DaySnapshot(DayRows(Db, d, q))[c] = Tally(DayRows(Db, d, q))[c]
    BY DEF DaySnapshot, Errors
  <2> QED BY <1>5, <2>1, <2>2
<1> QED BY <1>6, <1>7 DEF r

LEMMA RealtimeAgrees == StatInv => RealtimeCovers
<1> SUFFICES ASSUME StatInv, NEW g \in Requests, Settled(g, "realtime")
             PROVE  LET r == req[g]
                        R == RealtimeRows(Db, r.at)
                        running == Addresses({x \in R : x.line.ts \div Minute = r.at \div Minute})
                                   \ Addresses({x \in R : x.line.ts \div Minute # r.at \div Minute})
                    IN r.ans.activeNow <= SumOf([i \in 1..RealtimeWindow |-> r.ans.series[i]])
                                          + Cardinality(running)
  BY DEF RealtimeCovers
<1> DEFINE r == req[g]
<1>1. IsDb(Db) /\ Begins(Db, r)
  BY AnswerIs
<1>2. r.ans.activeNow = Figure(Db, "activeNow", r) /\ r.ans.series = Figure(Db, "series", r)
  <2>1. Needed("realtime") = {"activeNow", "series"}
    BY DEF Needed
  <2>2. \A f \in Needed("realtime") : f # "compare" => r.ans[f] = Figure(Db, f, r)
    BY AnswerIs
  <2> HIDE DEF r
  <2> QED BY <2>1, <2>2
<1> HIDE DEF r
<1>3. r.at \in Int
  BY <1>1, BeginsIs
<1>4. r.ans.activeNow = Cardinality(Addresses(RealtimeRows(Db, r.at)))
      /\ r.ans.series = ActiveSeries(Db, r.at)
  BY <1>2 DEF Figure
<1>5. LET R == RealtimeRows(Db, r.at)
          running == Addresses({x \in R : x.line.ts \div Minute = r.at \div Minute})
                     \ Addresses({x \in R : x.line.ts \div Minute # r.at \div Minute})
      IN Cardinality(Addresses(R))
           <= SumOf([i \in 1..RealtimeWindow |-> ActiveSeries(Db, r.at)[i]]) + Cardinality(running)
  BY <1>1, <1>3, RealtimePart
<1> QED BY <1>4, <1>5 DEF r

\* The pages of the sources, of the developer and of this moment leave nobody out
\* (client_stats.go, developer_daily_stats.go, realtime_stats.go).
THEOREM PagesAreWhole == StatSpec => []PagesAgree
<1>1. StatInv => PagesAgree
  BY SourcesAgree, DeveloperPart, RealtimeAgrees DEF PagesAgree
<1> QED BY <1>1, StatInvHolds, PTL
\* The figures that the overview settles with.
LEMMA OverviewIs ==
  ASSUME StatInv, NEW g \in Requests, Settled(g, "overall")
  PROVE  LET r == req[g]  p == r.period  q == r.query IN
         /\ IsDb(Db) /\ Begins(Db, r)
         /\ r.ans.totals.pv = Column(Db, p, q, "pv")
         /\ r.ans.uv = Cardinality(Visitors(Db, p, q))
         /\ r.ans.sessions = SessionCount(Db, p, q)
         /\ r.ans.entries = TopEntries(EntryCounts(Db, p, q))
         /\ r.ans.visitors = NewReturning(Db, p, q)
         /\ r.ans.compare = Compared(Db, r)
<1> DEFINE r == req[g]
           O == {"totals", "uv", "sessions", "entries", "visitors", "compare"}
<1>1. IsDb(Db) /\ Begins(Db, r)
  BY AnswerIs
<1>2. Needed("overall") = O
  BY DEF Needed
<1>3. /\ \A f \in Needed("overall") : f # "compare" => r.ans[f] = Figure(Db, f, r)
      /\ "compare" \in Needed("overall") => r.ans.compare = Compared(Db, r)
  BY AnswerIs
<1> HIDE DEF r
<1>4. r.ans.compare = Compared(Db, r)
  BY <1>2, <1>3
<1>5. /\ r.ans.totals = Figure(Db, "totals", r) /\ r.ans.uv = Figure(Db, "uv", r)
      /\ r.ans.sessions = Figure(Db, "sessions", r) /\ r.ans.entries = Figure(Db, "entries", r)
      /\ r.ans.visitors = Figure(Db, "visitors", r)
  BY <1>2, <1>3
<1>6. r.ans.totals.pv = Column(Db, r.period, r.query, "pv")
  BY <1>5 DEF Figure
<1>7. r.ans.uv = Cardinality(Visitors(Db, r.period, r.query))
  BY <1>5 DEF Figure
<1>8. r.ans.sessions = SessionCount(Db, r.period, r.query)
  BY <1>5 DEF Figure
<1>9. r.ans.entries = TopEntries(EntryCounts(Db, r.period, r.query))
  BY <1>5 DEF Figure
<1>10. r.ans.visitors = NewReturning(Db, r.period, r.query)
  BY <1>5 DEF Figure
<1> QED BY <1>1, <1>4, <1>6, <1>7, <1>8, <1>9, <1>10 DEF r

\* The range before has, up to the same time, no more than it has in all, and no
\* less is forecast than there is already (compareSnapshots, forecastSnapshot).
THEOREM ComparisonsAreOrdered == StatSpec => []CompareOrdered
<1>1. StatInv => CompareOrdered
  <2> SUFFICES ASSUME StatInv, NEW g \in Requests, Settled(g, "overall"),
                      NEW f \in DOMAIN Current(req[g].ans)
               PROVE  /\ req[g].ans.compare.sameTime[f] <= req[g].ans.compare.previous[f]
                      /\ req[g].ans.compare.forecast[f] >= Current(req[g].ans)[f]
    BY DEF CompareOrdered
  <2> DEFINE r == req[g]
             cur == Current(r.ans)
  <2>1. /\ IsDb(Db) /\ Begins(Db, r)
        /\ r.ans.totals.pv = Column(Db, r.period, r.query, "pv")
        /\ r.ans.uv = Cardinality(Visitors(Db, r.period, r.query))
        /\ r.ans.sessions = SessionCount(Db, r.period, r.query)
        /\ r.ans.compare = Compared(Db, r)
    BY OverviewIs
  <2>2. f \in DOMAIN cur
    OBVIOUS
  <2> HIDE DEF r
  <2>3. r.query.range \in TimeRanges /\ r.period = TimePeriod(Db, r.query.range)
    BY <2>1, BeginsIs
  <2>4. cur = Snapshot(Db, r.period, r.query)
    BY <2>1 DEF Current, Snapshot
  <2>5. f \in Figures
    BY <2>2 DEF Current, Figures
  <2> HIDE DEF cur
  <2>6. r.ans.compare
          = Compare(Db, r.query.range, TimePeriod(Db, r.query.range), r.query, cur, {})
    BY <2>1, <2>3 DEF Compared, cur
  <2>7. LET c == Compare(Db, r.query.range, TimePeriod(Db, r.query.range), r.query, cur, {}) IN
        \A x \in Figures : c.sameTime[x] <= c.previous[x] /\ c.forecast[x] >= cur[x]
    BY <2>1, <2>3, <2>4, ComparePart
  <2>8. r.ans.compare.sameTime[f] <= r.ans.compare.previous[f]
        /\ r.ans.compare.forecast[f] >= cur[f]
    BY <2>5, <2>6, <2>7
  <2> QED BY <2>8 DEF r, cur
<1> QED BY <1>1, StatInvHolds, PTL

LEMMA VisitorsAgree == StatInv => VisitorsSplit
<1> SUFFICES ASSUME StatInv, NEW g \in Requests, Settled(g, "overall")
             PROVE  LET r == req[g]
                        first == FirstViews(shown)
                        late == {i \in DOMAIN first : /\ first[i] >= r.period.to
                                                      /\ DayOf(first[i]) = DayOf(r.period.to)}
                    IN r.ans.uv = r.ans.visitors.new + r.ans.visitors.returning
                                  + IF r.query.on THEN 0 ELSE Cardinality(late)
  BY DEF VisitorsSplit
<1> DEFINE r == req[g]
<1>1. /\ IsDb(Db) /\ Begins(Db, r)
      /\ r.ans.uv = Cardinality(Visitors(Db, r.period, r.query))
      /\ r.ans.visitors = NewReturning(Db, r.period, r.query)
  BY OverviewIs
<1> HIDE DEF r
<1>2. IsRange(r.period) /\ r.query.on \in BOOLEAN
  BY <1>1, BeginsIs
<1>3. LET first == FirstViews(Db.rows)
          late == {i \in DOMAIN first : /\ first[i] >= r.period.to
                                        /\ DayOf(first[i]) = DayOf(r.period.to)}
      IN Cardinality(Visitors(Db, r.period, r.query))
           = NewReturning(Db, r.period, r.query).new + NewReturning(Db, r.period, r.query).returning
             + IF r.query.on THEN 0 ELSE Cardinality(late)
  BY <1>1, <1>2, VisitorsPart
<1>4. Db.rows = shown
  BY DEF Db
<1> QED BY <1>1, <1>3, <1>4 DEF r

LEMMA SessionsFit == StatInv => SessionsAgree
<1> SUFFICES ASSUME StatInv, NEW g \in Requests, Settled(g, "overall"),
                    ~FromLogs(Db, req[g].query)
             PROVE  LET r == req[g]
                        S == SessionsOf(InOrder(shown))
                        over == {s \in S : s.start < r.period.from /\ s.end >= r.period.from}
                        late == IF schema = "aggregates" THEN Started(S, LeftOut(r.period)) ELSE {}
                        others == {s \in Tabled(Db, r.period) : s.ip \in skipped}
                    IN /\ r.ans.sessions + Cardinality(over) =
                            SummaryOf(SessionsOf(InOrder(Raw(Db, r.period, r.query)))).count
                              + Cardinality(late) + Cardinality(others)
                       /\ SumOf([e \in r.ans.entries |-> e.count]) <= r.ans.sessions
  BY DEF SessionsAgree
<1> DEFINE r == req[g]
           V == Raw(Db, r.period, r.query)
<1>1. /\ IsDb(Db) /\ Begins(Db, r)
      /\ r.ans.sessions = SessionCount(Db, r.period, r.query)
      /\ r.ans.entries = TopEntries(EntryCounts(Db, r.period, r.query))
  BY OverviewIs
<1>2. ~FromLogs(Db, r.query)
  OBVIOUS
<1> HIDE DEF r
<1>3. IsRange(r.period) /\ r.period.from \in Int /\ r.period.to \in Int
  BY <1>1, BeginsIs
<1>4. VisitsOK(Db.rows, Db.sessions, skipped)
  BY DEF StatInv, DbOK, Db
<1>5. LET S == SessionsOf({x \in Db.rows : x.ip \notin skipped})
          over == {s \in S : s.start < r.period.from /\ s.end >= r.period.from}
          late == IF Db.schema = "aggregates" THEN Started(S, LeftOut(r.period)) ELSE {}
          others == {s \in Tabled(Db, r.period) : s.ip \in skipped}
      IN SessionCount(Db, r.period, r.query) + Cardinality(over)
           = Cardinality(SessionsOf({x \in Raw(Db, r.period, r.query) : x.ip \notin skipped}))
             + Cardinality(late) + Cardinality(others)
  <2> DEFINE db == Db
             K == skipped
             p == r.period
             q == r.query
  <2>1. IsDb(db) /\ VisitsOK(db.rows, db.sessions, K) /\ IsRange(p) /\ ~FromLogs(db, q)
    BY <1>1, <1>2, <1>3, <1>4
  <2> HIDE DEF db, K, p, q
  <2>2. LET S == SessionsOf({x \in db.rows : x.ip \notin K})
            over == {s \in S : s.start < p.from /\ s.end >= p.from}
            late == IF db.schema = "aggregates" THEN Started(S, LeftOut(p)) ELSE {}
            others == {s \in Tabled(db, p) : s.ip \in K}
        IN SessionCount(db, p, q) + Cardinality(over)
             = Cardinality(SessionsOf({x \in Raw(db, p, q) : x.ip \notin K}))
               + Cardinality(late) + Cardinality(others)
    BY <2>1, SessionsPart
  <2> QED BY <2>2 DEF db, K, p, q
<1>6. SumOf([e \in TopEntries(EntryCounts(Db, r.period, r.query)) |-> e.count])
        <= SessionCount(Db, r.period, r.query)
  BY <1>1, <1>3, EntriesPart
<1>7. \A S : SummaryOf(S).count = Cardinality(S)
  BY DEF SummaryOf
<1>8. Db.rows = shown /\ Db.schema = schema
  BY DEF Db
<1>9. SumOf([e \in r.ans.entries |-> e.count]) <= r.ans.sessions
  BY <1>1, <1>6
<1>10. /\ {x \in V : x.ip \notin skipped} = InOrder(V)
       /\ {x \in Db.rows : x.ip \notin skipped} = InOrder(shown)
  BY <1>8 DEF InOrder
<1> QED BY <1>1, <1>5, <1>7, <1>8, <1>9, <1>10 DEF r, V

LEMMA ChartsFit == StatInv => ChartsAgree
<1> SUFFICES ASSUME StatInv, NEW g \in Requests, Settled(g, "overall"),
                    NEW view \in {"hourly", "daily"}
             PROVE  LET r == req[g]
                        q == [r.query EXCEPT !.view = view]
                        P == TimePoints(Db, q.range, view)
                    IN /\ SumOf(PvPoints(Db, P, q))
                            = r.ans.totals.pv
                              + IF q.on THEN Cardinality(Views(Raw(Db, LeftOut(r.period), q)))
                                ELSE 0
                       /\ r.ans.uv <= SumOf(UvPoints(Db, P, q))
  BY DEF ChartsAgree
<1> DEFINE r == req[g]
           q == [r.query EXCEPT !.view = view]
           p == r.period
           F == Full(Db, p, q)
           C == Counted(Db, p, q)
           L == Raw(Db, LeftOut(p), q)
           P == TimePoints(Db, q.range, view)
<1>1. /\ IsDb(Db) /\ Begins(Db, r)
      /\ r.ans.totals.pv = Column(Db, p, r.query, "pv")
      /\ r.ans.uv = Cardinality(Visitors(Db, p, r.query))
  BY OverviewIs
<1> HIDE DEF r
<1>2. /\ IsRange(p) /\ p.from \in Int /\ p.to \in Int /\ IsQuery(r.query)
      /\ r.query.range \in TimeRanges /\ r.query.on \in BOOLEAN
      /\ p = TimePeriod(Db, r.query.range)
  BY <1>1, BeginsIs
<1>3. /\ q.on = r.query.on /\ q.pages = r.query.pages /\ q.range = r.query.range
      /\ q.view = view
  BY <1>2 DEF IsQuery
<1> HIDE DEF q
<1>4. Counted(Db, p, r.query) = C
  BY <1>3 DEF Counted, Raw
<1>5. r.ans.totals.pv = Cardinality(Views(C)) /\ r.ans.uv = Cardinality(Addresses(C))
  BY <1>1, <1>2, <1>4, ColumnIs
<1>6. q.on \in BOOLEAN /\ q.range \in TimeRanges /\ q.view \in Views2
  BY <1>2, <1>3 DEF Views2
<1>7. p = TimePeriod(Db, q.range) /\ P = TimePoints(Db, q.range, q.view)
  BY <1>2, <1>3
<1>8. /\ F \in SUBSET Db.rows /\ Rows(F) /\ C \subseteq F
      /\ ~q.on => C = F
      /\ q.on => F = Raw(Db, p, q) \cup L /\ Raw(Db, p, q) \cap L = {}
  BY <1>1, <1>2, <1>6, FullIs
<1>9. SumOf(PvPoints(Db, P, q)) = Cardinality(Views(F))
  BY <1>1, <1>6, <1>7, PvSum
<1>10. /\ Cardinality(Addresses(F)) <= SumOf(UvPoints(Db, P, q))
       /\ SumOf(UvPoints(Db, P, q)) \in Int
  BY <1>1, <1>6, <1>7, UvSum
<1> HIDE DEF P, F, p
<1>11. /\ Cardinality(Addresses(C)) \in Nat /\ Cardinality(Addresses(F)) \in Nat
       /\ Cardinality(Addresses(C)) <= Cardinality(Addresses(F))
  BY <1>8, AddressesOf
<1>12. r.ans.uv <= SumOf(UvPoints(Db, P, q))
  BY <1>5, <1>10, <1>11
<1>13. SumOf(PvPoints(Db, P, q))
         = r.ans.totals.pv + IF q.on THEN Cardinality(Views(L)) ELSE 0
  <2>1. Cardinality(Views(C)) \in Nat
    BY <1>1, CountedRows, PvViews
  <2>2. CASE ~q.on
    <3>1. C = F
      BY <1>8, <2>2
    <3> HIDE DEF C
    <3> QED BY <1>5, <1>9, <2>1, <2>2, <3>1
  <2>3. CASE q.on
    <3> DEFINE V == Views(C)
               W == Views(L)
    <3>1. C = Raw(Db, p, q)
      BY <2>3 DEF Counted
    <3>2. F = C \cup L /\ C \cap L = {}
      BY <1>8, <2>3, <3>1
    <3>3. Views(F) = V \cup W /\ V \cap W = {}
      <4> HIDE DEF C, L
      <4> QED BY <3>2 DEF Views
    <3> HIDE DEF C, L
    <3> DEFINE U == Views(F)
    <3>5. IsFiniteSet(U) /\ U = V \cup W
      BY <1>8, <3>3, PvViews
    <3> HIDE DEF U, V, W
    <3>6. Cardinality(U) = Cardinality(V) + Cardinality(W)
      BY ONLY <3>3, <3>5, CountBoth
    <3> QED BY <1>5, <1>9, <2>3, <3>6 DEF U, V, W
  <2> QED BY <2>2, <2>3
<1> QED BY <1>7, <1>12, <1>13 DEF r, q, P, L, p

\* The overview, the chart and the list of sessions of a range fit together, each
\* with what it leaves out of the range's end or begins anew (GetOverallStats,
\* GetTimeSeriesStats, session_summary.go).
THEOREM OverviewsAgree == StatSpec => []OverallAgrees
<1>1. StatInv => OverallAgrees
  BY ChartsFit, VisitorsAgree, SessionsFit DEF OverallAgrees
<1> QED BY <1>1, StatInvHolds, PTL
=============================================================================
