---------------------------- MODULE TrendProofs -----------------------------
(***************************************************************************)
(* The issuance trend: the bucket starts that trend.go computes and those  *)
(* that Postgres groups by are the same, the loop over the buckets of a    *)
(* range visits each of them and nothing else, and the series counts       *)
(* exactly the certificates of their periods, for every day length, month  *)
(* calendar, preset and table.                                             *)
(***************************************************************************)
EXTENDS Trend, FiniteSetTheorems, TLAPS

-----------------------------------------------------------------------------
\* Numbers and days.

\* A set of numbers that is not empty has a least element.
LEMMA LeastExists ==
    ASSUME NEW S \in SUBSET Nat, S # {}
    PROVE  \E x \in S : \A y \in S : x <= y
<1> DEFINE R == {ss \in Nat \X Nat : ss[1] < ss[2]}
<1>1. IsWellFoundedOn(R, Nat)
  <2>1. OpToRel(<, Nat) = R
    BY Zenon DEF OpToRel
  <2> QED
    BY <2>1, NatLessThanWellFounded, Zenon
<1>2. PICK x \in S : \A y \in S : ~ (<<y, x>> \in R)
  <2> HIDE DEF R
  <2> QED
    BY <1>1, WFMin, Zenon
<1>3. ASSUME NEW y \in S
      PROVE  x <= y
  <2>1. x \in Nat /\ y \in Nat
    OBVIOUS
  <2>2. ~ (y < x)
    <3>1. y < x => <<y, x>> \in R
      BY <2>1
    <3> QED
      BY <1>2, <3>1
  <2> QED
    BY <2>1, <2>2
<1> QED
  BY <1>2, <1>3

\* Of the days of a set up to a day there is a last one, and Max is it.
LEMMA LastDay ==
    ASSUME NEW n \in Nat, NEW S \in SUBSET (0..n), S # {}
    PROVE  Max(S) \in S /\ \A m \in S : m <= Max(S)
<1> DEFINE left == {n - m : m \in S}
<1>1. left \in SUBSET Nat /\ left # {}
  <2>1. \A m \in S : n - m \in Nat
    OBVIOUS
  <2>2. PICK m \in S : TRUE
    OBVIOUS
  <2>3. n - m \in left
    OBVIOUS
  <2> QED
    BY <2>1, <2>3
<1>2. PICK d \in left : \A e \in left : d <= e
  <2> HIDE DEF left
  <2> QED
    BY <1>1, LeastExists
<1>3. PICK x \in S : d = n - x
  BY <1>2
<1>4. ASSUME NEW m \in S
      PROVE  x >= m
  <2>1. m \in Int /\ x \in Int /\ n - m \in left
    OBVIOUS
  <2>2. n - x <= n - m
    BY <1>2, <1>3, <2>1
  <2> QED
    BY <2>1, <2>2
<1> HIDE DEF left
<1>5. ASSUME NEW y \in S, \A m \in S : y >= m
      PROVE  y = x
  <2>1. y \in Int /\ x \in Int
    OBVIOUS
  <2>2. y >= x /\ x >= y
    BY <1>4, <1>5
  <2> QED
    BY <2>1, <2>2
<1> QED
  BY <1>4, <1>5 DEF Max

\* A time is its day's midnight and what has passed of the day.
LEMMA DayOf ==
    ASSUME NEW t \in Nat
    PROVE  Day(t) \in Nat /\ Midnight(t) = DayLength * Day(t)
<1>1. DayLength \in Nat /\ DayLength > 0
  BY TrendAssumption
<1>2. t \div DayLength \in Nat /\ t = DayLength * (t \div DayLength) + (t % DayLength)
  BY <1>1
<1>3. t % DayLength \in Int /\ DayLength * (t \div DayLength) \in Int
  BY <1>1, <1>2
<1>4. t - (t % DayLength) = DayLength * (t \div DayLength)
  BY <1>2, <1>3
<1> QED
  BY <1>2, <1>4 DEF Day, Midnight

\* Products with the length of a day are ordered as their days are.
LEMMA DayOrder ==
    ASSUME NEW d \in Nat, NEW e \in Nat
    PROVE  /\ DayLength * d \in Nat
           /\ d <= e => DayLength * d <= DayLength * e
           /\ d < e => DayLength * d + DayLength <= DayLength * e
<1>1. DayLength \in Nat /\ DayLength > 0
  BY TrendAssumption
<1>2. \A k \in Nat : DayLength * k \in Nat
  BY <1>1
<1>3. \A k \in Nat : DayLength * (d + k) = DayLength * d + DayLength * k
  BY <1>1
<1>4. CASE d <= e
  <2>1. e - d \in Nat /\ d + (e - d) = e
    BY <1>4
  <2>2. DayLength * e = DayLength * d + DayLength * (e - d) /\ DayLength * (e - d) \in Nat
    BY <1>2, <1>3, <2>1
  <2>3. d < e => DayLength <= DayLength * (e - d)
    <3> SUFFICES ASSUME d < e PROVE DayLength <= DayLength * (e - d)
      OBVIOUS
    <3> DEFINE k == e - d - 1
    <3>1. k \in Nat /\ e - d = 1 + k
      OBVIOUS
    <3>2. DayLength * (1 + k) = DayLength + DayLength * k /\ DayLength * k \in Nat
      BY <1>1, <3>1
    <3> QED
      BY <1>1, <3>1, <3>2
  <2>4. DayLength * d \in Nat
    BY <1>2
  <2> QED
    BY <1>1, <2>2, <2>3, <2>4
<1>5. CASE ~ (d <= e)
  BY <1>2, <1>5
<1> QED
  BY <1>4, <1>5

\* A day begins by a time iff it is not later than the time's day.
LEMMA DayBegins ==
    ASSUME NEW t \in Nat, NEW d \in Nat
    PROVE  DayLength * d <= t <=> d <= Day(t)
<1>1. DayLength \in Nat /\ DayLength > 0
  BY TrendAssumption
<1>2. /\ Day(t) \in Nat /\ t - (t % DayLength) = DayLength * Day(t)
  BY DayOf DEF Midnight
<1>3. t % DayLength \in 0..(DayLength - 1)
  BY <1>1
<1>4. DayLength * Day(t) \in Nat /\ DayLength * d \in Nat
  BY <1>2, DayOrder
<1>5. DayLength * Day(t) <= t /\ t < DayLength * Day(t) + DayLength
  BY <1>1, <1>2, <1>3, <1>4
<1>6. CASE d <= Day(t)
  <2>1. DayLength * d <= DayLength * Day(t)
    BY <1>2, <1>6, DayOrder
  <2> QED
    BY <1>4, <1>5, <1>6, <2>1
<1>7. CASE ~ (d <= Day(t))
  <2>1. DayLength * Day(t) + DayLength <= DayLength * d
    BY <1>2, <1>7, DayOrder
  <2> QED
    BY <1>1, <1>4, <1>5, <1>7, <2>1
<1> QED
  BY <1>6, <1>7

\* The last moment of the model.
Last == StartTime + MaxTicks

LEMMA LastTime ==
    Last \in Nat /\ Times = 0..Last /\ Max(Times) = Last
<1>1. Last \in Nat /\ Times = 0..Last
  BY TrendAssumption DEF Last, Times
<1>2. Last \in Times /\ \A y \in Times : Last >= y
  BY <1>1
<1>3. \A x \in Times : (\A y \in Times : x >= y) => x = Last
  BY <1>1, <1>2
<1> QED
  BY <1>1, <1>2, <1>3 DEF Max

-----------------------------------------------------------------------------
\* The calendar.

\* The weeks: the weekday arithmetic goes back to a Monday, and there is no
\* other Monday after it.
LEMMA WeekStart ==
    ASSUME NEW t \in Nat
    PROVE  /\ TruncateToBucket("week", t) = DayLength * (Day(t) - (Day(t) % 7))
           /\ Day(t) - (Day(t) % 7) \in 0..Day(t)
           /\ (Day(t) - (Day(t) % 7)) % 7 = 0
           /\ \A e \in (Day(t) - (Day(t) % 7) + 1)..Day(t) : e % 7 # 0
<1> DEFINE d == Day(t)
<1>1. d \in Nat /\ Midnight(t) = DayLength * d /\ DayLength \in Nat
  BY DayOf, TrendAssumption
<1>2. TruncateToBucket("week", t) = Midnight(t) - DayLength * ((((d + 1) % 7) + 6) % 7)
  BY DEF TruncateToBucket, Weekday
<1> HIDE DEF d
<1>3. (((d + 1) % 7) + 6) % 7 = d % 7 /\ d % 7 \in 0..6
  BY <1>1
<1>4. /\ d - (d % 7) \in 0..d /\ (d - (d % 7)) % 7 = 0
      /\ \A e \in (d - (d % 7) + 1)..d : e % 7 # 0
  BY <1>1
<1>5. DayLength * d - DayLength * (d % 7) = DayLength * (d - (d % 7))
  BY <1>1, <1>3
<1> QED
  BY <1>1, <1>2, <1>3, <1>4, <1>5 DEF d

\* The months: the first of the month of a day is the last first of a month
\* up to it.
LEMMA MonthStartIs ==
    ASSUME NEW d \in Nat
    PROVE  /\ MonthStart(d) \in 0..d /\ MonthStart(d) \in MonthStarts
           /\ \A e \in (MonthStart(d) + 1)..d : e \notin MonthStarts
<1> DEFINE S == {m \in MonthStarts : m <= d}
<1>1. S \in SUBSET (0..d) /\ S # {}
  <2>1. MonthStarts \subseteq Nat /\ 0 \in MonthStarts
    BY TrendAssumption
  <2>2. 0 \in S
    BY <2>1
  <2>3. \A m \in S : m \in 0..d
    BY <2>1
  <2> QED
    BY <2>2, <2>3
<1>2. Max(S) \in S /\ \A m \in S : m <= Max(S)
  <2> HIDE DEF S
  <2> QED
    BY <1>1, LastDay
<1>3. \A e \in (Max(S) + 1)..d : e \notin MonthStarts
  BY <1>1, <1>2
<1> QED
  BY <1>1, <1>2, <1>3 DEF MonthStart

\* The bucket of a time begins on the last day up to it that starts a bucket.
LEMMA LastStart ==
    ASSUME NEW b \in Buckets, NEW t \in Nat
    PROVE  \E x \in 0..Day(t) : /\ IsStart(b, x)
                                /\ \A e \in (x + 1)..Day(t) : ~ IsStart(b, e)
                                /\ TruncateToBucket(b, t) = DayLength * x
<1>1. Day(t) \in Nat /\ Midnight(t) = DayLength * Day(t)
  BY DayOf
<1>2. CASE b = "day"
  <2>1. /\ Day(t) \in 0..Day(t) /\ IsStart(b, Day(t))
        /\ \A e \in (Day(t) + 1)..Day(t) : ~ IsStart(b, e)
    BY <1>1, <1>2 DEF IsStart
  <2>2. TruncateToBucket(b, t) = DayLength * Day(t)
    BY <1>1, <1>2 DEF TruncateToBucket
  <2> QED
    BY <2>1, <2>2
<1>3. CASE b = "week"
  <2> DEFINE x == Day(t) - (Day(t) % 7)
  <2>1. /\ x \in 0..Day(t) /\ x % 7 = 0 /\ \A e \in (x + 1)..Day(t) : e % 7 # 0
        /\ TruncateToBucket("week", t) = DayLength * x
    BY WeekStart
  <2> HIDE DEF x
  <2>2. IsStart(b, x) /\ \A e \in (x + 1)..Day(t) : ~ IsStart(b, e)
    BY <1>3, <2>1 DEF IsStart
  <2> QED
    BY <1>3, <2>1, <2>2
<1>4. CASE b = "month"
  <2> DEFINE x == MonthStart(Day(t))
  <2>1. /\ x \in 0..Day(t) /\ x \in MonthStarts
        /\ \A e \in (x + 1)..Day(t) : e \notin MonthStarts
    BY <1>1, MonthStartIs
  <2>2. TruncateToBucket("month", t) = DayLength * x
    BY DEF TruncateToBucket
  <2> HIDE DEF x
  <2>3. IsStart(b, x) /\ \A e \in (x + 1)..Day(t) : ~ IsStart(b, e)
    BY <1>4, <2>1 DEF IsStart
  <2> QED
    BY <1>4, <2>1, <2>2, <2>3
<1> QED
  BY <1>2, <1>3, <1>4 DEF Buckets

\* The start of the bucket Postgres finds is the only one that is the last
\* before the day.
LEMMA DateTruncIs ==
    ASSUME NEW b \in Buckets, NEW t \in Nat, NEW x \in 0..Day(t), Day(t) \in Nat,
           IsStart(b, x), \A e \in (x + 1)..Day(t) : ~ IsStart(b, e)
    PROVE  DateTrunc(b, t) = DayLength * x
<1> DEFINE LastBegun(d) == IsStart(b, d) /\ \A e \in (d + 1)..Day(t) : ~ IsStart(b, e)
<1>1. LastBegun(x)
  OBVIOUS
<1>2. ASSUME NEW d \in 0..Day(t), LastBegun(d)
      PROVE  d = x
  <2>1. ~ (d < x) /\ ~ (x < d)
    BY <1>1, <1>2
  <2> QED
    BY <2>1
<1> HIDE DEF LastBegun
<1>3. (CHOOSE d \in 0..Day(t) : LastBegun(d)) = x
  BY <1>1, <1>2
<1> QED
  BY <1>3 DEF DateTrunc, LastBegun

\* The bucket start that the Go code computes for a time is the one Postgres'
\* date_trunc finds: a row of the query always falls into the bucket that
\* zeroFillTrend expects it in, for days, weeks and months, whatever the
\* calendar and the time.
THEOREM CalendarsAgree ==
    \A b \in Buckets, t \in Nat : TruncateToBucket(b, t) = DateTrunc(b, t)
<1> SUFFICES ASSUME NEW b \in Buckets, NEW t \in Nat
             PROVE  TruncateToBucket(b, t) = DateTrunc(b, t)
  OBVIOUS
<1>1. Day(t) \in Nat
  BY DayOf
<1> QED
  BY <1>1, LastStart, DateTruncIs

-----------------------------------------------------------------------------
\* The starts of the buckets, and how AdvanceBucket goes from one to the next.

\* The times at which a bucket starts.
StartTimes(b) == {DayLength * d : d \in {e \in Nat : IsStart(b, e)}}

\* TruncateToBucket goes back to the last start of a bucket up to the time.
LEMMA TruncateIsLast ==
    ASSUME NEW b \in Buckets, NEW t \in Nat
    PROVE  /\ TruncateToBucket(b, t) \in StartTimes(b)
           /\ TruncateToBucket(b, t) \in 0..t
           /\ \A s \in StartTimes(b) : s <= t => s <= TruncateToBucket(b, t)
<1>1. PICK x \in 0..Day(t) : /\ IsStart(b, x)
                             /\ \A e \in (x + 1)..Day(t) : ~ IsStart(b, e)
                             /\ TruncateToBucket(b, t) = DayLength * x
  BY LastStart
<1>2. Day(t) \in Nat /\ x \in Nat
  BY DayOf
<1>3. DayLength * x \in Nat /\ DayLength * x <= t
  BY <1>2, DayOrder, DayBegins
<1>4. ASSUME NEW s \in StartTimes(b), s <= t
      PROVE  s <= DayLength * x
  <2>1. PICK d \in Nat : IsStart(b, d) /\ s = DayLength * d
    BY DEF StartTimes
  <2>2. d <= Day(t)
    BY <1>4, <2>1, DayBegins
  <2>3. d <= x
    BY <1>1, <1>2, <2>1, <2>2
  <2> QED
    BY <1>2, <2>1, <2>3, DayOrder
<1> QED
  BY <1>1, <1>2, <1>3, <1>4 DEF StartTimes

\* NextMonth: the first of a month after a day, or a day after the last
\* moment.
LEMMA NextMonthIs ==
    ASSUME NEW d \in Nat
    PROVE  /\ NextMonth(d) \in Nat
           /\ \/ /\ NextMonth(d) \in MonthStarts /\ NextMonth(d) > d
                 /\ \A m \in MonthStarts : m > d => NextMonth(d) <= m
              \/ /\ \A m \in MonthStarts : ~ (m > d)
                 /\ NextMonth(d) = Day(Last) + 1
<1> DEFINE later == {m \in MonthStarts : m > d}
<1>1. later \in SUBSET Nat
  BY TrendAssumption
<1>2. NextMonth(d) = IF later = {} THEN Day(Last) + 1 ELSE Min(later)
  BY LastTime DEF NextMonth
<1>3. CASE later = {}
  <2>1. Day(Last) \in Nat
    BY LastTime, DayOf
  <2> QED
    BY <1>2, <1>3, <2>1
<1>4. CASE later # {}
  <2>1. PICK x \in later : \A y \in later : x <= y
    <3> HIDE DEF later
    <3> QED
      BY <1>1, <1>4, LeastExists
  <2>2. Min(later) = x
    <3> HIDE DEF later
    <3>1. \A z \in later : (\A y \in later : z <= y) => z = x
      BY <1>1, <2>1
    <3> QED
      BY <2>1, <3>1 DEF Min
  <2> QED
    BY <1>1, <1>2, <1>4, <2>1, <2>2
<1> QED
  BY <1>3, <1>4

\* AdvanceBucket goes on, ...
LEMMA AdvanceGrows ==
    ASSUME NEW b \in Buckets, NEW t \in Nat, t <= Last
    PROVE  AdvanceBucket(b, t) \in Nat /\ t < AdvanceBucket(b, t)
<1>1. DayLength \in Nat /\ DayLength > 0
  BY TrendAssumption
<1>2. CASE b = "day"
  BY <1>1, <1>2 DEF AdvanceBucket
<1>3. CASE b = "week"
  BY <1>1, <1>3 DEF AdvanceBucket
<1>4. CASE b = "month"
  <2> DEFINE n == NextMonth(Day(t))
  <2>1. Day(t) \in Nat /\ Last \in Nat /\ Day(Last) \in Nat
    BY DayOf, LastTime
  <2>2. Day(t) <= Day(Last)
    <3>1. DayLength * Day(t) \in Nat /\ DayLength * Day(t) <= t
      BY <2>1, DayOrder, DayBegins
    <3>2. DayLength * Day(t) <= Last
      BY <2>1, <3>1
    <3> QED
      BY <2>1, <3>2, DayBegins
  <2>3. n \in Nat /\ n > Day(t)
    <3>1. /\ n \in Nat
          /\ n > Day(t) \/ n = Day(Last) + 1
      BY <2>1, NextMonthIs
    <3> QED
      BY <2>1, <2>2, <3>1
  <2>4. AdvanceBucket(b, t) = DayLength * n
    BY <1>4 DEF AdvanceBucket
  <2> HIDE DEF n
  <2>5. DayLength * n \in Nat /\ ~ (DayLength * n <= t)
    BY <2>1, <2>3, DayOrder, DayBegins
  <2> QED
    BY <2>4, <2>5
<1> QED
  BY <1>2, <1>3, <1>4 DEF Buckets

\* ... and from the start of a bucket to the next one.
LEMMA AdvanceIsNext ==
    ASSUME NEW b \in Buckets, NEW t \in StartTimes(b), t <= Last
    PROVE  /\ AdvanceBucket(b, t) <= Last => AdvanceBucket(b, t) \in StartTimes(b)
           /\ \A s \in StartTimes(b) : t < s /\ s <= Last => AdvanceBucket(b, t) <= s
<1>1. DayLength \in Nat /\ DayLength > 0
  BY TrendAssumption
<1>2. PICK d \in Nat : IsStart(b, d) /\ t = DayLength * d
  BY DEF StartTimes
<1>3. t \in Nat
  BY <1>2, DayOrder
<1>4. ASSUME NEW s \in StartTimes(b), t < s
      PROVE  \E e \in Nat : IsStart(b, e) /\ s = DayLength * e /\ d < e
  <2>1. PICK e \in Nat : IsStart(b, e) /\ s = DayLength * e
    BY DEF StartTimes
  <2>2. e <= d => s <= t
    BY <1>2, <2>1, DayOrder
  <2>3. s \in Nat
    BY <2>1, DayOrder
  <2>4. d < e
    BY <1>3, <1>4, <2>2, <2>3
  <2> QED
    BY <2>1, <2>4
<1>5. CASE b = "day"
  <2>1. AdvanceBucket(b, t) = t + DayLength
    BY <1>5 DEF AdvanceBucket
  <2>2. t + DayLength = DayLength * (d + 1)
    BY <1>1, <1>2
  <2>3. IsStart(b, d + 1)
    BY <1>5 DEF IsStart
  <2>4. ASSUME NEW s \in StartTimes(b), t < s
        PROVE  t + DayLength <= s
    BY <1>2, <1>4, <2>4, DayOrder
  <2> QED
    BY <2>1, <2>2, <2>3, <2>4 DEF StartTimes
<1>6. CASE b = "week"
  <2>1. AdvanceBucket(b, t) = t + 7 * DayLength
    BY <1>6 DEF AdvanceBucket
  <2>2. t + 7 * DayLength = DayLength * (d + 7)
    BY <1>1, <1>2
  <2>3. IsStart(b, d + 7)
    BY <1>2, <1>6 DEF IsStart
  <2>4. ASSUME NEW s \in StartTimes(b), t < s
        PROVE  t + 7 * DayLength <= s
    <3>1. PICK e \in Nat : IsStart(b, e) /\ s = DayLength * e /\ d < e
      BY <1>4, <2>4
    <3>2. d % 7 = 0 /\ e % 7 = 0
      BY <1>2, <1>6, <3>1 DEF IsStart
    <3>3. d + 7 <= e
      BY <3>1, <3>2
    <3>4. DayLength * (d + 7) <= DayLength * e
      BY <3>1, <3>3, DayOrder
    <3> QED
      BY <2>2, <3>1, <3>4
  <2> QED
    BY <2>1, <2>2, <2>3, <2>4 DEF StartTimes
<1>7. CASE b = "month"
  <2>1. Day(t) = d
    <3>1. Day(t) \in Nat
      BY <1>3, DayOf
    <3>2. DayLength * d <= t
      BY <1>2, <1>3
    <3>3. d <= Day(t)
      BY <1>3, <3>2, DayBegins
    <3>4. DayLength * Day(t) <= DayLength * d
      BY <1>2, <1>3, <3>1, DayBegins
    <3>5. d < Day(t) => DayLength * d + DayLength <= DayLength * Day(t)
      BY <3>1, DayOrder
    <3>6. DayLength * Day(t) \in Nat /\ DayLength * d \in Nat
      BY <3>1, DayOrder
    <3> QED
      BY <1>1, <3>1, <3>3, <3>4, <3>5, <3>6
  <2> DEFINE n == NextMonth(d)
  <2>2. AdvanceBucket(b, t) = DayLength * n
    BY <1>7, <2>1 DEF AdvanceBucket
  <2>3. /\ n \in Nat
        /\ \/ /\ n \in MonthStarts /\ n > d
              /\ \A m \in MonthStarts : m > d => n <= m
           \/ (\A m \in MonthStarts : ~ (m > d)) /\ n = Day(Last) + 1
    BY NextMonthIs
  <2> HIDE DEF n
  <2>4. \A e \in Nat : IsStart(b, e) <=> e \in MonthStarts
    BY <1>7 DEF IsStart
  <2>5. CASE /\ n \in MonthStarts /\ n > d
             /\ \A m \in MonthStarts : m > d => n <= m
    <3>1. ASSUME NEW s \in StartTimes(b), t < s
          PROVE  DayLength * n <= s
      <4>1. PICK e \in Nat : IsStart(b, e) /\ s = DayLength * e /\ d < e
        BY <1>4, <3>1
      <4>2. n <= e
        BY <2>4, <2>5, <4>1
      <4> QED
        BY <2>3, <4>1, <4>2, DayOrder
    <3> QED
      BY <2>2, <2>3, <2>4, <2>5, <3>1 DEF StartTimes
  <2>6. CASE (\A m \in MonthStarts : ~ (m > d)) /\ n = Day(Last) + 1
    <3>1. Last \in Nat /\ Day(Last) \in Nat
      BY LastTime, DayOf
    <3>2. ~ (DayLength * n <= Last)
      BY <2>3, <2>6, <3>1, DayBegins
    <3>3. ASSUME NEW s \in StartTimes(b), t < s
          PROVE  FALSE
      BY <1>4, <2>4, <2>6, <3>3
    <3> QED
      BY <2>2, <3>2, <3>3
  <2> QED
    BY <2>3, <2>5, <2>6
<1> QED
  BY <1>5, <1>6, <1>7 DEF Buckets

-----------------------------------------------------------------------------
\* The loop of AlignedBuckets.

\* A loop that grows at every step up to a bound is well defined: from t it
\* collects what every set has that has t and is closed under the steps.
LEMMA LoopDefined ==
    ASSUME NEW end \in Nat, NEW A,
           \A y \in Nat : y <= end => A[y] \in Nat /\ y < A[y]
    PROVE  \E f : f = [t \in Nat |-> IF t > end THEN {} ELSE {t} \cup f[A[t]]]
<1> DEFINE Closed(S) == \A y \in S : y <= end => A[y] \in S
           Reached(t) == {x \in Nat : \A S \in SUBSET Nat :
                                        t \in S /\ Closed(S) => x \in S}
           f == [t \in Nat |-> {x \in Reached(t) : x <= end}]
<1>1. ASSUME NEW t \in Nat
      PROVE  t \in Reached(t) /\ Reached(t) \in SUBSET Nat /\ Closed(Reached(t))
  <2>1. ASSUME NEW y \in Reached(t), y <= end
        PROVE  A[y] \in Reached(t)
    <3>1. A[y] \in Nat
      BY <2>1
    <3>2. ASSUME NEW S \in SUBSET Nat, t \in S, Closed(S)
          PROVE  A[y] \in S
      <4>1. y \in S
        BY <3>2
      <4> QED
        BY <2>1, <3>2, <4>1
    <3> QED
      BY <3>1, <3>2
  <2> QED
    BY <2>1
<1>2. ASSUME NEW t \in Nat, NEW x \in Reached(t)
      PROVE  t <= x
  <2> DEFINE Up == {y \in Nat : t <= y}
  <2>1. Up \in SUBSET Nat /\ t \in Up
    OBVIOUS
  <2>2. Closed(Up)
    <3> SUFFICES ASSUME NEW y \in Up, y <= end
                 PROVE  A[y] \in Up
      OBVIOUS
    <3>1. y \in Nat /\ t <= y /\ A[y] \in Nat /\ y < A[y]
      OBVIOUS
    <3> QED
      BY <3>1
  <2> HIDE DEF Closed
  <2>3. x \in Up
    BY <2>1, <2>2
  <2> QED
    BY <2>3
<1>3. ASSUME NEW t \in Nat, t <= end
      PROVE  Reached(t) = {t} \cup Reached(A[t])
  <2> DEFINE Both == {t} \cup Reached(A[t])
  <2>1. A[t] \in Nat
    BY <1>3
  <2>2. A[t] \in Reached(A[t]) /\ Reached(A[t]) \in SUBSET Nat /\ Closed(Reached(A[t]))
    BY <1>1, <2>1
  <2>3. Both \in SUBSET Nat /\ t \in Both /\ Closed(Both)
    <3> HIDE DEF Reached
    <3> QED
      BY <2>2
  <2>4. ASSUME NEW x \in Reached(t)
        PROVE  x \in Both
    <3> HIDE DEF Closed, Both
    <3> QED
      BY <2>3
  <2>5. ASSUME NEW x \in Reached(A[t])
        PROVE  x \in Reached(t)
    <3>1. x \in Nat
      OBVIOUS
    <3>2. ASSUME NEW S \in SUBSET Nat, t \in S, Closed(S)
          PROVE  x \in S
      <4>1. A[t] \in S
        BY <1>3, <3>2
      <4> QED
        BY <3>2, <4>1
    <3> QED
      BY <3>1, <3>2
  <2>6. t \in Reached(t)
    BY <1>1
  <2> HIDE DEF Reached
  <2> QED
    BY <2>4, <2>5, <2>6
<1> HIDE DEF Reached
<1>4. ASSUME NEW t \in Nat
      PROVE  f[t] = IF t > end THEN {} ELSE {t} \cup f[A[t]]
  <2>1. f[t] = {x \in Reached(t) : x <= end}
    OBVIOUS
  <2>2. CASE t > end
    <3>1. ASSUME NEW x \in Reached(t), x <= end
          PROVE  FALSE
      <4>1. x \in Nat /\ t <= x
        BY <1>1, <1>2
      <4> QED
        BY <2>2, <3>1, <4>1
    <3> QED
      BY <2>1, <2>2, <3>1
  <2>3. CASE ~ (t > end)
    <3>1. t <= end /\ A[t] \in Nat
      BY <2>3
    <3>2. Reached(t) = {t} \cup Reached(A[t])
      BY <1>3, <3>1
    <3>3. f[A[t]] = {x \in Reached(A[t]) : x <= end}
      BY <3>1
    <3> HIDE DEF f
    <3> QED
      BY <2>1, <2>3, <3>1, <3>2, <3>3
  <2> QED
    BY <2>2, <2>3
<1>5. f = [t \in Nat |-> f[t]]
  OBVIOUS
<1>6. f = [t \in Nat |-> IF t > end THEN {} ELSE {t} \cup f[A[t]]]
  <2> HIDE DEF f
  <2> QED
    BY <1>4, <1>5
<1> HIDE DEF f
<1> QED
  BY <1>6, Zenon

\* What one turn of the loop does.
IsLoop(g, b, end) ==
    \A t \in Nat : g[t] = IF t > end THEN {} ELSE {t} \cup g[AdvanceBucket(b, t)]

\* The loop that AlignedBuckets runs.
LEMMA LoopEquation ==
    ASSUME NEW b, NEW from, NEW to, NEW end \in Nat, end = TruncateToBucket(b, to),
           \A y \in Nat : y <= end =>
                AdvanceBucket(b, y) \in Nat /\ y < AdvanceBucket(b, y)
    PROVE  \E g : /\ IsLoop(g, b, end)
                  /\ AlignedBuckets(b, from, to) = g[TruncateToBucket(b, from)]
<1> DEFINE A == [y \in Nat |-> AdvanceBucket(b, y)]
           Loop(f) == f = [t \in Nat |->
                            IF t > end THEN {} ELSE {t} \cup f[AdvanceBucket(b, t)]]
           g == CHOOSE f : Loop(f)
<1>1. \A y \in Nat : A[y] = AdvanceBucket(b, y)
  OBVIOUS
<1>2. \A y \in Nat : y <= end => A[y] \in Nat /\ y < A[y]
  BY <1>1
<1>3. PICK f : f = [t \in Nat |-> IF t > end THEN {} ELSE {t} \cup f[A[t]]]
  <2> HIDE DEF A
  <2> QED
    BY <1>2, LoopDefined, Zenon
<1>4. Loop(f)
  BY <1>1, <1>3
<1>5. Loop(g)
  <2> HIDE DEF Loop
  <2> QED
    BY <1>4, Zenon
<1>6. AlignedBuckets(b, from, to) = g[TruncateToBucket(b, from)]
  BY DEF AlignedBuckets
<1>7. IsLoop(g, b, end)
  <2> HIDE DEF g
  <2> QED
    BY <1>5 DEF IsLoop
<1> HIDE DEF g
<1> QED
  BY <1>6, <1>7, Zenon

\* The loop visits the starts of buckets up to its end, and no other time.
LEMMA LoopVisits ==
    ASSUME NEW b \in Buckets, NEW from \in Times, NEW to \in Times
    PROVE  AlignedBuckets(b, from, to) =
            {s \in StartTimes(b) : TruncateToBucket(b, from) <= s
                                    /\ s <= TruncateToBucket(b, to)}
<1> DEFINE end == TruncateToBucket(b, to)
           begin == TruncateToBucket(b, from)
           Starts == StartTimes(b)
           Upward(t) == {s \in Starts : t <= s /\ s <= end}
<1>1. /\ Last \in Nat /\ end \in Nat /\ end <= Last /\ begin \in Starts
  <2>1. Last \in Nat /\ from \in Nat /\ to \in Nat /\ to <= Last
    BY LastTime
  <2>2. begin \in Starts /\ end \in 0..to
    BY <2>1, TruncateIsLast
  <2> QED
    BY <2>1, <2>2
<1>2. Starts \subseteq Nat
  BY DayOrder DEF StartTimes
<1>3. \A y \in Nat : y <= end => AdvanceBucket(b, y) \in Nat /\ y < AdvanceBucket(b, y)
  <2> SUFFICES ASSUME NEW y \in Nat, y <= end
               PROVE  AdvanceBucket(b, y) \in Nat /\ y < AdvanceBucket(b, y)
    OBVIOUS
  <2>1. y <= Last
    BY <1>1
  <2> QED
    BY <2>1, AdvanceGrows
<1>4. PICK g : IsLoop(g, b, end) /\ AlignedBuckets(b, from, to) = g[begin]
  <2>1. begin = TruncateToBucket(b, from) /\ end = TruncateToBucket(b, to)
    OBVIOUS
  <2> HIDE DEF end, begin
  <2>2. \E g : /\ IsLoop(g, b, end)
               /\ AlignedBuckets(b, from, to) = g[TruncateToBucket(b, from)]
    BY <1>1, <1>3, <2>1, LoopEquation
  <2> QED
    BY <2>1, <2>2, Zenon
<1> HIDE DEF end, begin
<1>5. ASSUME NEW t \in Starts, t <= end
      PROVE  Upward(t) = {t} \cup Upward(AdvanceBucket(b, t))
  <2> DEFINE u == AdvanceBucket(b, t)
  <2>1. t \in Nat /\ t <= Last /\ u \in Nat /\ t < u
    BY <1>1, <1>2, <1>3, <1>5
  <2>2. \A s \in Starts : t < s /\ s <= Last => u <= s
    BY <2>1, AdvanceIsNext
  <2> HIDE DEF u, Starts
  <2>3. ASSUME NEW s \in Upward(t)
        PROVE  s = t \/ s \in Upward(u)
    BY <1>1, <1>2, <2>1, <2>2
  <2>4. ASSUME NEW s \in Upward(u)
        PROVE  s \in Upward(t)
    BY <1>1, <1>2, <2>1
  <2>5. t \in Upward(t)
    BY <1>5, <2>1
  <2> QED
    BY <2>3, <2>4, <2>5 DEF u
<1>6. \A t \in Starts : g[t] = Upward(t)
  <2> DEFINE Wrong == {n \in Nat : \E t \in Starts :
                            t <= end /\ n = end - t /\ g[t] # Upward(t)}
  <2>1. Wrong = {}
    <3> SUFFICES ASSUME Wrong # {}
                 PROVE  FALSE
      OBVIOUS
    <3>1. PICK n \in Wrong : \A m \in Wrong : n <= m
      <4>1. Wrong \in SUBSET Nat
        OBVIOUS
      <4> HIDE DEF Wrong
      <4> QED
        BY <4>1, LeastExists
    <3>2. PICK t \in Starts : t <= end /\ n = end - t /\ g[t] # Upward(t)
      OBVIOUS
    <3> DEFINE u == AdvanceBucket(b, t)
    <3>3. t \in Nat /\ u \in Nat /\ t < u /\ t <= Last
      BY <1>1, <1>2, <1>3, <3>2
    <3>4. g[t] = {t} \cup g[u]
      <4>1. ~ (t > end)
        BY <1>1, <3>2, <3>3
      <4> QED
        BY <1>4, <3>3, <4>1 DEF IsLoop
    <3>5. Upward(t) = {t} \cup Upward(u)
      BY <1>5, <3>2
    <3>6. g[u] # Upward(u)
      <4> HIDE DEF Upward, u
      <4> QED
        BY <3>2, <3>4, <3>5
    <3>7. CASE u > end
      <4>1. g[u] = {}
        BY <1>4, <3>3, <3>7 DEF IsLoop
      <4>2. Upward(u) = {}
        BY <1>1, <1>2, <3>3, <3>7
      <4> QED
        BY <3>6, <4>1, <4>2
    <3>8. CASE u <= end
      <4>1. u \in Starts
        BY <1>1, <3>3, <3>8, AdvanceIsNext
      <4>2. end - u \in Nat /\ end - u < n /\ n \in Nat
        BY <1>1, <3>2, <3>3, <3>8
      <4>3. end - u \in Wrong
        <5> HIDE DEF Upward, u
        <5> QED
          BY <3>6, <3>8, <4>1, <4>2
      <4>4. n <= end - u
        <5> HIDE DEF Wrong, u
        <5> QED
          BY <3>1, <4>3
      <4> QED
        BY <4>2, <4>4
    <3> QED
      BY <1>1, <3>3, <3>7, <3>8
  <2> SUFFICES ASSUME NEW t \in Starts
               PROVE  g[t] = Upward(t)
    OBVIOUS
  <2>2. t \in Nat
    BY <1>2
  <2>3. CASE t > end
    <3>1. g[t] = {}
      BY <1>4, <2>2, <2>3 DEF IsLoop
    <3>2. Upward(t) = {}
      BY <1>1, <1>2, <2>2, <2>3
    <3> QED
      BY <3>1, <3>2
  <2>4. CASE ~ (t > end)
    <3>1. end - t \in Nat /\ t <= end
      BY <1>1, <2>2, <2>4
    <3> HIDE DEF Upward
    <3> QED
      BY <2>1, <3>1
  <2> QED
    BY <2>3, <2>4
<1> QED
  BY <1>1, <1>4, <1>6 DEF end, begin

\* The buckets of a range are those of its moments.
LEMMA BucketsOfRange ==
    ASSUME NEW b \in Buckets, NEW from \in Times, NEW to \in Times, from <= to
    PROVE  AlignedBuckets(b, from, to) = {DateTrunc(b, t) : t \in from..to}
<1> DEFINE T(t) == TruncateToBucket(b, t)
           Between == {s \in StartTimes(b) : T(from) <= s /\ s <= T(to)}
<1>1. from \in Nat /\ to \in Nat
  BY LastTime
<1>2. \A t \in Nat : /\ T(t) \in StartTimes(b) /\ T(t) \in 0..t
                     /\ \A s \in StartTimes(b) : s <= t => s <= T(t)
  BY TruncateIsLast
<1>3. \A t \in Nat : T(t) = DateTrunc(b, t)
  BY CalendarsAgree
<1>4. AlignedBuckets(b, from, to) = Between
  BY LoopVisits
<1>5. StartTimes(b) \subseteq Nat
  BY DayOrder DEF StartTimes
<1> HIDE DEF T
<1>6. ASSUME NEW t \in from..to
      PROVE  DateTrunc(b, t) \in Between
  <2>1. t \in Nat /\ from <= t /\ t <= to
    BY <1>1
  <2>2. T(from) <= t /\ T(t) <= to /\ T(from) \in Nat /\ T(t) \in Nat
    BY <1>1, <1>2, <2>1
  <2>3. T(from) <= T(t) /\ T(t) <= T(to)
    BY <1>1, <1>2, <2>1, <2>2
  <2> QED
    BY <1>2, <1>3, <2>1, <2>3
<1>7. ASSUME NEW s \in Between
      PROVE  \E t \in from..to : s = DateTrunc(b, t)
  <2>1. s \in Nat /\ s \in StartTimes(b) /\ T(from) <= s /\ s <= T(to) /\ T(to) \in 0..to
        /\ T(from) \in Nat
    BY <1>1, <1>2, <1>5
  <2>2. CASE s < from
    <3>1. s <= T(from)
      BY <1>1, <1>2, <2>1, <2>2
    <3>2. s = T(from) /\ from \in from..to
      BY <1>1, <2>1, <3>1
    <3> QED
      BY <1>1, <1>3, <3>2
  <2>3. CASE ~ (s < from)
    <3>1. s \in from..to
      BY <1>1, <2>1, <2>3
    <3>2. T(s) \in 0..s /\ s <= T(s)
      BY <1>2, <2>1
    <3>3. s = T(s)
      BY <2>1, <3>2
    <3> QED
      BY <1>3, <2>1, <3>1, <3>3
  <2> QED
    BY <2>2, <2>3
<1> HIDE DEF Between
<1> QED
  BY <1>4, <1>6, <1>7

-----------------------------------------------------------------------------
\* The counts.

\* Whatever buckets a series is asked for, each of its points counts the
\* certificates of the range whose bucket, by the Go calendar, it is: the
\* query, the grouping and zeroFillTrend neither lose a certificate of an
\* expected bucket nor count one in another.
THEOREM PointsCount ==
    ASSUME NEW b \in Buckets, NEW expected, NEW from,
           NEW issued, \A k \in DOMAIN issued : issued[k] \in Nat
    PROVE  \A t \in expected :
            ZeroFillTrend(expected, GetIssuanceTrend(b, issued, from))[t] =
                Cardinality({k \in DOMAIN issued :
                    issued[k] >= from /\ TruncateToBucket(b, issued[k]) = t})
<1> DEFINE recent == {k \in DOMAIN issued : issued[k] >= from}
           in(t) == {k \in recent : DateTrunc(b, issued[k]) = t}
           counts == GetIssuanceTrend(b, issued, from)
<1>1. counts = [t \in {DateTrunc(b, issued[k]) : k \in recent} |-> Cardinality(in(t))]
  <2>1. counts = GroupBy(b, issued, from)
    BY DEF GetIssuanceTrend, TrendByDay, TrendByWeek, TrendByMonth, Buckets
  <2> QED
    BY <2>1 DEF GroupBy
<1> SUFFICES ASSUME NEW t \in expected
             PROVE  ZeroFillTrend(expected, counts)[t] =
                        Cardinality({k \in DOMAIN issued :
                            issued[k] >= from /\ TruncateToBucket(b, issued[k]) = t})
  OBVIOUS
<1>2. in(t) = {k \in DOMAIN issued :
                    issued[k] >= from /\ TruncateToBucket(b, issued[k]) = t}
  BY CalendarsAgree
<1>3. ZeroFillTrend(expected, counts)[t] = IF t \in DOMAIN counts THEN counts[t] ELSE 0
  BY DEF ZeroFillTrend
<1>4. CASE \E k \in recent : DateTrunc(b, issued[k]) = t
  <2>1. t \in DOMAIN counts /\ counts[t] = Cardinality(in(t))
    BY <1>1, <1>4
  <2> QED
    BY <1>2, <1>3, <2>1
<1>5. CASE ~ \E k \in recent : DateTrunc(b, issued[k]) = t
  <2>1. in(t) = {} /\ t \notin DOMAIN counts
    BY <1>1, <1>5
  <2>2. Cardinality({}) = 0
    BY FS_EmptySet
  <2> QED
    BY <1>2, <1>3, <2>1, <2>2
<1> QED
  BY <1>4, <1>5

-----------------------------------------------------------------------------
\* The variables.

\* Each change stores at most one certificate, and the clock does not go back.
TrendInv ==
    /\ TypeOK
    /\ StartTime <= now
    /\ \E n \in 0..changes : certs \in [1..n -> Times]

\* A preset's range begins at a time of the model.
LEMMA SinceType ==
    ASSUME TrendInv
    PROVE  /\ RangePresetToSince(key, now) \in 0..now
           /\ now \in Nat /\ 0..now \subseteq Times
<1>1. /\ now \in Times /\ StartTime <= now
      /\ key.bucket \in Buckets /\ key.days \in Presets[key.bucket]
  BY DEF TrendInv, TypeOK
<1>2. /\ StartTime \in Nat /\ DayLength \in Nat
      /\ Presets[key.bucket] \subseteq Nat /\ key.days * DayLength <= StartTime
  BY <1>1, TrendAssumption
<1>3. key.days * DayLength \in Nat
  BY <1>1, <1>2
<1>4. now \in Nat /\ 0..now \subseteq Times
  BY <1>1, LastTime
<1> QED
  BY <1>1, <1>2, <1>3, <1>4 DEF RangePresetToSince

\* The rows of a query are a series.
LEMMA QueryType ==
    ASSUME NEW b \in Buckets, NEW n \in Nat, NEW issued \in [1..n -> Times], NEW from
    PROVE  Series(GetIssuanceTrend(b, issued, from))
<1> DEFINE recent == {k \in 1..n : issued[k] >= from}
           in(t) == {k \in recent : DateTrunc(b, issued[k]) = t}
           counts == GetIssuanceTrend(b, issued, from)
<1>1. DOMAIN issued = 1..n
  OBVIOUS
<1>2. counts = [t \in {DateTrunc(b, issued[k]) : k \in recent} |-> Cardinality(in(t))]
  <2>1. counts = GroupBy(b, issued, from)
    BY DEF GetIssuanceTrend, TrendByDay, TrendByWeek, TrendByMonth, Buckets
  <2> QED
    BY <1>1, <2>1 DEF GroupBy
<1>3. \A t : Cardinality(in(t)) \in Nat
  <2> TAKE t
  <2>1. IsFiniteSet(1..n) /\ in(t) \subseteq 1..n
    BY FS_Interval
  <2> HIDE DEF in
  <2> QED
    BY <2>1, FS_Subset, FS_CardinalityType
<1>4. \A k \in recent : DateTrunc(b, issued[k]) \in Times
  <2> SUFFICES ASSUME NEW k \in recent
               PROVE  DateTrunc(b, issued[k]) \in Times
    OBVIOUS
  <2>1. issued[k] \in Nat /\ issued[k] <= Last /\ Last \in Nat
    BY LastTime
  <2>2. DateTrunc(b, issued[k]) \in 0..issued[k]
    BY <2>1, TruncateIsLast, CalendarsAgree
  <2> QED
    BY <2>1, <2>2, LastTime
<1> HIDE DEF counts, in, recent
<1> QED
  BY <1>2, <1>3, <1>4 DEF Series, counts

\* So are the points made of them.
LEMMA PointsType ==
    ASSUME key.bucket \in Buckets, NEW from \in Times, NEW until \in Times,
           NEW counts, Series(counts)
    PROVE  Series(Points(from, until, counts))
<1> DEFINE B == AlignedBuckets(key.bucket, from, until)
<1>1. B \subseteq Times
  <2>1. from \in Nat /\ until \in Nat /\ until <= Last /\ Last \in Nat
    BY LastTime
  <2>2. TruncateToBucket(key.bucket, until) \in 0..until
    BY <2>1, TruncateIsLast
  <2>3. StartTimes(key.bucket) \subseteq Nat
    BY DayOrder DEF StartTimes
  <2>4. \A s \in B : s \in Nat /\ s <= TruncateToBucket(key.bucket, until)
    BY <2>3, LoopVisits
  <2> HIDE DEF B
  <2> QED
    BY <2>1, <2>2, <2>4, LastTime
<1> HIDE DEF B
<1> QED
  BY <1>1 DEF Series, Points, ZeroFillTrend, B

\* Initially nothing is computed.
LEMMA TrendInit == Init => TrendInv
<1> SUFFICES ASSUME Init
             PROVE  TrendInv
  OBVIOUS
<1>1. /\ StartTime \in Nat /\ MaxTicks \in Nat /\ MaxChanges \in Nat /\ MaxFaults \in Nat
  BY TrendAssumption
<1>2. now = StartTime /\ now \in Times /\ 0 \in Times
  BY <1>1 DEF Init, Times
<1>3. certs \in [1..0 -> Times] /\ 0 \in 0..0
  BY DEF Init, Nothing
<1>4. Series(Nothing)
  BY DEF Series, Nothing
<1>5. key.bucket \in Buckets /\ key.days \in Presets[key.bucket]
  BY DEF Init
<1>6. changes = 0 /\ 0 \in 0..MaxChanges
  BY <1>1 DEF Init
<1>7. \E n \in 0..MaxChanges : certs \in [1..n -> Times]
  BY <1>3, <1>6
<1>8. /\ Series(cache) /\ pc \in [Procs -> {"idle", "query", "set"}]
      /\ since \in [Procs -> Times]
      /\ DOMAIN rows = Procs /\ \A p \in Procs : Series(rows[p])
      /\ task = "none" /\ faults = 0
  BY <1>2, <1>4 DEF Init
<1>9. TypeOK
  BY <1>1, <1>2, <1>5, <1>6, <1>7, <1>8 DEF TypeOK
<1> QED
  BY <1>1, <1>2, <1>3, <1>6, <1>9 DEF TrendInv

\* The count of faults stays within its bound.
LEMMA FaultType ==
    ASSUME TrendInv, Fault
    PROVE  faults' \in 0..MaxFaults
  BY TrendAssumption DEF TrendInv, TypeOK, Fault

\* A step that leaves the table, the clock and the key alone keeps what the
\* invariant says of them.
Kept == UNCHANGED <<certs, now, key, changes>>

LEMMA KeptInv ==
    ASSUME TrendInv, Kept, Series(cache'), faults' \in 0..MaxFaults,
           pc' \in [Procs -> {"idle", "query", "set"}], since' \in [Procs -> Times],
           DOMAIN rows' = Procs, \A p \in Procs : Series(rows'[p]),
           task' \in {"none", "pending", "active", "archived"}
    PROVE  TrendInv'
  BY DEF TrendInv, TypeOK, Kept, Series

\* A process that returns forgets its computation.
LEMMA FinishType ==
    ASSUME TrendInv, NEW p \in Procs, Finish(p)
    PROVE  /\ Kept /\ pc' \in [Procs -> {"idle", "query", "set"}]
           /\ since' \in [Procs -> Times]
           /\ DOMAIN rows' = Procs /\ \A q \in Procs : Series(rows'[q])
<1>1. 0 \in Times
  BY LastTime
<1>2. Series(Nothing)
  BY DEF Series, Nothing
<1> QED
  BY <1>1, <1>2 DEF TrendInv, TypeOK, Finish, Kept

\* A computation begins.
LEMMA BeginInv ==
    ASSUME TrendInv, NEW p \in Procs, Begin(p), faults' \in 0..MaxFaults,
           task' \in {"none", "pending", "active", "archived"}
    PROVE  TrendInv'
<1>1. RangePresetToSince(key, now) \in Times
  BY SinceType
<1>2. since' \in [Procs -> Times] /\ pc' \in [Procs -> {"idle", "query", "set"}]
  BY <1>1 DEF Begin, TrendInv, TypeOK
<1>3. /\ Kept /\ Series(cache')
      /\ DOMAIN rows' = Procs /\ \A q \in Procs : Series(rows'[q])
  BY DEF Begin, TrendInv, TypeOK, Kept
<1> QED
  BY <1>2, <1>3, KeptInv

\* The steps of a computation.
LEMMA ComputeInv ==
    ASSUME TrendInv, NEW p \in Procs,
           Query(p) \/ SetCache(p) \/ SetFails(p) \/ QueryFails(p)
    PROVE  TrendInv'
<1>1. /\ faults \in 0..MaxFaults /\ Series(cache) /\ now \in Times /\ since[p] \in Times
      /\ Series(rows[p]) /\ key.bucket \in Buckets
      /\ task \in {"none", "pending", "active", "archived"}
  BY DEF TrendInv, TypeOK
<1>2. CASE Query(p)
  <2> DEFINE counts == GetIssuanceTrend(key.bucket, certs, since[p])
  <2>1. Series(counts)
    <3>1. PICK n \in 0..MaxChanges : certs \in [1..n -> Times]
      BY DEF TrendInv, TypeOK
    <3>2. n \in Nat
      OBVIOUS
    <3> QED
      BY <1>1, <3>1, <3>2, QueryType
  <2>2. rows' = [rows EXCEPT ![p] = counts]
    BY <1>2 DEF Query
  <2> HIDE DEF counts
  <2>3. DOMAIN rows' = Procs /\ \A q \in Procs : Series(rows'[q])
    BY <2>1, <2>2 DEF TrendInv, TypeOK
  <2>4. /\ pc' \in [Procs -> {"idle", "query", "set"}] /\ Kept
        /\ UNCHANGED <<cache, since, task, faults>>
    BY <1>2 DEF Query, TrendInv, TypeOK, Kept
  <2>5. since' \in [Procs -> Times]
    BY <2>4 DEF TrendInv, TypeOK
  <2> QED
    BY <1>1, <2>3, <2>4, <2>5, KeptInv
<1>3. CASE SetCache(p)
  <2>1. /\ cache' = Points(since[p], now, rows[p]) /\ Finish(p)
        /\ faults' = faults \/ Fault
    BY <1>3 DEF SetCache
  <2>2. task' \in {"none", "pending", "active", "archived"}
    BY <1>1, <1>3 DEF SetCache, Completed, Failed
  <2>3. Series(cache')
    BY <1>1, <2>1, PointsType
  <2>4. faults' \in 0..MaxFaults
    BY <1>1, <2>1, FaultType
  <2> QED
    BY <2>1, <2>2, <2>3, <2>4, FinishType, KeptInv
<1>4. CASE SetFails(p)
  <2>1. Finish(p) /\ Fault /\ cache' = cache
    BY <1>4 DEF SetFails
  <2>2. task' \in {"none", "pending", "active", "archived"}
    BY <1>1, <1>4 DEF SetFails, Completed, Failed
  <2> QED
    BY <1>1, <2>1, <2>2, FaultType, FinishType, KeptInv
<1>5. CASE QueryFails(p)
  <2>1. Finish(p) /\ Fault /\ cache' = cache
    BY <1>5 DEF QueryFails
  <2>2. task' \in {"none", "pending", "active", "archived"}
    BY <1>1, <1>5 DEF QueryFails, Failed
  <2> QED
    BY <1>1, <2>1, <2>2, FaultType, FinishType, KeptInv
<1> QED
  BY <1>2, <1>3, <1>4, <1>5

\* The worker changes the table.
LEMMA TableInv ==
    ASSUME TrendInv, Upsert \/ DeleteFromBlock
    PROVE  TrendInv'
<1>1. PICK n \in 0..changes : certs \in [1..n -> Times]
  BY DEF TrendInv
<1>2. changes \in Nat /\ changes <= MaxChanges /\ MaxChanges \in Nat /\ n \in Nat
  BY <1>1, TrendAssumption DEF TrendInv, TypeOK
<1>3. DOMAIN certs = 1..n
  BY <1>1
<1>4. changes' = changes + 1 /\ changes' \in 0..MaxChanges
  BY <1>2 DEF Upsert, DeleteFromBlock, Change
<1>5. UNCHANGED <<now, key, cache, pc, since, rows>>
  BY DEF Upsert, DeleteFromBlock
<1>6. \E m \in 0..changes' : certs' \in [1..m -> Times]
  <2>1. CASE Upsert
    <3>1. Cardinality(1..n) = n
      BY <1>2, FS_Interval
    <3>2. PICK k \in 1..(n + 1), t \in Times :
            certs' = [i \in 1..n \cup {k} |-> IF i = k THEN t ELSE certs[i]]
      BY <1>3, <2>1, <3>1 DEF Upsert
    <3>3. certs' \in [1..n \cup {k} -> Times]
      BY <1>1, <3>2
    <3>4. 1..n \cup {k} = 1..n \/ 1..n \cup {k} = 1..(n + 1)
      BY <1>2
    <3>5. n \in 0..changes' /\ n + 1 \in 0..changes'
      BY <1>1, <1>2, <1>4
    <3> QED
      BY <3>3, <3>4, <3>5
  <2>2. CASE DeleteFromBlock
    <3>1. PICK m \in 1..n : certs' = [k \in 1..(m - 1) |-> certs[k]]
      BY <1>3, <2>2 DEF DeleteFromBlock
    <3>2. certs' \in [1..(m - 1) -> Times]
      BY <1>1, <1>2, <3>1
    <3>3. m - 1 \in 0..changes'
      BY <1>1, <1>2, <1>4, <3>1
    <3> QED
      BY <3>2, <3>3
  <2> QED
    BY <2>1, <2>2
<1>7. \E m \in 0..MaxChanges : certs' \in [1..m -> Times]
  <2>1. 0..changes' \subseteq 0..MaxChanges
    BY <1>2, <1>4
  <2> QED
    BY <1>6, <2>1
<1>8. faults' \in 0..MaxFaults /\ task' \in {"none", "pending", "active", "archived"}
  <2>1. CASE faults' = faults
    BY <2>1 DEF TrendInv, TypeOK, Upsert, DeleteFromBlock, EnqueueUnique
  <2>2. CASE Fault /\ task' = task
    BY <2>2, FaultType DEF TrendInv, TypeOK
  <2> QED
    BY <2>1, <2>2 DEF Upsert, DeleteFromBlock
<1>9. TypeOK'
  BY <1>4, <1>5, <1>7, <1>8 DEF TrendInv, TypeOK, Series
<1> QED
  BY <1>5, <1>6, <1>9 DEF TrendInv

\* Every step keeps the invariant.
LEMMA TrendStep == TrendInv /\ [Next]_vars => TrendInv'
<1> SUFFICES ASSUME TrendInv, [Next]_vars
             PROVE  TrendInv'
  OBVIOUS
<1>1. /\ faults \in 0..MaxFaults /\ Series(cache)
      /\ task \in {"none", "pending", "active", "archived"}
      /\ {"request", "task", "cron"} \subseteq Procs
  BY DEF TrendInv, TypeOK, Procs
<1>2. CASE GetTrend
  <2>1. Begin("request") /\ task' = task /\ (faults' = faults \/ Fault)
    BY <1>2 DEF GetTrend
  <2> QED
    BY <1>1, <2>1, FaultType, BeginInv
<1>3. CASE RunTask
  BY <1>1, <1>3, BeginInv DEF RunTask
<1>4. CASE RunCron
  BY <1>1, <1>4, BeginInv DEF RunCron
<1>5. CASE \E p \in Procs : Query(p) \/ SetCache(p) \/ SetFails(p) \/ QueryFails(p)
  BY <1>5, ComputeInv
<1>6. CASE Upsert \/ DeleteFromBlock
  BY <1>6, TableInv
<1>7. CASE Expire
  <2>1. Series(Nothing)
    BY DEF Series, Nothing
  <2> QED
    BY <1>7, <2>1, KeptInv DEF Expire, TrendInv, TypeOK, Kept
<1>8. CASE Crash
  <2>1. Series(Nothing) /\ 0 \in Times
    BY LastTime DEF Series, Nothing
  <2>2. /\ Kept /\ Fault /\ cache' = cache
        /\ pc' = [p \in Procs |-> "idle"] /\ since' = [p \in Procs |-> 0]
        /\ rows' = [p \in Procs |-> Nothing]
        /\ task' \in {"none", "pending", "active", "archived"}
    BY <1>1, <1>8 DEF Crash, Kept
  <2>3. /\ pc' \in [Procs -> {"idle", "query", "set"}] /\ since' \in [Procs -> Times]
        /\ DOMAIN rows' = Procs /\ \A q \in Procs : Series(rows'[q])
    BY <2>1, <2>2
  <2> QED
    BY <1>1, <2>2, <2>3, FaultType, KeptInv
<1>9. CASE Tick
  <2>1. now' \in Times /\ StartTime <= now'
    BY <1>9, TrendAssumption DEF Tick, TrendInv, TypeOK, Times
  <2> QED
    BY <1>9, <2>1 DEF Tick, TrendInv, TypeOK, Series
<1>10. CASE UNCHANGED vars
  BY <1>10 DEF vars, TrendInv, TypeOK, Series
<1> QED
  BY <1>2, <1>3, <1>4, <1>5, <1>6, <1>7, <1>8, <1>9, <1>10 DEF Next

\* The invariant holds in every reachable state.
LEMMA TrendInvariant == Spec => []TrendInv
  BY TrendInit, TrendStep, PTL DEF Spec

-----------------------------------------------------------------------------
\* Whatever computations race and fail, the cache and every query hold series
\* of times and counts, and no computation reaches before the epoch.
THEOREM TrendTypeCorrect == Spec => []TypeOK
<1>1. TrendInv => TypeOK
  BY DEF TrendInv
<1> QED
  BY TrendInvariant, <1>1, PTL

\* Whatever the table, the preset and the clock, a computation gives the
\* buckets of exactly the moments of its range, a midnight between the query
\* and the zero filling included, and each counts the certificates of its
\* period: the loop over the buckets leaves none out and adds none.
THEOREM SeriesIsExact == Spec => []SeriesExact
<1>1. TrendInv => SeriesExact
  <2> SUFFICES ASSUME TrendInv, NEW to \in now..(StartTime + MaxTicks)
               PROVE  LET from == RangePresetToSince(key, now)
                          points == Points(from, to,
                                        GetIssuanceTrend(key.bucket, certs, from))
                          trunc(t) == DateTrunc(key.bucket, t)
                      IN  /\ DOMAIN points = {trunc(t) : t \in from..to}
                          /\ \A t \in DOMAIN points :
                                points[t] = Cardinality({k \in DOMAIN certs :
                                    certs[k] >= from /\ trunc(certs[k]) = t})
    BY DEF SeriesExact
  <2> DEFINE b == key.bucket
             from == RangePresetToSince(key, now)
             expected == AlignedBuckets(b, from, to)
             counts == GetIssuanceTrend(b, certs, from)
             points == Points(from, to, counts)
  <2>1. /\ b \in Buckets /\ from \in Times /\ to \in Times /\ from <= to
    <3>1. b \in Buckets /\ from \in 0..now /\ now \in Nat /\ 0..now \subseteq Times
      BY SinceType DEF TrendInv, TypeOK
    <3>2. to \in Times /\ now <= to
      BY <3>1, LastTime DEF Last
    <3> QED
      BY <3>1, <3>2, LastTime
  <2>2. points = ZeroFillTrend(expected, counts)
    BY DEF Points
  <2>3. DOMAIN points = expected
    BY <2>2 DEF ZeroFillTrend
  <2>4. expected = {DateTrunc(b, t) : t \in from..to}
    <3> HIDE DEF from, b
    <3> QED
      BY <2>1, BucketsOfRange
  <2>5. \A k \in DOMAIN certs : certs[k] \in Nat
    BY LastTime DEF TrendInv, TypeOK
  <2>6. \A t \in expected : points[t] =
            Cardinality({k \in DOMAIN certs :
                certs[k] >= from /\ TruncateToBucket(b, certs[k]) = t})
    <3> HIDE DEF from, b, expected
    <3> QED
      BY <2>1, <2>2, <2>5, PointsCount
  <2>7. \A t : {k \in DOMAIN certs :
                    certs[k] >= from /\ TruncateToBucket(b, certs[k]) = t}
                = {k \in DOMAIN certs : certs[k] >= from /\ DateTrunc(b, certs[k]) = t}
    <3> HIDE DEF from, b
    <3> QED
      BY <2>1, <2>5, CalendarsAgree
  <2> HIDE DEF from, b, expected, counts, points
  <2>8. \A t \in DOMAIN points : points[t] =
            Cardinality({k \in DOMAIN certs :
                certs[k] >= from /\ DateTrunc(b, certs[k]) = t})
    BY <2>3, <2>6, <2>7
  <2> QED
    BY <2>3, <2>4, <2>8 DEF from, b, expected, counts, points
<1> QED
  BY TrendInvariant, <1>1, PTL
=============================================================================
