---------------------------- MODULE InputProofs -----------------------------
(***************************************************************************)
(* Proofs about what is read from outside: the instants of observation.cpp,  *)
(* for every clock, every base and every day; the byte arithmetic of UTF-8   *)
(* that json.cpp and xml.cpp do, for every sequence of bytes and every code  *)
(* point; the fetches of the adapters, for every source, answer and document; *)
(* the reading of a table, for every text and limit; what json_escape writes  *)
(* of a text that was read; and the tree and the refusals of the XML parser,  *)
(* for every document and limit.  A run samples them.                         *)
(***************************************************************************)
EXTENDS Calendar, Retrieval, TLAPS, FiniteSetTheorems, SequenceTheorems,
        WellFoundedInduction

-----------------------------------------------------------------------------
(* Day numbers.                                                             *)

(* The branch on the sign makes the division that rounds to zero one that floors. *)
LEMMA EraIsFloor ==
    ASSUME NEW n \in Int
    PROVE  EraOf(n, 400) = n \div 400 /\ EraOf(n, 146097) = n \div 146097
  BY SMT DEF EraOf, Quot

(* The leap years up to y, the months from March, the first day of a month in a *)
(* year that begins in March, and that year: a day number in closed form.     *)
Leaps(y) == y \div 4 - y \div 100 + y \div 400
Month(m) == IF m > 2 THEN m - 3 ELSE m + 9
MonthStart(p) == (153 * p + 2) \div 5
Marched(y, m) == IF m <= 2 THEN y - 1 ELSE y
Number(y, m, d) ==
    365 * Marched(y, m) + Leaps(Marched(y, m)) + MonthStart(Month(m)) + d - 719469

(* Eras, years of an era and days of a year add up to the closed form. *)
LEMMA DayNumber ==
    ASSUME NEW year \in Int, NEW m \in 1..12, NEW d \in Int
    PROVE  days_from_civil(year, m, d) = Number(year, m, d)
  <1> DEFINE y == Marched(year, m)
             era == y \div 400
             yoe == y - era * 400
  <1>1. y = (IF m <= 2 THEN year - 1 ELSE year) /\ y \in Int
    BY SMT DEF Marched
  <1> HIDE DEF y
  <1>2. era \in Int /\ yoe \in 0..399
    BY <1>1, SMT
  <1>3. EraOf(y, 400) = era
    BY <1>1, EraIsFloor, SMT
  <1>4. days_from_civil(year, m, d)
          = era * 146097 + (yoe * 365 + yoe \div 4 - yoe \div 100
              + (MonthStart(Month(m)) + d - 1)) - 719468
    <2>1. CASE m <= 2
      <3>1. y = year - 1 /\ ~(m > 2) /\ EraOf(year - 1, 400) = era
        BY <1>1, <1>3, <2>1, SMT
      <3> HIDE DEF era
      <3> QED
        BY <2>1, <3>1, SMT DEF days_from_civil, MonthStart, Month
    <2>2. CASE ~(m <= 2)
      BY <1>1, <1>3, <2>2, SMT DEF days_from_civil, MonthStart, Month
    <2> QED
      BY <2>1, <2>2
  <1>5. yoe \div 4 - yoe \div 100 + 97 * era = Leaps(y)
      BY <1>1, <1>2, SMT DEF Leaps
  <1>6. MonthStart(Month(m)) \in Int /\ Leaps(y) \in Int
    BY <1>1, SMT DEF MonthStart, Month, Leaps
  <1> QED
    BY <1>1, <1>2, <1>4, <1>5, <1>6, SMT DEF Number, y

(* Induction over the naturals, as the least counterexample. *)
LEMMA LeastNatural ==
    ASSUME NEW T, T \subseteq Nat, T # {}
    PROVE  \E x \in T : \A y \in T : x <= y
  <1> DEFINE R == {ss \in Nat \X Nat : ss[1] < ss[2]}
  <1>1. IsWellFoundedOn(R, Nat)
    BY NatLessThanWellFounded DEF OpToRel
  <1>2. \A x, y \in Nat : y < x => <<y, x>> \in R
    BY SMT
  <1> HIDE DEF R
  <1>3. PICK x \in T : \A y \in T : ~(<<y, x>> \in R)
    BY <1>1, WFMin
  <1>4. \A y \in T : ~(y < x)
    BY <1>2, <1>3
  <1> QED
    BY <1>3, <1>4, SMT

(* The leap rule, summed: what the closed form counts are the leap years. *)
LEMMA LeapsCounted ==
    ASSUME NEW a \in Int, NEW b \in Int, a <= b + 1
    PROVE  Cardinality({l \in a..b : Leap(l)}) = Leaps(b) - Leaps(a - 1)
  <1> DEFINE LeapYears(k) == {l \in a..(a + k - 1) : Leap(l)}
             Counts(k) == /\ IsFiniteSet(LeapYears(k))
                          /\ Cardinality(LeapYears(k)) = Leaps(a + k - 1) - Leaps(a - 1)
             T == {k \in Nat : ~Counts(k)}
  <1>1. Counts(0)
    <2>1. LeapYears(0) = {}
      BY SMT
    <2>2. a + 0 - 1 = a - 1 /\ Leaps(a - 1) - Leaps(a - 1) = 0
      BY SMT DEF Leaps
    <2> HIDE DEF LeapYears
    <2> QED
      BY <2>1, <2>2, FS_EmptySet
  <1>2. ASSUME NEW k \in Nat, Counts(k) PROVE Counts(k + 1)
    <2> DEFINE y == a + k
    <2>1. y \in Int /\ a + (k + 1) - 1 = y /\ a + k - 1 = y - 1
      BY SMT
    <2>2. /\ LeapYears(k + 1) = IF Leap(y) THEN LeapYears(k) \cup {y} ELSE LeapYears(k)
          /\ y \notin LeapYears(k)
      <3>1. a..y = (a..(y - 1)) \cup {y} /\ y \notin a..(y - 1)
        BY SMT
      <3> HIDE DEF y
      <3> QED
        BY <2>1, <3>1
    <2>3. Leaps(y) = IF Leap(y) THEN Leaps(y - 1) + 1 ELSE Leaps(y - 1)
      <3> HIDE DEF y
      <3> QED
        BY <2>1, SMT DEF Leaps, Leap
    <2>4. Leaps(y - 1) \in Int /\ Leaps(a - 1) \in Int
      BY SMT DEF Leaps
    <2> HIDE DEF y, LeapYears
    <2>5. /\ IsFiniteSet(LeapYears(k)) 
          /\ Cardinality(LeapYears(k)) = Leaps(y - 1) - Leaps(a - 1)
      BY <1>2, <2>1, SMT
    <2>6. CASE Leap(y)
      <3>1. /\ IsFiniteSet(LeapYears(k) \cup {y})
            /\ Cardinality(LeapYears(k) \cup {y}) = Cardinality(LeapYears(k)) + 1
        BY <2>2, <2>5, FS_AddElement
      <3> QED
        BY <2>1, <2>2, <2>3, <2>4, <2>5, <2>6, <3>1, SMT
    <2>7. CASE ~Leap(y)
      BY <2>1, <2>2, <2>3, <2>5, <2>7, SMT
    <2> QED
      BY <2>6, <2>7
  <1> HIDE DEF Counts
  <1>3. \A k \in Nat : Counts(k)
    <2> SUFFICES ASSUME T # {} PROVE FALSE
      OBVIOUS
    <2>1. T \subseteq Nat
      OBVIOUS
    <2> HIDE DEF T
    <2>2. PICK x \in T : \A y \in T : x <= y
      BY <2>1, LeastNatural
    <2> USE DEF T
    <2>3. x \in Nat /\ ~Counts(x)
      BY <2>2
    <2>4. x # 0
      BY <1>1, <2>3
    <2>5. x - 1 \in Nat /\ ~(x <= x - 1) /\ (x - 1) + 1 = x
      BY <2>3, <2>4, SMT
    <2>6. Counts(x - 1)
      BY <2>2, <2>5
    <2> QED
      BY <1>2, <2>3, <2>5, <2>6
  <1> DEFINE n == b - a + 1
  <1>4. n \in Nat /\ a + n - 1 = b
    BY SMT
  <1>5. Counts(n)
    BY <1>3, <1>4
  <1> HIDE DEF n
  <1> QED
    BY <1>4, <1>5 DEF Counts

(* The reference calendar counts the same days to the start of a year. *)
LEMMA NewYearIsDay ==
    ASSUME NEW y \in Int
    PROVE  NewYear(y) = days_from_civil(y, 1, 1)
  <1>1. y - 1 \in Int /\ MonthStart(Month(1)) = 306
    BY SMT DEF MonthStart, Month
  <1>2. days_from_civil(y, 1, 1) = 365 * (y - 1) + Leaps(y - 1) + 306 + 1 - 719469
    BY <1>1, DayNumber, SMT DEF Number, Marched
  <1>3. Leaps(1969) = 477
    BY SMT DEF Leaps
  <1>4. Leaps(y - 1) \in Int
    BY SMT DEF Leaps
  <1>5. CASE y >= 1970
    <2>1. Cardinality({l \in 1970..(y - 1) : Leap(l)}) = Leaps(y - 1) - Leaps(1970 - 1)
      BY <1>5, LeapsCounted, SMT
    <2>2. Cardinality({l \in y..1969 : Leap(l)}) = 0
      <3>1. {l \in y..1969 : Leap(l)} = {}
        BY <1>5, SMT
      <3> QED
        BY <3>1, FS_EmptySet
    <2> QED
      BY <1>2, <1>3, <1>4, <2>1, <2>2, SMT DEF NewYear
  <1>6. CASE ~(y >= 1970)
    <2>1. Cardinality({l \in y..1969 : Leap(l)}) = Leaps(1969) - Leaps(y - 1)
      BY <1>6, LeapsCounted, SMT
    <2>2. Cardinality({l \in 1970..(y - 1) : Leap(l)}) = 0
      <3>1. {l \in 1970..(y - 1) : Leap(l)} = {}
        BY <1>6, SMT
      <3> QED
        BY <3>1, FS_EmptySet
    <2> QED
      BY <1>2, <1>3, <1>4, <2>1, <2>2, SMT DEF NewYear
  <1> QED
    BY <1>5, <1>6

(* The day of an era that is day doy of its year yoe.                        *)
DayOfEra(yoe, doy) == yoe * 365 + yoe \div 4 - yoe \div 100 + doy

(* A year of an era and a day of it: the 366th day is there in leap years.   *)
InEra(yoe, doy) ==
    /\ yoe \in 0..399 /\ doy \in 0..365
    /\ doy = 365 => (yoe + 1) % 4 = 0 /\ ((yoe + 1) % 100 # 0 \/ yoe = 399)

(* The division of YearOfEra, with its three corrections, finds the year, on *)
(* the last day of a leap year, of a century and of the era too. *)
LEMMA YearOfEraIsYear ==
    ASSUME NEW yoe, NEW doy, InEra(yoe, doy)
    PROVE  /\ 0 <= DayOfEra(yoe, doy) /\ DayOfEra(yoe, doy) <= 146096
           /\ YearOfEra(DayOfEra(yoe, doy)) = yoe
  <1> DEFINE doe == DayOfEra(yoe, doy)
             c == yoe \div 100
             q == (yoe - 100 * c) \div 4
             r == yoe - 100 * c - 4 * q
             last == c = 3 /\ q = 24 /\ r = 3 /\ doy = 365
  <1>1. /\ yoe \in Int /\ 0 <= yoe /\ yoe <= 399 /\ doy \in Int /\ 0 <= doy /\ doy <= 365
        /\ doy = 365 => (yoe + 1) % 4 = 0 /\ ((yoe + 1) % 100 # 0 \/ yoe = 399)
    BY SMT DEF InEra
  <1>2. /\ c \in Int /\ q \in Int /\ r \in Int
        /\ 0 <= c /\ c <= 3 /\ 0 <= q /\ q <= 24 /\ 0 <= r /\ r <= 3
        /\ yoe = 100 * c + 4 * q + r
    BY <1>1, SMT
  <1>3. doe = 36524 * c + 1461 * q + 365 * r + doy
    BY <1>1, <1>2, SMT DEF DayOfEra
  <1>4. doy = 365 => r = 3 /\ (q # 24 \/ c = 3)
    BY <1>1, <1>2, SMT
  <1> HIDE DEF c, q, r, doe
  <1>5. doe \in Int
    BY <1>1, <1>2, <1>3, SMT
  <1>6. 0 <= doe /\ doe <= 146096
    BY <1>1, <1>2, <1>3, SMT
  <1>7. doe \div 146096 = IF last THEN 1 ELSE 0
    BY <1>1, <1>2, <1>3, <1>4, SMT
  <1>8. doe \div 36524 = IF last THEN 4 ELSE c
    BY <1>1, <1>2, <1>3, <1>4, SMT
  <1>9. doe \div 1460 = IF 24 * c + q + 365 * r + doy >= 1460 THEN 25 * c + q + 1
                                                            ELSE 25 * c + q
    BY <1>1, <1>2, <1>3, <1>4, SMT
  <1>10. PICK e \in {0, 1} : /\ doe - doe \div 1460 + doe \div 36524 - doe \div 146096
                               = 365 * yoe + (doy - e)
                            /\ 0 <= doy - e /\ doy - e <= 364
    BY <1>1, <1>2, <1>3, <1>4, <1>6, <1>7, <1>8, <1>9, SMT
  <1> QED
    <2>1. YearOfEra(doe) = yoe
      BY <1>1, <1>10, <1>5, SMT DEF YearOfEra
    <2> QED
      BY <1>6, <2>1 DEF doe

(* A date of the calendar, and its day number.                              *)
Dated(c) == c \in Int \X (1..12) \X (1..31) /\ c[3] <= DaysIn(c[1], c[2])
DayOf(c) == days_from_civil(c[1], c[2], c[3])

(* The day after is the number after, at the end of months and years too. *)
LEMMA TomorrowIsNext ==
    ASSUME NEW c, Dated(c)
    PROVE  Dated(Tomorrow(c)) /\ DayOf(Tomorrow(c)) = DayOf(c) + 1
  <1> DEFINE y == c[1]
             m == c[2]
             d == c[3]
  <1>1. y \in Int /\ m \in 1..12 /\ d \in 1..31 /\ d <= DaysIn(y, m)
    BY SMT DEF Dated
  <1> HIDE DEF y, m, d
  <1>2. DaysIn(y, m) \in 28..31
    BY <1>1, SMT DEF DaysIn
  <1>3. \A n \in Int, k \in 1..12, l \in Int : days_from_civil(n, k, l) = Number(n, k, l)
    BY DayNumber
  <1> USE DEF Number, Marched
  <1>4. CASE d < DaysIn(y, m)
    <2>1. Tomorrow(c) = <<y, m, d + 1>>
      BY <1>4 DEF Tomorrow, y, m, d
    <2>2. days_from_civil(y, m, d + 1) = days_from_civil(y, m, d) + 1
      <3>1. /\ Leaps(Marched(y, m)) \in Int /\ MonthStart(Month(m)) \in Int
            /\ Marched(y, m) \in Int
        BY <1>1, SMT DEF Leaps, MonthStart, Month
      <3>2. Number(y, m, d + 1) = Number(y, m, d) + 1
        <4> HIDE DEF Marched
        <4> QED
          BY <1>1, <3>1, SMT
      <3> HIDE DEF Number
      <3> QED
        BY <1>1, <1>3, <3>2, SMT
    <2>3. d + 1 \in 1..31 /\ d + 1 <= DaysIn(y, m)
      BY <1>1, <1>2, <1>4, SMT
    <2> QED
      BY <1>1, <2>1, <2>2, <2>3, SMT DEF Dated, DayOf, y, m, d
  <1>5. CASE ~(d < DaysIn(y, m)) /\ m < 12
    <2>1. Tomorrow(c) = <<y, m + 1, 1>>
      BY <1>5 DEF Tomorrow, y, m, d
    <2>2. d = DaysIn(y, m) /\ m + 1 \in 1..12
      BY <1>1, <1>2, <1>5, SMT
    <2>3. days_from_civil(y, m + 1, 1) = days_from_civil(y, m, d) + 1
      <3>1. Number(y, m + 1, 1) = Number(y, m, DaysIn(y, m)) + 1
        <4>1. CASE m = 2
          <5>1. Leaps(y) = Leaps(y - 1) + (IF Leap(y) THEN 1 ELSE 0)
            BY <1>1, SMT DEF Leaps, Leap
          <5>2. Leaps(y - 1) \in Int
            BY <1>1, SMT DEF Leaps
          <5>3. DaysIn(y, 2) = IF Leap(y) THEN 29 ELSE 28
            BY SMT DEF DaysIn
          <5>4. MonthStart(Month(3)) = 0 /\ MonthStart(Month(2)) = 337
            BY SMT DEF MonthStart, Month
          <5> QED
            BY <1>1, <4>1, <5>1, <5>2, <5>3, <5>4, SMT
        <4>2. CASE m # 2
          <5>1. MonthStart(Month(m + 1)) = MonthStart(Month(m)) + DaysIn(y, m)
            BY <1>1, <2>2, <4>2, SMT DEF MonthStart, Month, DaysIn
          <5>2. Marched(y, m + 1) = Marched(y, m)
            BY <1>1, <4>2, SMT
          <5>3. /\ Leaps(Marched(y, m)) \in Int /\ MonthStart(Month(m)) \in Int
                /\ Marched(y, m) \in Int
            BY <1>1, SMT DEF Leaps, MonthStart, Month
          <5> QED
            BY <1>1, <1>2, <5>1, <5>2, <5>3, SMT
        <4> QED
          BY <4>1, <4>2
      <3>2. /\ days_from_civil(y, m + 1, 1) = Number(y, m + 1, 1)
            /\ days_from_civil(y, m, d) = Number(y, m, d)
        <4> HIDE DEF Number, Marched
        <4> QED
          BY <1>1, <1>3, <2>2, SMT
      <3> HIDE DEF Number
      <3> QED
        BY <2>2, <3>1, <3>2, SMT
    <2>4. 1 <= DaysIn(y, m + 1)
      BY <2>2, SMT DEF DaysIn
    <2> QED
      BY <1>1, <2>1, <2>2, <2>3, <2>4, SMT DEF Dated, DayOf, y, m, d
  <1>6. CASE ~(d < DaysIn(y, m)) /\ ~(m < 12)
    <2>1. Tomorrow(c) = <<y + 1, 1, 1>>
      BY <1>6 DEF Tomorrow, y, m, d
    <2>2. d = 31 /\ m = 12 /\ y + 1 \in Int
      BY <1>1, <1>2, <1>6, SMT DEF DaysIn
    <2>3. days_from_civil(y + 1, 1, 1) = days_from_civil(y, m, d) + 1
      <3>1. MonthStart(Month(1)) = 306 /\ MonthStart(Month(12)) = 275
        BY SMT DEF MonthStart, Month
      <3>2. Marched(y + 1, 1) = y /\ Marched(y, 12) = y /\ Leaps(y) \in Int
        BY <1>1, SMT DEF Leaps
      <3>3. /\ days_from_civil(y + 1, 1, 1) = Number(y + 1, 1, 1)
            /\ days_from_civil(y, 12, 31) = Number(y, 12, 31)
        BY <1>1, <1>3, <2>2, SMT
      <3> QED
        BY <1>1, <2>2, <3>1, <3>2, <3>3, SMT
    <2>4. 1 <= DaysIn(y + 1, 1)
      BY SMT DEF DaysIn
    <2> QED
      BY <1>1, <2>1, <2>2, <2>3, <2>4, SMT DEF Dated, DayOf, y, m, d
  <1> QED
    BY <1>4, <1>5, <1>6

(* A date is what civil_from_days gives for its number. *)
LEMMA CivilOfDay ==
    ASSUME NEW year \in Int, NEW m \in 1..12, NEW d \in 1..31, d <= DaysIn(year, m)
    PROVE  civil_from_days(days_from_civil(year, m, d)) = <<year, m, d>>
  <1> DEFINE y == IF m <= 2 THEN year - 1 ELSE year
             p == Month(m)
             era == y \div 400
             yoe == y - era * 400
             doy == MonthStart(p) + d - 1
             doe == yoe * 365 + yoe \div 4 - yoe \div 100 + doy
             n == days_from_civil(year, m, d)
  <1>1. /\ y \in Int /\ era \in Int /\ yoe \in Int /\ 0 <= yoe /\ yoe <= 399
        /\ p \in 0..11 /\ m = IF p < 10 THEN p + 3 ELSE p - 9
        /\ year = IF m <= 2 THEN y + 1 ELSE y
    BY SMT DEF Month
  <1>2. y = Marched(year, m)
    BY DEF Marched
  <1>3. /\ p \in {1, 3, 6, 8} => d <= 30
        /\ p = 11 => d <= 29
        /\ p = 11 /\ d = 29 => Leap(y + 1)
    BY <1>1, SMT DEF DaysIn, Month
  <1>4. n = 365 * y + Leaps(y) + doy - 719468
    <2> HIDE DEF y
    <2>1. days_from_civil(year, m, d)
                 = 365 * y + Leaps(y) + MonthStart(Month(m)) + d - 719469
      <3>1. days_from_civil(year, m, d) = Number(year, m, d)
        BY DayNumber, SMT
      <3> QED
        BY <1>2, <3>1 DEF Number
    <2>2. Leaps(y) \in Int /\ MonthStart(Month(m)) \in Int
      BY <1>1, SMT DEF Leaps, MonthStart, Month
    <2> QED
      BY <1>1, <2>1, <2>2, SMT
  <1> HIDE DEF y, p
  <1>5. doy \in 0..365 /\ (5 * doy + 2) \div 153 = p
    BY <1>1, <1>3, SMT DEF MonthStart
  <1>6. doy = 365 => (yoe + 1) % 4 = 0 /\ ((yoe + 1) % 100 # 0 \/ yoe = 399)
    <2>1. doy = 365 => p = 11 /\ d = 29
      BY <1>1, SMT DEF MonthStart
    <2>2. Leap(y + 1) => (yoe + 1) % 4 = 0 /\ ((yoe + 1) % 100 # 0 \/ yoe = 399)
      BY <1>1, SMT DEF Leap
    <2> QED
      BY <1>3, <2>1, <2>2
  <1>7. n + 719468 = era * 146097 + doe
    <2>1. yoe \div 4 - yoe \div 100 + 97 * era = Leaps(y) /\ Leaps(y) \in Int
      BY <1>1, SMT DEF Leaps
    <2> HIDE DEF n
    <2> QED
      BY <1>1, <1>4, <1>5, <2>1, SMT
  <1> HIDE DEF n, doy
  <1>8. doe \in Int
    BY <1>1, <1>5, SMT
  <1>9. 0 <= doe /\ doe <= 146096 /\ YearOfEra(doe) = yoe
    <2>1. InEra(yoe, doy)
      BY <1>1, <1>5, <1>6, SMT DEF InEra
    <2> HIDE DEF yoe, era
    <2>2. /\ 0 <= DayOfEra(yoe, doy) /\ DayOfEra(yoe, doy) <= 146096
          /\ YearOfEra(DayOfEra(yoe, doy)) = yoe
      BY <2>1, YearOfEraIsYear
    <2>3. doe = DayOfEra(yoe, doy)
      BY DEF DayOfEra
    <2> HIDE DEF doe
    <2> QED
      BY <1>8, <2>2, <2>3, SMT
  <1> DEFINE z == n + 719468
  <1>10. z \in Int /\ EraOf(z, 146097) = era
    <2>1. z \in Int /\ z = era * 146097 + doe
      BY <1>1, <1>7, <1>8, SMT
    <2> HIDE DEF z, doe, era
    <2>2. z \div 146097 = era
      BY <1>1, <1>8, <1>9, <2>1, SMT
    <2> QED
      BY <2>1, <2>2, EraIsFloor, SMT
  <1>11. z - era * 146097 = doe
    BY <1>1, <1>7, <1>8, SMT
  <1>12. doe - (365 * yoe + yoe \div 4 - yoe \div 100) = doy
    BY <1>1, <1>5, SMT
  <1>13. doy - (153 * p + 2) \div 5 + 1 = d
    BY <1>1, SMT DEF doy, MonthStart
  <1>14. yoe + era * 400 = y
    BY <1>1, SMT
  <1>15. YearOfEra(z - EraOf(z, 146097) * 146097) = yoe
    BY <1>9, <1>10, <1>11
  <1> HIDE DEF z, doe, yoe, era
  <1>16. civil_from_days(n) =
           LET k == IF p < 10 THEN p + 3 ELSE p - 9
           IN  <<IF k <= 2 THEN y + 1 ELSE y, k, d>>
    BY <1>5, <1>10, <1>11, <1>12, <1>13, <1>14, <1>15, SMT DEF civil_from_days, z
  <1> QED
    BY <1>1, <1>16, SMT DEF n

(* Every number is that of some date: so civil_from_days always gives a date. *)
LEMMA DatedDay ==
    ASSUME NEW n \in Int
    PROVE  \E c : Dated(c) /\ DayOf(c) = n
  <1> DEFINE z == n + 719468
             era == z \div 146097
             doe == z - era * 146097
             cc == IF doe \div 36524 = 4 THEN 3 ELSE doe \div 36524
             q == (doe - 36524 * cc) \div 1461
             rr == (doe - 36524 * cc - 1461 * q) \div 365
             r == IF rr = 4 THEN 3 ELSE rr
             doy == doe - 36524 * cc - 1461 * q - 365 * r
             p == (5 * doy + 2) \div 153
             d == doy - MonthStart(p) + 1
             m == IF p < 10 THEN p + 3 ELSE p - 9
             y == 400 * era + 100 * cc + 4 * q + r
             year == IF m <= 2 THEN y + 1 ELSE y
  <1>1. era \in Int /\ doe \in Int /\ 0 <= doe /\ doe <= 146096
        /\ n = 146097 * era + doe - 719468
    BY SMT
  <1> HIDE DEF era, doe
  <1>2. cc \in Int /\ 0 <= cc /\ cc <= 3 /\ doe - 36524 * cc \in Int
        /\ 0 <= doe - 36524 * cc /\ doe - 36524 * cc <= 36524
        /\ (cc < 3 => doe - 36524 * cc <= 36523)
    BY <1>1, SMT
  <1> HIDE DEF cc
  <1>3. q \in Int /\ 0 <= q /\ q <= 24 /\ doe - 36524 * cc - 1461 * q \in Int
        /\ 0 <= doe - 36524 * cc - 1461 * q /\ doe - 36524 * cc - 1461 * q <= 1460
        /\ (cc < 3 /\ q = 24 => doe - 36524 * cc - 1461 * q <= 1459)
    BY <1>1, <1>2, SMT
  <1> HIDE DEF q
  <1>4. r \in Int /\ 0 <= r /\ r <= 3 /\ doy \in Int /\ 0 <= doy /\ doy <= 365
        /\ (doy = 365 => r = 3 /\ (q # 24 \/ cc = 3))
        /\ doe = 36524 * cc + 1461 * q + 365 * r + doy
    BY <1>1, <1>2, <1>3, SMT
  <1> HIDE DEF r, doy
  <1>5. p \in 0..11 /\ d \in 1..31 /\ (p \in {1, 3, 6, 8} => d <= 30)
        /\ (p = 11 => d <= 29) /\ (p = 11 /\ d = 29 => doy = 365)
        /\ doy = MonthStart(p) + d - 1
    BY <1>4, SMT DEF MonthStart
  <1> HIDE DEF p, d
  <1>6. m \in 1..12 /\ Month(m) = p
    BY <1>5, SMT DEF Month
  <1>7. y \in Int /\ Marched(year, m) = y /\ year \in Int
    BY <1>1, <1>2, <1>3, <1>4, <1>6, SMT DEF Marched
  <1>8. doy = 365 => Leap(y + 1)
    BY <1>1, <1>2, <1>3, <1>4, SMT DEF Leap
  <1>9. Leaps(y) = 97 * era + 24 * cc + q
    BY <1>1, <1>2, <1>3, <1>4, SMT DEF Leaps
  <1>10. d <= DaysIn(year, m)
    BY <1>5, <1>6, <1>7, <1>8, SMT DEF DaysIn, Month
  <1>11. y = 400 * era + 100 * cc + 4 * q + r
    OBVIOUS
  <1> HIDE DEF y, m, year
  <1>12. Number(year, m, d) = n
    <2>1. Number(year, m, d) = 365 * y + Leaps(y) + MonthStart(p) + d - 719469
      BY <1>6, <1>7 DEF Number
    <2>2. MonthStart(p) \in Int /\ d \in Int
      BY <1>5, SMT DEF MonthStart
    <2> QED
      BY <1>1, <1>2, <1>3, <1>4, <1>5, <1>7, <1>9, <1>11, <2>1, <2>2, SMT
  <1>13. days_from_civil(year, m, d) = n
    BY <1>5, <1>6, <1>7, <1>12, DayNumber
  <1> DEFINE c == <<year, m, d>>
  <1>14. Dated(c) /\ DayOf(c) = n
    BY <1>5, <1>6, <1>7, <1>10, <1>13 DEF Dated, DayOf
  <1> QED
    BY <1>14

LEMMA CivilIsDated ==
    ASSUME NEW n \in Int
    PROVE  Dated(civil_from_days(n)) /\ DayOf(civil_from_days(n)) = n
  <1>1. PICK c : Dated(c) /\ DayOf(c) = n
    BY DatedDay
  <1>2. c = <<c[1], c[2], c[3]>> /\ c[1] \in Int /\ c[2] \in 1..12 /\ c[3] \in 1..31
        /\ c[3] <= DaysIn(c[1], c[2])
    BY <1>1 DEF Dated
  <1>3. civil_from_days(n) = c
    BY <1>1, <1>2, CivilOfDay DEF DayOf
  <1> QED
    BY <1>1, <1>3

(* The dates are ordered as their numbers are.                              *)
Earlier(b, c) == \/ b[1] < c[1]
                 \/ b[1] = c[1] /\ b[2] < c[2]
                 \/ b[1] = c[1] /\ b[2] = c[2] /\ b[3] < c[3]

LEMMA EarlierDay ==
    ASSUME NEW b, NEW c, Dated(b), Dated(c), Earlier(b, c)
    PROVE  DayOf(b) < DayOf(c)
  <1> DEFINE y == b[1]  m == b[2]  d == b[3]  u == c[1]  v == c[2]  w == c[3]
             My == Marched(y, m)
             Mu == Marched(u, v)
             A == MonthStart(Month(m))
             B == MonthStart(Month(v))
             L == DaysIn(y, m)
  <1>1. /\ y \in Int /\ m \in 1..12 /\ d \in 1..31 /\ d <= L /\ L \in 28..31
        /\ u \in Int /\ v \in 1..12 /\ w \in 1..31
    BY SMT DEF Dated, DaysIn
  <1>2. DayOf(b) = Number(y, m, d) /\ DayOf(c) = Number(u, v, w)
    <2>1. /\ days_from_civil(y, m, d) = Number(y, m, d)
          /\ days_from_civil(u, v, w) = Number(u, v, w)
      <3>1. d \in Int /\ w \in Int
        BY <1>1, SMT
      <3> HIDE DEF y, m, d, u, v, w
      <3> QED
        BY <1>1, <3>1, DayNumber, Zenon
    <2> QED
      BY <2>1 DEF DayOf
  <1>3. Earlier(b, c) <=> \/ y < u
                          \/ y = u /\ m < v
                          \/ y = u /\ m = v /\ d < w
    BY DEF Earlier
  <1> HIDE DEF y, m, d, u, v, w
  <1>4. /\ My \in Int /\ Mu \in Int /\ A \in Int /\ B \in Int /\ Leaps(My) \in Int
        /\ Leaps(Mu) \in Int
    BY <1>1, SMT DEF Marched, MonthStart, Month, Leaps
  <1>5. CASE y = u /\ m = v /\ d < w
    <2> HIDE DEF My, Mu, A, B, L
    <2>1. My = Mu /\ A = B
      BY <1>5 DEF My, Mu, A, B
    <2> QED
      BY <1>1, <1>2, <1>4, <1>5, <2>1, SMT DEF Number, My, Mu, A, B
  <1>6. CASE y = u /\ m < v
    <2>1. CASE v <= 2 \/ m > 2
      <3>1. My = Mu /\ A + L <= B
        BY <1>1, <1>6, <2>1, SMT DEF Marched, MonthStart, Month, DaysIn
      <3> HIDE DEF My, Mu, A, B, L
      <3> QED
        BY <1>1, <1>2, <1>4, <3>1, SMT DEF Number, My, Mu, A, B
    <2>2. CASE m <= 2 /\ v > 2
      <3>1. Mu = y /\ My = y - 1 /\ A + L <= 337 + (IF Leap(y) THEN 29 ELSE 28) /\ 0 <= B
        BY <1>1, <1>6, <2>2, SMT DEF Marched, MonthStart, Month, DaysIn
      <3>2. Leaps(y) = Leaps(y - 1) + IF Leap(y) THEN 1 ELSE 0
        BY <1>1, SMT DEF Leaps, Leap
      <3> HIDE DEF My, Mu, A, B, L
      <3> QED
        BY <1>1, <1>2, <1>4, <3>1, <3>2, SMT DEF Number, My, Mu, A, B
    <2> QED
      BY <1>1, <2>1, <2>2, SMT
  <1>7. CASE y < u
    <2>1. /\ My <= y /\ y - 1 <= My /\ (My = y => A + L <= 306)
          /\ (My = y - 1 => A + L <= 337 + (IF Leap(y) THEN 29 ELSE 28))
          /\ (Mu = u - 1 => 306 <= B)
          /\ (Mu = u \/ Mu = u - 1) /\ 0 <= B
      BY <1>1, SMT DEF Marched, MonthStart, Month, DaysIn
    <2>2. Leaps(y) = Leaps(y - 1) + (IF Leap(y) THEN 1 ELSE 0) /\ Leaps(y - 1) \in Int
      BY <1>1, SMT DEF Leaps, Leap
    <2>3. Leaps(y) <= Leaps(u - 1) /\ Leaps(u - 1) <= Leaps(u)
          /\ Leaps(y) \in Int /\ Leaps(u) \in Int /\ Leaps(u - 1) \in Int
      BY <1>1, <1>7, SMT DEF Leaps
    <2> HIDE DEF My, Mu, A, B, L
    <2>4. 365 * My + Leaps(My) + A + d < 365 * y + Leaps(y) + 307
      BY <1>1, <1>4, <2>1, <2>2, <2>3, SMT
    <2>5. 365 * Mu + Leaps(Mu) + B + w >= 365 * (u - 1) + Leaps(u - 1) + 307
      BY <1>1, <1>4, <2>1, <2>3, SMT
    <2> QED
      BY <1>1, <1>2, <1>4, <1>7, <2>3, <2>4, <2>5, SMT DEF Number, My, Mu, A, B
  <1> QED
    BY <1>3, <1>5, <1>6, <1>7

-----------------------------------------------------------------------------
(* The fields of a text.                                                    *)

(* Division by a divisor that is not a number of the text: of the clock, or of *)
(* the base.                                                                *)
LEMMA Division ==
    ASSUME NEW a \in Int, NEW b \in Nat \ {0}
    PROVE  /\ a \div b \in Int /\ a % b \in Int
           /\ 0 <= a % b /\ a % b < b
           /\ a = (a \div b) * b + (a % b)
  BY SMT

LEMMA Quotient ==
    ASSUME NEW b \in Nat \ {0}, NEW q \in Int, NEW r \in Int, 0 <= r, r < b
    PROVE  (q * b + r) \div b = q /\ (q * b + r) % b = r
  BY SMT

LEMMA QuotientBelow ==
    ASSUME NEW a \in Int, NEW b \in Nat \ {0}, NEW c \in Int, 0 <= a, a < c * b
    PROVE  0 <= a \div b /\ a \div b < c
  BY SMT

(* Carry floors: its remainder is not negative, before the epoch either. *)
LEMMA CarryDivides ==
    ASSUME NEW a \in Int, NEW b \in Nat \ {0}
    PROVE  /\ Carry(a, b)[1] \in Int /\ Carry(a, b)[2] \in Int
           /\ 0 <= Carry(a, b)[2] /\ Carry(a, b)[2] < b
           /\ a = Carry(a, b)[1] * b + Carry(a, b)[2]
  BY SMT DEF Carry, Quot, Rem

(* A number below t * m * s in the three digits of that clock.               *)
Digits(a, t, m, s, h, i, k) ==
    /\ h \in Int /\ i \in Int /\ k \in Int
    /\ 0 <= h /\ h < t /\ 0 <= i /\ i < m /\ 0 <= k /\ k < s
    /\ a = (h * m + i) * s + k

LEMMA ThreeDigits ==
    ASSUME NEW a \in Int, NEW t \in Nat \ {0}, NEW m \in Nat \ {0}, NEW s \in Nat \ {0},
           0 <= a, a < t * m * s
    PROVE  Digits(a, t, m, s, a \div (m * s), (a % (m * s)) \div s, a % s)
  <1> DEFINE h == a \div (m * s)
             x == a % (m * s)
             i == x \div s
             k == x % s
  <1>1. m * s \in Nat \ {0} /\ t * m * s = t * (m * s)
    BY SMT
  <1>2. /\ h \in Int /\ x \in Int /\ 0 <= x /\ x < m * s /\ a = h * (m * s) + x
        /\ 0 <= h /\ h < t
    <2> DEFINE w == m * s
    <2>1. w \in Nat \ {0} /\ t \in Int /\ a < t * w
      BY <1>1, SMT
    <2> HIDE DEF w
    <2>2. a \div w \in Int /\ a % w \in Int /\ 0 <= a % w /\ a % w < w /\ a = (a \div w) * w + (a % w)
      BY <2>1, Division, Zenon
    <2>3. 0 <= a \div w /\ a \div w < t
      BY <2>1, QuotientBelow, Zenon
    <2> QED
      BY <2>2, <2>3 DEF w
  <1> HIDE DEF h, x
  <1>3. i \in Int /\ k \in Int /\ 0 <= k /\ k < s /\ x = i * s + k /\ 0 <= i /\ i < m
    BY <1>2, Division, QuotientBelow
  <1> HIDE DEF i, k
  <1>4. a = (h * m + i) * s + k
    BY <1>2, <1>3, SMT
  <1>5. h * m + i \in Int
    BY <1>2, <1>3, SMT
  <1>6. a % s = k
    BY <1>3, <1>4, <1>5, Quotient
  <1> QED
    BY <1>2, <1>3, <1>4, <1>6 DEF h, x, i, Digits

(* The instant of the n-th day whose fields are these, and what the fields are. *)
At(n, h, i, k, f, g, e) ==
    (((((n * Hours + h) * Minutes + i) * Seconds + k) * Base + f) * Base + g) * Base + e

ClockDigits(h, i, k) ==
    /\ h \in Int /\ i \in Int /\ k \in Int
    /\ 0 <= h /\ h < Hours /\ 0 <= i /\ i < Minutes /\ 0 <= k /\ k < Seconds

FractionDigits(f, g, e) ==
    /\ f \in Int /\ g \in Int /\ e \in Int
    /\ 0 <= f /\ f < Base /\ 0 <= g /\ g < Base /\ 0 <= e /\ e < Base

(* format_iso8601_ms writes the one sequence of fields that is the instant. *)
LEMMA Formatted ==
    ASSUME NEW ms \in Int
    PROVE  \E n, h, i, k, f, g, e \in Int :
              /\ ClockDigits(h, i, k) /\ FractionDigits(f, g, e)
              /\ ms = At(n, h, i, k, f, g, e)
              /\ format_iso8601_ms(ms) =
                   [civil |-> civil_from_days(n), clock |-> <<h, i, k>>,
                    fraction |-> <<f, g, e>>, zone |-> Utc]
  <1> DEFINE s == Carry(ms, Millis)
             d == Carry(s[1], Hours * Minutes * Seconds)
             h == d[2] \div (Minutes * Seconds)
             i == (d[2] % (Minutes * Seconds)) \div Seconds
             k == d[2] % Seconds
             f == s[2] \div (Base * Base)
             g0 == (s[2] % (Base * Base)) \div Base
             g == (s[2] \div Base) % Base
             e == s[2] % Base
  <1>1. /\ Hours \in Nat \ {0} /\ Minutes \in Nat \ {0} /\ Seconds \in Nat \ {0}
        /\ Base \in Nat \ {0}
    BY ClockAssumption
  <1>2. Millis \in Nat \ {0} /\ Hours * Minutes * Seconds \in Nat \ {0}
    BY <1>1, SMT DEF Millis
  <1>3. /\ s[1] \in Int /\ s[2] \in Int /\ 0 <= s[2] /\ s[2] < Millis
        /\ ms = s[1] * Millis + s[2]
    BY <1>2, CarryDivides
  <1>4. /\ d[1] \in Int /\ d[2] \in Int /\ 0 <= d[2] /\ d[2] < Hours * Minutes * Seconds
        /\ s[1] = d[1] * (Hours * Minutes * Seconds) + d[2]
    BY <1>2, <1>3, CarryDivides
  <1> DEFINE dd == d[1]
             ss == s[1]
             r == s[2]
             t == d[2]
  <1>5. format_iso8601_ms(ms) =
           [civil |-> civil_from_days(dd), clock |-> <<h, i, k>>,
            fraction |-> <<f, g, e>>, zone |-> Utc]
    BY DEF format_iso8601_ms
  <1> HIDE DEF s, d, dd, ss, r, t
  <1>6. ClockDigits(h, i, k) /\ t = (h * Minutes + i) * Seconds + k
    <2>1. Digits(d[2], Hours, Minutes, Seconds, h, i, k)
      BY <1>1, <1>4, ThreeDigits, Zenon
    <2> QED
      BY <2>1 DEF Digits, ClockDigits, t
  <1>7. FractionDigits(f, g0, e) /\ r = (f * Base + g0) * Base + e
    <2>1. Digits(s[2], Base, Base, Base, f, g0, e)
      BY <1>1, <1>3, ThreeDigits, Zenon DEF Millis
    <2> QED
      BY <2>1 DEF Digits, FractionDigits, r
  <1>8. g = g0
    <2> HIDE DEF f, g0, e
    <2>1. f * Base + g0 \in Int
      BY <1>1, <1>7, SMT DEF FractionDigits
    <2>2. ((f * Base + g0) * Base + e) \div Base = f * Base + g0
      BY <1>1, <1>7, <2>1, Quotient, Zenon DEF FractionDigits
    <2>3. (f * Base + g0) % Base = g0
      BY <1>1, <1>7, Quotient, Zenon DEF FractionDigits
    <2> QED
      BY <1>7, <2>2, <2>3 DEF r
  <1>9. ms = At(dd, h, i, k, f, g, e)
    <2>1. /\ ss = dd * (Hours * Minutes * Seconds) + t
          /\ r = (f * Base + g) * Base + e
          /\ ms = ss * (Base * Base * Base) + r
          /\ dd \in Int /\ ss \in Int /\ t \in Int /\ r \in Int
          /\ h \in Int /\ i \in Int /\ k \in Int /\ f \in Int /\ g \in Int /\ e \in Int
      BY <1>3, <1>4, <1>6, <1>7, <1>8 DEF Millis, ClockDigits, FractionDigits, dd, ss, r, t
    <2> HIDE DEF h, i, k, f, g, e
    <2>2. ss = ((dd * Hours + h) * Minutes + i) * Seconds + k
      BY <1>1, <1>6, <2>1, SMT
    <2>3. ms = ((ss * Base + f) * Base + g) * Base + e
      BY <1>1, <2>1, SMT
    <2> QED
      BY <2>2, <2>3 DEF At
  <1> HIDE DEF h, i, k, f, g, e
  <1>10. /\ dd \in Int /\ h \in Int /\ i \in Int /\ k \in Int
         /\ f \in Int /\ g \in Int /\ e \in Int
    BY <1>4, <1>6, <1>7, <1>8 DEF ClockDigits, FractionDigits, dd
  <1>11. ClockDigits(h, i, k) /\ FractionDigits(f, g, e)
    BY <1>6, <1>7, <1>8
  <1> QED
    BY <1>9, <1>5, <1>10, <1>11, Zenon

(* The day of an instant is that of its fields.                             *)
LEMMA DayOfInstant ==
    ASSUME NEW n \in Int, NEW h, NEW i, NEW k, NEW f, NEW g, NEW e,
           ClockDigits(h, i, k), FractionDigits(f, g, e),
           NEW m \in Int, NEW r \in Nat, r < PerDay,
           At(n, h, i, k, f, g, e) = m * PerDay + r
    PROVE  n = m
  <1>1. /\ Hours \in Nat \ {0} /\ Minutes \in Nat \ {0} /\ Seconds \in Nat \ {0}
        /\ Base \in Nat \ {0}
    BY ClockAssumption
  <1> DEFINE t == ((((h * Minutes + i) * Seconds + k) * Base + f) * Base + g) * Base + e
  <1>2. /\ h \in Int /\ i \in Int /\ k \in Int /\ f \in Int /\ g \in Int /\ e \in Int
        /\ 0 <= h /\ h < Hours /\ 0 <= i /\ i < Minutes /\ 0 <= k /\ k < Seconds
        /\ 0 <= f /\ f < Base /\ 0 <= g /\ g < Base /\ 0 <= e /\ e < Base
    BY DEF ClockDigits, FractionDigits
  <1>3. t \in Int /\ 0 <= t /\ t < PerDay
    <2> DEFINE a2 == h * Minutes + i
               a3 == a2 * Seconds + k
               a4 == a3 * Base + f
               a5 == a4 * Base + g
               b2 == Hours * Minutes
               b3 == b2 * Seconds
               b4 == b3 * Base
               b5 == b4 * Base
    <2>1. a2 \in Int /\ b2 \in Int /\ 0 <= a2 /\ a2 < b2
      BY <1>1, <1>2, SMT
    <2>2. PerDay = b5 * Base
      BY <1>1, SMT DEF PerDay, Millis
    <2>3. t = a5 * Base + e
      OBVIOUS
    <2> HIDE DEF a2, b2, t
    <2>4. a3 \in Int /\ b3 \in Int /\ 0 <= a3 /\ a3 < b3
      BY <1>1, <1>2, <2>1, SMT
    <2> HIDE DEF a3, b3
    <2>5. a4 \in Int /\ b4 \in Int /\ 0 <= a4 /\ a4 < b4
      BY <1>1, <1>2, <2>4, SMT
    <2> HIDE DEF a4, b4
    <2>6. a5 \in Int /\ b5 \in Int /\ 0 <= a5 /\ a5 < b5
      BY <1>1, <1>2, <2>5, SMT
    <2> HIDE DEF a5, b5
    <2> QED
      BY <1>1, <1>2, <2>2, <2>6, <2>3, SMT
  <1>4. At(n, h, i, k, f, g, e) = n * PerDay + t
    BY <1>1, <1>2, SMT DEF At, PerDay, Millis
  <1>5. PerDay \in Nat \ {0}
    BY <1>1, SMT DEF PerDay, Millis
  <1> HIDE DEF t
  <1> QED
    BY <1>3, <1>4, <1>5, SMT

(* A zone with an offset is a zone.                                         *)
LEMMA ZoneIsWritten ==
    ASSUME NEW zone \in {-1, 1} \X Nat \X Nat
    PROVE  zone # NoZone
  <1>1. Len(zone) = 3
    OBVIOUS
  <1>2. Len(NoZone) = 0
    BY DEF NoZone
  <1> QED
    BY <1>1, <1>2

(* parse_iso8601_ms adds the fields up again, less the offset of the zone. *)
LEMMA ParsedBack ==
    ASSUME NEW ms \in Int, NEW zone \in {-1, 1} \X Nat \X Nat,
           format_iso8601_ms(ms).civil[1] \in FourDigits
    PROVE  parse_iso8601_ms([format_iso8601_ms(ms) EXCEPT !.zone = zone])
             = {ms - offset_seconds(zone) * Millis}
  <1>1. PICK n, h, i, k, f, g, e \in Int :
              /\ ClockDigits(h, i, k) /\ FractionDigits(f, g, e)
              /\ ms = At(n, h, i, k, f, g, e)
              /\ format_iso8601_ms(ms) =
                   [civil |-> civil_from_days(n), clock |-> <<h, i, k>>,
                    fraction |-> <<f, g, e>>, zone |-> Utc]
    BY Formatted, Zenon
  <1> DEFINE c == civil_from_days(n)
             o == offset_seconds(zone)
             t == [format_iso8601_ms(ms) EXCEPT !.zone = zone]
             secs == ((n * Hours + h) * Minutes + i) * Seconds + k - o
  <1>2. t = [civil |-> c, clock |-> <<h, i, k>>, fraction |-> <<f, g, e>>, zone |-> zone]
    BY <1>1
  <1>3. c[1] \in FourDigits /\ c[2] \in 1..12 /\ c[3] \in 1..31
        /\ days_from_civil(c[1], c[2], c[3]) = n
    BY <1>1, CivilIsDated DEF Dated, DayOf
  <1>4. zone # NoZone
    BY ZoneIsWritten, Zenon
  <1>5. /\ Hours \in Nat \ {0} /\ Minutes \in Nat \ {0} /\ Seconds \in Nat \ {0}
        /\ Base \in Nat \ {0}
    BY ClockAssumption
  <1>6. ~(h > Hours - 1) /\ ~(i > Minutes - 1) /\ ~(k > Seconds)
    BY <1>1, <1>5, SMT DEF ClockDigits
  <1>7. ScaledFraction(<<f, g, e>>) = f * Base * Base + g * Base + e
    BY SMT DEF ScaledFraction
  <1>8. o \in Int
    BY <1>5, SMT DEF offset_seconds
  <1> HIDE DEF c, o, t
  <1>9. parse_iso8601_ms(t) = {secs * Millis + (f * Base * Base + g * Base + e)}
    BY <1>2, <1>3, <1>4, <1>6, <1>7, Zenon DEF parse_iso8601_ms, o
  <1>10. secs * Millis + (f * Base * Base + g * Base + e) = ms - o * Millis
    BY <1>1, <1>5, <1>8, SMT DEF At, Millis, ClockDigits, FractionDigits
  <1> QED
    BY <1>9, <1>10 DEF t, o

(* The nine fields of a text in order.                                      *)
LEMMA Texted ==
    ASSUME NEW a, NEW b, NEW c, NEW h, NEW i, NEW k, NEW f, NEW g, NEW e
    PROVE  LET t == <<a, b, c>> \o <<h, i, k>> \o <<f, g, e>>
           IN  /\ DOMAIN t = 1..9
               /\ t[1] = a /\ t[2] = b /\ t[3] = c /\ t[4] = h /\ t[5] = i /\ t[6] = k
               /\ t[7] = f /\ t[8] = g /\ t[9] = e
  <1> DEFINE X == {a, b, c, h, i, k, f, g, e}
             u == <<a, b, c>>
             v == <<h, i, k>>
             w == <<f, g, e>>
  <1>1. u \in Seq(X) /\ v \in Seq(X) /\ w \in Seq(X) /\ Len(u) = 3 /\ Len(v) = 3 /\ Len(w) = 3
    BY SMT
  <1> HIDE DEF X
  <1>2. u \o v \in Seq(X) /\ Len(u \o v) = 6
        /\ \A x \in 1..6 : (u \o v)[x] = IF x <= 3 THEN u[x] ELSE v[x - 3]
    BY <1>1, ConcatProperties, SMT
  <1>3. (u \o v) \o w \in Seq(X) /\ Len((u \o v) \o w) = 9
        /\ \A x \in 1..9 : ((u \o v) \o w)[x] = IF x <= 6 THEN (u \o v)[x] ELSE w[x - 6]
    BY <1>1, <1>2, ConcatProperties, SMT
  <1>4. DOMAIN ((u \o v) \o w) = 1..9
    BY <1>3, LenProperties
  <1> QED
    BY <1>2, <1>3, <1>4, SMT

(* Two numbers are ordered as what is above their last digit, then by that digit. *)
Lexical(a, q, r, b, s, t) ==
    /\ a < b => q < s \/ (q = s /\ r < t)
    /\ a = b => q = s /\ r = t

LEMMA DigitsOrder ==
    ASSUME NEW b \in Nat \ {0}, NEW q \in Int, NEW s \in Int, NEW r \in Int, NEW t \in Int,
           0 <= r, r < b, 0 <= t, t < b
    PROVE  Lexical(q * b + r, q, r, s * b + t, s, t)
  BY SMT DEF Lexical

(* A later instant has a later text. *)
LEMMA TextOrder ==
    ASSUME NEW ms \in Int, NEW nt \in Int, ms < nt
    PROVE  Before(Text(ms), Text(nt))
  <1>1. PICK n, h, i, k, f, g, e \in Int :
              /\ ClockDigits(h, i, k) /\ FractionDigits(f, g, e)
              /\ ms = At(n, h, i, k, f, g, e)
              /\ format_iso8601_ms(ms) =
                   [civil |-> civil_from_days(n), clock |-> <<h, i, k>>,
                    fraction |-> <<f, g, e>>, zone |-> Utc]
    BY Formatted, Zenon
  <1>2. PICK nn, hh, ii, kk, ff, gg, ee \in Int :
              /\ ClockDigits(hh, ii, kk) /\ FractionDigits(ff, gg, ee)
              /\ nt = At(nn, hh, ii, kk, ff, gg, ee)
              /\ format_iso8601_ms(nt) =
                   [civil |-> civil_from_days(nn), clock |-> <<hh, ii, kk>>,
                    fraction |-> <<ff, gg, ee>>, zone |-> Utc]
    BY Formatted, Zenon
  <1>3. /\ Hours \in Nat \ {0} /\ Minutes \in Nat \ {0} /\ Seconds \in Nat \ {0}
        /\ Base \in Nat \ {0}
    BY ClockAssumption
  <1> DEFINE s == Text(ms)
             t == Text(nt)
             b == civil_from_days(n)
             c == civil_from_days(nn)
  <1>4. Dated(b) /\ DayOf(b) = n /\ Dated(c) /\ DayOf(c) = nn
    BY CivilIsDated
  <1>5. b = <<b[1], b[2], b[3]>> /\ c = <<c[1], c[2], c[3]>>
    BY <1>4 DEF Dated
  <1>6. /\ DOMAIN s = 1..9 /\ s[1] = b[1] /\ s[2] = b[2] /\ s[3] = b[3]
        /\ s[4] = h /\ s[5] = i /\ s[6] = k /\ s[7] = f /\ s[8] = g /\ s[9] = e
    <2>1. s = <<b[1], b[2], b[3]>> \o <<h, i, k>> \o <<f, g, e>>
      <3>1. s = b \o <<h, i, k>> \o <<f, g, e>>
        <4>1. /\ format_iso8601_ms(ms).civil = b
              /\ format_iso8601_ms(ms).clock = <<h, i, k>>
              /\ format_iso8601_ms(ms).fraction = <<f, g, e>>
          BY <1>1
        <4> HIDE DEF b
        <4> QED
          BY <4>1, Zenon DEF Text
      <3> HIDE DEF s, b
      <3> QED
        BY <1>5, <3>1, Zenon
    <2> QED
      BY <2>1, Texted
  <1>7. /\ DOMAIN t = 1..9 /\ t[1] = c[1] /\ t[2] = c[2] /\ t[3] = c[3]
        /\ t[4] = hh /\ t[5] = ii /\ t[6] = kk /\ t[7] = ff /\ t[8] = gg /\ t[9] = ee
    <2>1. t = <<c[1], c[2], c[3]>> \o <<hh, ii, kk>> \o <<ff, gg, ee>>
      <3>1. t = c \o <<hh, ii, kk>> \o <<ff, gg, ee>>
        <4>1. /\ format_iso8601_ms(nt).civil = c
              /\ format_iso8601_ms(nt).clock = <<hh, ii, kk>>
              /\ format_iso8601_ms(nt).fraction = <<ff, gg, ee>>
          BY <1>2
        <4> HIDE DEF c
        <4> QED
          BY <4>1, Zenon DEF Text
      <3> HIDE DEF t, c
      <3> QED
        BY <1>5, <3>1, Zenon
    <2> QED
      BY <2>1, Texted
  <1> HIDE DEF s, t, b, c
  <1>8. \/ n < nn
        \/ n = nn /\ h < hh
        \/ n = nn /\ h = hh /\ i < ii
        \/ n = nn /\ h = hh /\ i = ii /\ k < kk
        \/ n = nn /\ h = hh /\ i = ii /\ k = kk /\ f < ff
        \/ n = nn /\ h = hh /\ i = ii /\ k = kk /\ f = ff /\ g < gg
        \/ n = nn /\ h = hh /\ i = ii /\ k = kk /\ f = ff /\ g = gg /\ e < ee
    <2> DEFINE a1 == n * Hours + h
               a2 == a1 * Minutes + i
               a3 == a2 * Seconds + k
               a4 == a3 * Base + f
               a5 == a4 * Base + g
               b1 == nn * Hours + hh
               b2 == b1 * Minutes + ii
               b3 == b2 * Seconds + kk
               b4 == b3 * Base + ff
               b5 == b4 * Base + gg
    <2>1. /\ h \in Int /\ i \in Int /\ k \in Int /\ f \in Int /\ g \in Int /\ e \in Int
          /\ hh \in Int /\ ii \in Int /\ kk \in Int /\ ff \in Int /\ gg \in Int /\ ee \in Int
          /\ 0 <= h /\ h < Hours /\ 0 <= i /\ i < Minutes /\ 0 <= k /\ k < Seconds
          /\ 0 <= f /\ f < Base /\ 0 <= g /\ g < Base /\ 0 <= e /\ e < Base
          /\ 0 <= hh /\ hh < Hours /\ 0 <= ii /\ ii < Minutes /\ 0 <= kk /\ kk < Seconds
          /\ 0 <= ff /\ ff < Base /\ 0 <= gg /\ gg < Base /\ 0 <= ee /\ ee < Base
      BY <1>1, <1>2 DEF ClockDigits, FractionDigits
    <2>2. a1 \in Int /\ a2 \in Int /\ a3 \in Int /\ a4 \in Int /\ a5 \in Int
      BY <1>3, <2>1, SMT
    <2>3. b1 \in Int /\ b2 \in Int /\ b3 \in Int /\ b4 \in Int /\ b5 \in Int
      BY <1>3, <2>1, SMT
    <2>4. a5 * Base + e < b5 * Base + ee
      BY <1>1, <1>2 DEF At
    <2>5. Lexical(a1, n, h, b1, nn, hh)
      BY <1>3, <2>1, DigitsOrder, Zenon
    <2> HIDE DEF a1, b1
    <2>6. Lexical(a2, a1, i, b2, b1, ii)
      BY <1>3, <2>1, <2>2, <2>3, DigitsOrder, Zenon
    <2> HIDE DEF a2, b2
    <2>7. Lexical(a3, a2, k, b3, b2, kk)
      BY <1>3, <2>1, <2>2, <2>3, DigitsOrder, Zenon
    <2> HIDE DEF a3, b3
    <2>8. Lexical(a4, a3, f, b4, b3, ff)
      BY <1>3, <2>1, <2>2, <2>3, DigitsOrder, Zenon
    <2> HIDE DEF a4, b4
    <2>9. Lexical(a5, a4, g, b5, b4, gg)
      BY <1>3, <2>1, <2>2, <2>3, DigitsOrder, Zenon
    <2> HIDE DEF a5, b5
    <2>10. Lexical(a5 * Base + e, a5, e, b5 * Base + ee, b5, ee)
      BY <1>3, <2>1, <2>2, <2>3, DigitsOrder, Zenon
    <2> QED
      BY <2>4, <2>5, <2>6, <2>7, <2>8, <2>9, <2>10, Zenon DEF Lexical
  <1>9. n < nn => Earlier(b, c)
    <2>1. b # c => Earlier(b, c) \/ Earlier(c, b)
      <3>1. /\ b[1] \in Int /\ b[2] \in Int /\ b[3] \in Int
            /\ c[1] \in Int /\ c[2] \in Int /\ c[3] \in Int
        BY <1>4 DEF Dated
      <3>2. b # c => b[1] # c[1] \/ b[2] # c[2] \/ b[3] # c[3]
        BY <1>5, Zenon
      <3> QED
        BY <3>1, <3>2, SMT DEF Earlier
    <2>2. Earlier(c, b) => nn < n
      BY <1>4, EarlierDay
    <2> QED
      BY <1>4, <2>1, <2>2, SMT
  <1>10. n = nn => b = c
    BY DEF b, c
  <1>11. Before(s, t) <=> \E x \in 1..9 : s[x] < t[x] /\ \A y \in 1..(x - 1) : s[y] = t[y]
    BY <1>6 DEF Before
  <1>12. \E x \in 1..9 : s[x] < t[x] /\ \A y \in 1..(x - 1) : s[y] = t[y]
    <2>1. CASE n < nn
      <3>1. CASE b[1] < c[1]
        BY <1>6, <1>7, <3>1, SMT
      <3>2. CASE b[1] = c[1] /\ b[2] < c[2]
        BY <1>6, <1>7, <3>2, SMT
      <3>3. CASE b[1] = c[1] /\ b[2] = c[2] /\ b[3] < c[3]
        BY <1>6, <1>7, <3>3, SMT
      <3> QED
        BY <1>9, <2>1, <3>1, <3>2, <3>3 DEF Earlier
    <2>2. CASE n = nn
      <3>1. s[1] = t[1] /\ s[2] = t[2] /\ s[3] = t[3]
        BY <1>6, <1>7, <1>10, <2>2
      <3>2. CASE h < hh
        BY <1>6, <1>7, <3>1, <3>2, SMT
      <3>3. CASE h = hh /\ i < ii
        BY <1>6, <1>7, <3>1, <3>3, SMT
      <3>4. CASE h = hh /\ i = ii /\ k < kk
        BY <1>6, <1>7, <3>1, <3>4, SMT
      <3>5. CASE h = hh /\ i = ii /\ k = kk /\ f < ff
        BY <1>6, <1>7, <3>1, <3>5, SMT
      <3>6. CASE h = hh /\ i = ii /\ k = kk /\ f = ff /\ g < gg
        BY <1>6, <1>7, <3>1, <3>6, SMT
      <3>7. CASE h = hh /\ i = ii /\ k = kk /\ f = ff /\ g = gg /\ e < ee
        BY <1>6, <1>7, <3>1, <3>7, SMT
      <3>8. ~(n < nn)
        BY <2>2, SMT
      <3> QED
        BY <1>8, <3>2, <3>3, <3>4, <3>5, <3>6, <3>7, <3>8
    <2> QED
      BY <1>8, <2>1, <2>2
  <1> QED
    BY <1>11, <1>12 DEF s, t

-----------------------------------------------------------------------------
(* The walk through the days.                                               *)

WalkInv ==
    /\ Dated(date)
    /\ date[1] \in Years
    /\ day \in Int
    /\ day = DayOf(date)
    /\ elapsed \in Instants

LEMMA InstantsInDay ==
    /\ PerDay \in Int
    /\ \A x \in Instants : x \in Nat /\ x < PerDay
  <1>1. /\ Hours \in Nat \ {0} /\ Minutes \in Nat \ {0} /\ Seconds \in Nat \ {0}
        /\ Base \in Nat \ {0}
    BY ClockAssumption
  <1>2. PerDay \in Int
    BY <1>1, SMT DEF PerDay, Millis
  <1>3. \A x \in 0..(PerDay - 1) : x \in Nat /\ x < PerDay
    BY <1>2, SMT
  <1> QED
    BY <1>2, <1>3, InstantAssumption

LEMMA WalkBegins == WalkInit => WalkInv
  <1> SUFFICES ASSUME WalkInit PROVE WalkInv
    OBVIOUS
  <1>1. PICK y \in Years : date = <<y, 1, 1>>
    BY DEF WalkInit
  <1>2. y \in Int /\ 1 <= DaysIn(y, 1)
    BY ClockAssumption, SMT DEF DaysIn
  <1>3. Dated(date) /\ date[1] \in Years
    BY <1>1, <1>2 DEF Dated
  <1>4. day = DayOf(date)
    BY <1>1, <1>2, NewYearIsDay DEF WalkInit, DayOf
  <1>5. NewYear(y) = Number(y, 1, 1)
    BY <1>2, NewYearIsDay, DayNumber
  <1>6. Number(y, 1, 1) \in Int
    BY <1>2, SMT DEF Number, Marched, Leaps, MonthStart, Month
  <1> QED
    BY <1>1, <1>3, <1>4, <1>5, <1>6 DEF WalkInv, WalkInit

(* A step is at a later instant, of the same day or of the next.             *)
LEMMA WalkGoesOn ==
    ASSUME WalkInv, Pass
    PROVE  WalkInv' /\ Now \in Int /\ Now' \in Int /\ Now < Now'
  <1>1. /\ Dated(date) /\ day \in Int /\ day = DayOf(date) /\ elapsed \in Instants
        /\ date[1] \in Years /\ elapsed \in Nat /\ elapsed < PerDay /\ PerDay \in Int
    BY InstantsInDay DEF WalkInv
  <1>2. CASE /\ UNCHANGED <<day, date>>
             /\ \E x \in Instants : x > elapsed /\ elapsed' = x
    <2>1. elapsed' \in Instants /\ elapsed' \in Nat /\ elapsed' > elapsed /\ day' = day /\ date' = date
      BY <1>2, InstantsInDay
    <2>2. WalkInv'
      BY <1>1, <2>1 DEF WalkInv
    <2>3. Now \in Int /\ Now' \in Int /\ Now < Now'
      <3>1. day * PerDay \in Int
        BY <1>1, SMT
      <3>2. Now = day * PerDay + elapsed /\ Now' = day * PerDay + elapsed'
        BY <2>1, Zenon DEF Now, PerDay, Millis
      <3> QED
        BY <1>1, <2>1, <3>1, <3>2, SMT
    <2> QED
      BY <2>2, <2>3
  <1>3. CASE /\ Tomorrow(date)[1] \in Years
             /\ elapsed' = CHOOSE x \in Instants : \A z \in Instants : x <= z
             /\ day' = day + 1 /\ date' = Tomorrow(date)
    <2>1. elapsed' \in Instants
      <3>1. Instants \subseteq Nat /\ Instants # {}
        BY <1>1, InstantsInDay
      <3>2. \E x \in Instants : \A z \in Instants : x <= z
        BY <3>1, LeastNatural
      <3> QED
        BY <1>3, <3>2
    <2>2. Dated(date') /\ day' = DayOf(date') /\ day' \in Int /\ date'[1] \in Years
      BY <1>1, <1>3, TomorrowIsNext
    <2>3. WalkInv'
      BY <2>1, <2>2 DEF WalkInv, Dated, DayOf
    <2>4. Now \in Int /\ Now' \in Int /\ Now < Now'
      <3>1. elapsed' \in Nat
        BY <2>1, InstantsInDay
      <3>2. /\ day * PerDay \in Int
            /\ (day + 1) * PerDay = day * PerDay + PerDay
        BY <1>1, SMT
      <3>3. Now = day * PerDay + elapsed /\ Now' = (day + 1) * PerDay + elapsed'
        BY <1>3, Zenon DEF Now, PerDay, Millis
      <3> QED
        BY <1>1, <3>1, <3>2, <3>3, SMT
    <2> QED
      BY <2>3, <2>4
  <1> QED
    BY <1>2, <1>3 DEF Pass

(* The invariant of the walk: the date is one of the calendar's, and the day   *)
(* is the number that days_from_civil gives that date.                       *)
THEOREM WalkInductive == WalkSpec => []WalkInv
  <1>1. WalkInv /\ UNCHANGED walk => WalkInv'
    BY DEF WalkInv, walk
  <1>2. WalkInv /\ [Pass]_walk => WalkInv'
    BY <1>1, WalkGoesOn
  <1> QED
    BY <1>2, WalkBegins, PTL DEF WalkSpec

(* civil_from_days and days_from_civil are the Gregorian calendar, both ways,  *)
(* on every day of any years: "avoids timegm" (observation.cpp:84).           *)
THEOREM CivilDates == WalkSpec => []CivilIsCalendar
  <1>1. WalkInv => CivilIsCalendar
    <2> SUFFICES ASSUME WalkInv PROVE CivilIsCalendar
      OBVIOUS
    <2>1. /\ date[1] \in Int /\ date[2] \in 1..12 /\ date[3] \in 1..31
          /\ date[3] <= DaysIn(date[1], date[2]) /\ date = <<date[1], date[2], date[3]>>
      BY DEF WalkInv, Dated
    <2> QED
      BY <2>1, CivilOfDay DEF CivilIsCalendar, WalkInv, DayOf
  <1> QED
    BY <1>1, WalkInductive, PTL

(* format_iso8601_ms writes the date of the day an instant is of.             *)
LEMMA WrittenDate ==
    ASSUME NEW d, Dated(d), NEW r \in Instants
    PROVE  format_iso8601_ms(DayOf(d) * PerDay + r).civil = d
  <1> DEFINE m == DayOf(d)
             ms == m * PerDay + r
  <1>1. /\ d[1] \in Int /\ d[2] \in 1..12 /\ d[3] \in 1..31
        /\ d[3] <= DaysIn(d[1], d[2]) /\ d = <<d[1], d[2], d[3]>>
    BY DEF Dated
  <1>2. m \in Int /\ civil_from_days(m) = d
    <2>1. m = days_from_civil(d[1], d[2], d[3]) /\ m = Number(d[1], d[2], d[3])
      BY <1>1, DayNumber DEF DayOf
    <2>2. civil_from_days(days_from_civil(d[1], d[2], d[3])) = <<d[1], d[2], d[3]>>
      BY <1>1, CivilOfDay
    <2>3. Number(d[1], d[2], d[3]) \in Int
      BY <1>1, SMT DEF Number, Leaps, Marched, Month, MonthStart
    <2> QED
      BY <1>1, <2>1, <2>2, <2>3
  <1>3. r \in Nat /\ r < PerDay /\ PerDay \in Int
    BY InstantsInDay
  <1> HIDE DEF m
  <1>4. ms \in Int
    BY <1>2, <1>3
  <1>5. PICK n, h, i, k, f, g, e \in Int :
              /\ ClockDigits(h, i, k) /\ FractionDigits(f, g, e)
              /\ ms = At(n, h, i, k, f, g, e)
              /\ format_iso8601_ms(ms) =
                   [civil |-> civil_from_days(n), clock |-> <<h, i, k>>,
                    fraction |-> <<f, g, e>>, zone |-> Utc]
    BY <1>4, Formatted, Zenon
  <1>6. n = m
    BY <1>2, <1>3, <1>5, DayOfInstant
  <1> QED
    BY <1>2, <1>5, <1>6 DEF m

(* In the years that four digits can write, what format_iso8601_ms writes,     *)
(* parse_iso8601_ms reads back as the same instant, and so it does the same    *)
(* instant told in any zone (REQ-3.2): any offset, any clock, any base.       *)
THEOREM TextRoundTrip ==
    ASSUME Years \subseteq FourDigits
    PROVE  WalkSpec => []TextKeepsInstant
  <1>1. WalkInv => TextKeepsInstant
    <2> SUFFICES ASSUME WalkInv PROVE TextKeepsInstant
      OBVIOUS
    <2>1. /\ Dated(date) /\ day \in Int /\ day = DayOf(date) /\ elapsed \in Nat
          /\ date[1] \in FourDigits /\ elapsed < PerDay /\ PerDay \in Int
      BY InstantsInDay DEF WalkInv
    <2>2. Now \in Int
      BY <2>1, SMT DEF Now, PerDay, Millis
    <2>3. parse_iso8601_ms(format_iso8601_ms(Now)) = {Now}
      <3>1. format_iso8601_ms(Now).civil = date
        BY WrittenDate DEF WalkInv, Now
      <3>2. Utc \in {-1, 1} \X Nat \X Nat
        BY SMT DEF Utc
      <3>3. [format_iso8601_ms(Now) EXCEPT !.zone = Utc] = format_iso8601_ms(Now)
        BY DEF format_iso8601_ms
      <3>4. Now - offset_seconds(Utc) * Millis = Now
        <4>1. /\ Minutes \in Int /\ Seconds \in Int /\ Base \in Int
          BY ClockAssumption
        <4>2. offset_seconds(Utc) = 0 /\ Millis \in Int
          BY <4>1, SMT DEF offset_seconds, Utc, Millis
        <4> QED
          BY <2>2, <4>2, SMT
      <3> QED
        BY <2>1, <2>2, <3>1, <3>2, <3>3, <3>4, ParsedBack
    <2>4. ASSUME NEW zone \in Zones
          PROVE  LET ahead == zone[1] * (zone[2] * Minutes + zone[3]) * Seconds * Millis
                     local == format_iso8601_ms(Now + ahead)
                 IN  local.civil[1] \in FourDigits =>
                        parse_iso8601_ms([local EXCEPT !.zone = zone]) = {Now}
      <3> DEFINE o == offset_seconds(zone)
                 ahead == zone[1] * (zone[2] * Minutes + zone[3]) * Seconds * Millis
      <3>1. /\ zone \in {-1, 1} \X Nat \X Nat
            /\ Minutes \in Int /\ Seconds \in Int /\ Base \in Int
        BY ClockAssumption
      <3>2. ahead = o * Millis /\ o * Millis \in Int
        BY <3>1, SMT DEF offset_seconds, Millis
      <3> HIDE DEF ahead, o
      <3> DEFINE then == Now + ahead
                 local == format_iso8601_ms(then)
      <3>3. then \in Int /\ then - o * Millis = Now
        BY <2>2, <3>2, SMT
      <3> HIDE DEF then
      <3>4. local.civil[1] \in FourDigits =>
               parse_iso8601_ms([local EXCEPT !.zone = zone])
                 = {then - offset_seconds(zone) * Millis}
        BY <3>1, <3>3, ParsedBack, Zenon
      <3> QED
        BY <3>3, <3>4 DEF ahead, then, o
    <2> QED
      BY <2>3, <2>4 DEF TextKeepsInstant
  <1> QED
    BY <1>1, WalkInductive, PTL

(* In the years that four digits can write, the texts of format_iso8601_ms    *)
(* are of one width and sort as their instants do: what correlate sorts by    *)
(* and takes the first of.                                                  *)
THEOREM TextSorts ==
    ASSUME Years \subseteq FourDigits
    PROVE  WalkSpec => TextOrderIsTime
  <1> DEFINE Sorted == /\ FixedWidth(Now) /\ FixedWidth(Now')
                       /\ Before(Text(Now), Text(Now'))
  <1>1. WalkInv /\ [Pass]_walk => [Sorted]_walk
    <2> SUFFICES ASSUME WalkInv, Pass PROVE Sorted
      OBVIOUS
    <2>1. WalkInv' /\ Now \in Int /\ Now' \in Int /\ Now < Now'
      BY WalkGoesOn
    <2>2. Before(Text(Now), Text(Now'))
      BY <2>1, TextOrder
    <2>3. FixedWidth(Now)
      BY WrittenDate DEF WalkInv, Now, FixedWidth
    <2>4. FixedWidth(Now')
      <3>1. /\ Dated(date') /\ day' = DayOf(date') /\ elapsed' \in Instants
            /\ date'[1] \in Years
        BY <2>1 DEF WalkInv
      <3> QED
        BY <3>1, WrittenDate DEF Now, FixedWidth
    <2> QED
      BY <2>2, <2>3, <2>4
  <1> QED
    BY <1>1, WalkInductive, PTL DEF WalkSpec, TextOrderIsTime

-----------------------------------------------------------------------------
(* UTF-8.                                                                   *)

(* Two, three and four bytes in turn: the point is in the range that the    *)
(* check allows exactly for the leading bytes of the table.                 *)

LEMMA TwoBytes ==
    ASSUME NEW a \in 0..255, NEW b \in 0..255
    PROVE  AcceptsSequence(<<a, b>>) <=> WellFormed(<<a, b>>)
<1> DEFINE s == <<a, b>>
           p == (a % 32) * 64 + (b % 64)
           Read == a \in 192..223 /\ b \in 128..191
           Row == a \in 194..223 /\ b \in 128..191
<1>1. Len(s) = 2 /\ s[1] = a /\ s[2] = b
    BY SMT
<1>2. Point(s) = p
    BY SMT, <1>1 DEF Point
<1>3. AcceptsSequence(s) <=> Read /\ p >= 128 /\ IsScalar(p)
  <2>1. Announced(a) = 2 <=> a \in 192..223
    BY SMT DEF Announced
  <2>2. (\A n \in 2..2 : s[n] \in 128..191) <=> b \in 128..191
    BY SMT, <1>1
  <2>3. QED
    BY SMT, <1>1, <1>2, <2>1, <2>2 DEF AcceptsSequence, Least
<1>4. WellFormed(s) <=> Row
    BY SMT, <1>1 DEF WellFormed, Tail80
<1>5. ASSUME Read PROVE (p >= 128 /\ IsScalar(p)) <=> Row
  <2>1. p = (a - 192) * 64 + (b - 128)
    BY SMT, <1>5
  <2> HIDE DEF p
  <2>2. QED
    BY SMT, <1>5, <2>1 DEF IsScalar, Surrogate
<1>6. QED
    BY SMT, <1>3, <1>4, <1>5

LEMMA ThreeBytes ==
    ASSUME NEW a \in 0..255, NEW b \in 0..255, NEW c \in 0..255
    PROVE  AcceptsSequence(<<a, b, c>>) <=> WellFormed(<<a, b, c>>)
<1> DEFINE s == <<a, b, c>>
           p == ((a % 16) * 64 + (b % 64)) * 64 + (c % 64)
           Read == a \in 224..239 /\ b \in 128..191 /\ c \in 128..191
           Row == \/ a = 224 /\ b \in 160..191
                  \/ a \in 225..236 /\ b \in 128..191
                  \/ a = 237 /\ b \in 128..159
                  \/ a \in 238..239 /\ b \in 128..191
<1>1. Len(s) = 3 /\ s[1] = a /\ s[2] = b /\ s[3] = c
    BY SMT
<1>2. Point(s) = p
    BY SMT, <1>1 DEF Point
<1>3. AcceptsSequence(s) <=> Read /\ p >= 2048 /\ IsScalar(p)
  <2>1. Announced(a) = 3 <=> a \in 224..239
    BY SMT DEF Announced
  <2>2. (\A n \in 2..3 : s[n] \in 128..191) <=> b \in 128..191 /\ c \in 128..191
    BY SMT, <1>1
  <2>3. QED
    BY SMT, <1>1, <1>2, <2>1, <2>2 DEF AcceptsSequence, Least
<1>4. WellFormed(s) <=> c \in 128..191 /\ Row
    BY SMT, <1>1 DEF WellFormed, Tail80
<1>5. ASSUME Read PROVE (p >= 2048 /\ IsScalar(p)) <=> Row
  <2> DEFINE q == (a - 224) * 64 + (b - 128)
  <2>1. p = q * 64 + (c - 128) /\ q \in Nat
    BY SMT, <1>5
  <2>2. Row <=> q >= 32 /\ q \notin 864..895
    BY SMT, <1>5
  <2>3. q <= 1023 /\ c - 128 \in 0..63
    BY SMT, <1>5
  <2> HIDE DEF p, q, Row
  <2>4. (p >= 2048 <=> q >= 32) /\ (p \in Surrogate <=> q \in 864..895) /\ p \in Nat /\ p <= 1114111
    BY SMTT(60), <2>1, <2>3 DEF Surrogate
  <2>5. QED
    BY <2>2, <2>4 DEF IsScalar
<1>6. QED
    BY SMT, <1>3, <1>4, <1>5

\* The k-th code point of the q-th page of 4096: a scalar value beyond the
\* first sixteen pages when there is such a page.
Page(q, k) == q * 4096 + k

LEMMA PageScalar ==
    ASSUME NEW q \in Nat, NEW k \in Nat, k < 4096
    PROVE  (Page(q, k) >= 65536 /\ IsScalar(Page(q, k))) <=> q \in 16..271
<1>1. Page(q, k) \in Nat
    BY SMT DEF Page
<1>2. Page(q, k) >= 65536 <=> q >= 16
    BY SMT DEF Page
<1>3. Page(q, k) <= 1114111 <=> q <= 271
    BY SMT DEF Page
<1>4. Page(q, k) >= 65536 => Page(q, k) \notin Surrogate
    BY SMT, <1>1 DEF Surrogate
<1>5. QED
    BY SMT, <1>1, <1>2, <1>3, <1>4 DEF IsScalar

LEMMA FourBytes ==
    ASSUME NEW a \in 0..255, NEW b \in 0..255, NEW c \in 0..255, NEW d \in 0..255
    PROVE  AcceptsSequence(<<a, b, c, d>>) <=> WellFormed(<<a, b, c, d>>)
<1> DEFINE s == <<a, b, c, d>>
           p == (((a % 8) * 64 + (b % 64)) * 64 + (c % 64)) * 64 + (d % 64)
           Read == a \in 240..247 /\ b \in 128..191 /\ c \in 128..191 /\ d \in 128..191
           Row == \/ a = 240 /\ b \in 144..191
                  \/ a \in 241..243 /\ b \in 128..191
                  \/ a = 244 /\ b \in 128..143
<1>1. Len(s) = 4 /\ s[1] = a /\ s[2] = b /\ s[3] = c /\ s[4] = d
    BY SMT
<1>2. Point(s) = p
    BY SMT, <1>1 DEF Point
<1>3. AcceptsSequence(s) <=> Read /\ p >= 65536 /\ IsScalar(p)
  <2>1. Announced(a) = 4 <=> a \in 240..247
    BY SMT DEF Announced
  <2>2. (\A n \in 2..4 : s[n] \in 128..191) <=> b \in 128..191 /\ c \in 128..191 /\ d \in 128..191
    BY SMT, <1>1
  <2>3. QED
    BY SMT, <1>1, <1>2, <2>1, <2>2 DEF AcceptsSequence, Least
<1>4. WellFormed(s) <=> c \in 128..191 /\ d \in 128..191 /\ Row
    BY SMT, <1>1 DEF WellFormed, Tail80
<1>5. ASSUME Read PROVE (p >= 65536 /\ IsScalar(p)) <=> Row
  <2> DEFINE q == (a - 240) * 64 + (b - 128)
             k == (c - 128) * 64 + (d - 128)
  <2>1. p = Page(q, k)
    BY SMT, <1>5 DEF Page
  <2>2. Row <=> q \in 16..271
    BY SMT, <1>5
  <2>3. q \in Nat /\ k \in Nat /\ k < 4096
    BY SMT, <1>5
  <2> HIDE DEF p, q, k, Row
  <2>4. QED
    BY SMT, <2>1, <2>2, <2>3, PageScalar
<1>6. QED
    BY SMT, <1>3, <1>4, <1>5

\* The check in append_utf8_sequence accepts exactly the well-formed sequences of
\* more than one byte: no overlong form, no surrogate, nothing beyond U+10FFFF,
\* and every one of the rest (json.hpp: "invalid UTF-8 is an error").
THEOREM AcceptsIsWellFormed ==
    ASSUME NEW s \in Seq(Byte), s # <<>>
    PROVE  AcceptsSequence(s) <=> WellFormed(s)
<1>1. Len(s) \in Nat /\ Len(s) # 0 /\ \A n \in 1..Len(s) : s[n] \in 0..255
    BY SMT, ElementOfSeq DEF Byte
<1>2. CASE Len(s) \notin {2, 3, 4}
  <2>1. Announced(s[1]) \in {0, 2, 3, 4}
    BY SMT DEF Announced
  <2>2. ~AcceptsSequence(s)
    <3>1. Len(s) # Announced(s[1])
      BY Zenon, <1>1, <1>2, <2>1
    <3>2. QED
      BY Zenon, <3>1 DEF AcceptsSequence
  <2>3. ~WellFormed(s)
    BY SMT, <1>2 DEF WellFormed
  <2>4. QED
    BY SMT, <2>2, <2>3
<1>3. CASE Len(s) = 2
  <2>1. s = <<s[1], s[2]>>
    BY SMT, <1>3
  <2>2. AcceptsSequence(<<s[1], s[2]>>) <=> WellFormed(<<s[1], s[2]>>)
    <3>1. s[1] \in 0..255 /\ s[2] \in 0..255
      BY SMT, <1>1, <1>3
    <3>2. QED
      BY Zenon, <3>1, TwoBytes
  <2>3. QED
    BY SMT, <2>1, <2>2
<1>4. CASE Len(s) = 3
  <2>1. s = <<s[1], s[2], s[3]>>
    BY SMT, <1>4
  <2>2. AcceptsSequence(<<s[1], s[2], s[3]>>) <=> WellFormed(<<s[1], s[2], s[3]>>)
    <3>1. s[1] \in 0..255 /\ s[2] \in 0..255 /\ s[3] \in 0..255
      BY SMT, <1>1, <1>4
    <3>2. QED
      BY Zenon, <3>1, ThreeBytes
  <2>3. QED
    BY SMT, <2>1, <2>2
<1>5. CASE Len(s) = 4
  <2>1. s = <<s[1], s[2], s[3], s[4]>>
    BY SMT, <1>5
  <2>2. AcceptsSequence(<<s[1], s[2], s[3], s[4]>>) <=> WellFormed(<<s[1], s[2], s[3], s[4]>>)
    <3>1. s[1] \in 0..255 /\ s[2] \in 0..255 /\ s[3] \in 0..255 /\ s[4] \in 0..255
      BY SMT, <1>1, <1>5
    <3>2. QED
      BY Zenon, <3>1, FourBytes
  <2>3. QED
    BY SMT, <2>1, <2>2
<1>6. QED
    BY SMT, <1>2, <1>3, <1>4, <1>5

\* What append_codepoint_utf8 writes for a scalar value of 128 or more is a
\* sequence that the check accepts, and stands for that value: what an escape or
\* a reference puts into a text can be read again.
THEOREM WrittenIsAccepted ==
    ASSUME NEW cp \in Nat, IsScalar(cp), cp >= 128
    PROVE  /\ AcceptsSequence(append_codepoint_utf8(cp))
           /\ Point(append_codepoint_utf8(cp)) = cp
<1> DEFINE s == append_codepoint_utf8(cp)
<1>1. cp \in Int /\ 128 <= cp /\ cp <= 1114111
    BY SMT DEF IsScalar
<1>2. CASE cp < 2048
  <2> DEFINE q == cp \div 64
             r == cp % 64
  <2>1. cp = 64 * q + r /\ r \in 0..63 /\ q \in 2..31
    BY SMT, <1>1, <1>2
  <2>2. s = <<192 + q, 128 + r>> /\ Len(s) = 2
    BY SMT, <1>1, <1>2 DEF append_codepoint_utf8
  <2>3. Point(s) = cp
    BY SMT, <2>1, <2>2 DEF Point
  <2>4. QED
    BY SMT, <1>1, <1>2, <2>1, <2>2, <2>3 DEF AcceptsSequence, Announced, Least
<1>3. CASE cp >= 2048 /\ cp < 65536
  <2> DEFINE q == cp \div 64
             p == cp \div 4096
             r == cp % 64
             t == q % 64
  <2>1. /\ cp = 64 * q + r /\ r \in 0..63 /\ q = 64 * p + t /\ t \in 0..63
        /\ q \in 32..1023 /\ p \in 0..15
    BY SMT, <1>1, <1>3
  <2>2. s = <<224 + p, 128 + t, 128 + r>> /\ Len(s) = 3
    BY SMT, <1>1, <1>3 DEF append_codepoint_utf8
  <2>3. Point(s) = cp
    BY SMT, <2>1, <2>2 DEF Point
  <2>4. QED
    BY SMT, <1>1, <1>3, <2>1, <2>2, <2>3 DEF AcceptsSequence, Announced, Least
<1>4. CASE cp >= 65536
  <2> DEFINE q == cp \div 64
             p == cp \div 4096
             o == cp \div 262144
             r == cp % 64
             t == q % 64
             u == p % 64
  <2>1. /\ cp = 64 * q + r /\ r \in 0..63 /\ q = 64 * p + t /\ t \in 0..63
        /\ p = 64 * o + u /\ u \in 0..63 /\ o \in 0..4
    BY SMT, <1>1, <1>4
  <2>2. s = <<240 + o, 128 + u, 128 + t, 128 + r>> /\ Len(s) = 4
    BY SMT, <1>1, <1>4 DEF append_codepoint_utf8
  <2>3. Point(s) = cp
    BY SMT, <2>1, <2>2 DEF Point
  <2>4. QED
    BY SMT, <1>1, <1>4, <2>1, <2>2, <2>3 DEF AcceptsSequence, Announced, Least
<1>5. QED
    BY SMT, <1>1, <1>2, <1>3, <1>4

-----------------------------------------------------------------------------
(* One fetch, from the request to the observations.                         *)

(* The transfer while what it says is relied on: the sink holds what the     *)
(* server sent, and no more than is allowed.                                *)
TransferInv ==
    /\ status \in Int /\ redirects \in Nat /\ sent \in Nat /\ sink \in Nat
    /\ transfer # ""
    /\ transfer \in Underway \cup {"answered"} =>
          /\ sink = sent /\ sink <= max_response_bytes /\ redirects <= max_redirects
          /\ status = 204 => sink = 0
    /\ transfer = "connecting" => sink = 0
    /\ transfer = "answered" => status \in 200..299

Reading == {"key", "get", "open", "body"} \cup Formats

Observation == [source : {"usgs", "isc", "firms", "file"}, of : Nat]

Item == [layout : Layouts, record : UNION {Records[layout] : layout \in Layouts}]

(* Where the fetch stands. *)
FetchInv ==
    /\ source \in {"usgs", "isc", "firms", "file"}
    /\ stage = "key" => source = "firms"
    /\ stage = "open" => source = "file"
    /\ stage = "get" /\ source # "firms" => error = ""
    /\ observations \in Seq(Observation)
    /\ listed \in Seq(Item)
    /\ stage \in Reading => ~no_data /\ listed = <<>> /\ observations = <<>>
    /\ stage \in Reading \cup Layouts => (unseen <=> error # "")
    /\ stage \in Formats \cup Layouts \cup {"open", "key"} => transfer = "connecting"
    /\ stage = "body" /\ source \in {"usgs", "isc"} =>
          transfer = "answered" /\ raw_body = sink /\ sink > 0
    /\ no_data => /\ stage = "done" /\ transfer = "answered" /\ sink = 0
                  /\ error = "" /\ observations = <<>>
    /\ stage \in Layouts => AreTheUsable(observations)
    /\ stage = "done" =>
          /\ transfer = "answered" /\ source \in {"usgs", "isc"} => no_data
          /\ unseen => error # ""
          /\ error # "" => unseen \/ observations = <<>>
          /\ AreTheUsable(observations)
          /\ \A k \in DOMAIN observations : observations[k].source = source

FetchesInv == TransferInv /\ FetchInv

LEMMA MoreSent ==
    ASSUME NEW n \in {1, 2}, write_cb(n), sent \in Nat
    PROVE  sent' \in Nat
  BY DEF write_cb

LEMMA TransferStep == TransferInv /\ HttpNext => TransferInv'
  <1> SUFFICES ASSUME TransferInv, HttpNext PROVE TransferInv'
    OBVIOUS
  <1> USE HttpAssumption DEF TransferInv, Underway
  <1>1. ASSUME NEW scheme \in {"https", "http"}, Redirect(scheme) PROVE TransferInv'
    <2>1. CASE scheme # "https" \/ redirects = max_redirects
      <3>1. transfer' = "redirect" /\ UNCHANGED <<redirects, status, sent, sink>>
        BY <1>1, <2>1 DEF Redirect
      <3> QED
        BY <3>1
    <2>2. CASE ~(scheme # "https" \/ redirects = max_redirects)
      <3>1. /\ redirects' = redirects + 1 /\ transfer = "connecting"
            /\ UNCHANGED <<transfer, status, sent, sink>>
        BY <1>1, <2>2 DEF Redirect
      <3>2. redirects' <= max_redirects
        BY <2>2, <3>1
      <3> QED
        BY <3>1, <3>2
    <2> QED
      BY <2>1, <2>2
  <1>2. ASSUME NEW code \in {200, 204, 503}, Respond(code) PROVE TransferInv'
    BY <1>2 DEF Respond
  <1>3. ASSUME NEW n \in {1, 2}, write_cb(n) PROVE TransferInv'
    <2>1. CASE sink + n > max_response_bytes
      <3>1. transfer' = "overflow" /\ sent' = sent + n /\ UNCHANGED <<sink, status, redirects>>
        BY <1>3, <2>1 DEF write_cb
      <3>2. status' \in Int /\ redirects' \in Nat /\ sink' \in Nat
        BY <3>1
      <3>3. sent' \in Nat
        BY <1>3, MoreSent
      <3>4. /\ transfer' # "" /\ transfer' # "connecting" /\ transfer' # "answered"
            /\ transfer' \notin Underway \cup {"answered"}
        BY <3>1
      <3> HIDE DEF Underway
      <3> QED
        BY <3>2, <3>3, <3>4
    <2>2. CASE ~(sink + n > max_response_bytes)
      <3>1. /\ transfer = "receiving" /\ status # 204 /\ sent' = sent + n /\ sink' = sink + n
            /\ UNCHANGED <<transfer, status, redirects>>
        BY <1>3, <2>2 DEF write_cb
      <3> QED
        BY <1>3, <2>2, <3>1
    <2> QED
      BY <2>1, <2>2
  <1>4. ASSUME TransferFails PROVE TransferInv'
    BY <1>4 DEF TransferFails
  <1>5. ASSUME TransferEnds PROVE TransferInv'
    BY <1>5 DEF TransferEnds
  <1> QED
    BY <1>1, <1>2, <1>3, <1>4, <1>5 DEF HttpNext

LEMMA TransferLeft == HttpLeft => TransferInv'
  BY HttpAssumption DEF HttpLeft, TransferInv, Underway

LEMMA UsableIsKept ==
    ASSUME NEW layout \in Layouts, NEW r \in Records[layout]
    PROVE  Usable([layout |-> layout, record |-> r]) <=> FateOf(layout, r) = "kept"
  <1>1. CASE layout = "features"
    BY <1>1 DEF Records, Usable, FateOf, FeatureFate
  <1>2. CASE layout = "events"
    BY <1>2 DEF Records, Usable, FateOf, EventFate
  <1>3. CASE layout = "entries"
    BY <1>3 DEF Records, Usable, FateOf, EntryFate
  <1>4. CASE layout = "rows"
    BY <1>4 DEF Records, Usable, FateOf, RowFate
  <1> QED
    BY <1>1, <1>2, <1>3, <1>4 DEF Layouts

LEMMA NothingKept ==
    ASSUME listed' = <<>>, observations' = <<>>
    PROVE  /\ AreTheUsable(observations)'
           /\ observations' \in Seq(Observation) /\ listed' \in Seq(Item)
           /\ DOMAIN observations' = {}
  <1>1. DOMAIN <<>> = {}
    OBVIOUS
  <1>2. UsableOnes' = {}
    BY <1>1 DEF UsableOnes
  <1> QED
    BY <1>1, <1>2 DEF AreTheUsable

(* As long as no document is read.                                          *)
LEMMA NothingYet ==
    ASSUME listed' = <<>>, observations' = <<>>,
           source' \in {"usgs", "isc", "firms", "file"},
           stage' \notin {"open", "key"}, stage' = "get" => source' = "firms",
           stage' \in Reading => ~no_data',
           stage' \in Reading \cup Layouts => (unseen' <=> error' # ""),
           stage' \in Formats \cup Layouts => transfer' = "connecting",
           stage' = "body" /\ source' \in {"usgs", "isc"} =>
              transfer' = "answered" /\ raw_body' = sink' /\ sink' > 0,
           no_data' => stage' = "done" /\ transfer' = "answered" /\ sink' = 0 /\ error' = "",
           stage' = "done" =>
              /\ transfer' = "answered" /\ source' \in {"usgs", "isc"} => no_data'
              /\ unseen' => error' # ""
    PROVE  FetchInv'
  <1> QED
    BY NothingKept DEF FetchInv

LEMMA FetchBegins == Init => FetchesInv
  <1> SUFFICES ASSUME Init PROVE FetchesInv
    OBVIOUS
  <1>1. /\ source \in Sources
        /\ stage = CASE source = "file"  -> "open"
                      [] source = "firms" -> "key"
                      [] OTHER            -> "get"
        /\ no_data = FALSE /\ error = "" /\ unseen = FALSE
        /\ listed = <<>> /\ observations = <<>> /\ transfer = "connecting"
    BY DEF Init, HttpInit
  <1>2. TransferInv
    <2>1. /\ transfer = "connecting" /\ status = 0 /\ redirects = 0 /\ sent = 0 /\ sink = 0
      BY DEF Init, HttpInit
    <2> QED
      BY <2>1, HttpAssumption DEF TransferInv, Underway
  <1>3. /\ source \in {"usgs", "isc", "firms", "file"}
        /\ stage \in {"get", "open", "key"}
        /\ stage = "open" => source = "file"
        /\ stage = "key" => source = "firms"
    BY <1>1, RetrievalAssumption
  <1>4. DOMAIN <<>> = {} /\ <<>> \in Seq(Observation) /\ <<>> \in Seq(Item)
    OBVIOUS
  <1>5. AreTheUsable(observations)
    BY <1>1, <1>4 DEF AreTheUsable, UsableOnes
  <1>6. FetchInv
    BY <1>1, <1>3, <1>4, <1>5 DEF FetchInv, Layouts
  <1> QED
    BY <1>2, <1>6 DEF FetchesInv

LEMMA TransferGoesOn == FetchesInv /\ Transfer => FetchesInv'
  <1> SUFFICES ASSUME FetchesInv, Transfer PROVE FetchesInv'
    OBVIOUS
  <1>1. TransferInv' /\ stage = "get" /\ UNCHANGED fetch
    BY TransferStep DEF FetchesInv, Transfer
  <1>2. FetchInv'
    BY <1>1 DEF FetchesInv, FetchInv, fetch, Reading, Formats, Layouts
  <1> QED
    BY <1>1, <1>2 DEF FetchesInv

LEMMA FirmsAsked == FetchesInv /\ AskFirms => FetchesInv'
  <1> SUFFICES ASSUME FetchesInv, AskFirms PROVE FetchesInv'
    OBVIOUS
  <1>1. TransferInv'
    BY DEF FetchesInv, AskFirms, http, TransferInv
  <1>2. /\ listed' = <<>> /\ observations' = <<>>
        /\ source' = "firms" /\ ~no_data' /\ transfer' = "connecting"
        /\ (unseen <=> error # "")
    BY DEF FetchesInv, FetchInv, AskFirms, Reading, http
  <1>3. CASE Fails("key")
    <2>1. stage' = "done" /\ error' # ""
      BY <1>3 DEF Fails, Ends
    <2> QED
      BY <1>1, <1>2, <2>1, NothingYet DEF FetchesInv, Reading, Formats, Layouts
  <1>4. CASE stage' = "get" /\ UNCHANGED <<error, unseen>>
    BY <1>1, <1>2, <1>4, NothingYet DEF FetchesInv, Reading, Formats, Layouts
  <1> QED
    BY <1>3, <1>4 DEF AskFirms

LEMMA AnswerTaken == FetchesInv /\ http_fetch => FetchesInv'
  <1> SUFFICES ASSUME FetchesInv, http_fetch PROVE FetchesInv'
    OBVIOUS
  <1>1. TransferInv'
    BY DEF FetchesInv, http_fetch, http, TransferInv
  <1>3. /\ listed' = <<>> /\ observations' = <<>>
        /\ source' \in {"usgs", "isc", "firms", "file"}
        /\ ~no_data /\ (unseen <=> error # "")
    BY DEF FetchesInv, FetchInv, http_fetch, Reading
  <1>4. transfer' = transfer /\ sink' = sink
    BY DEF http_fetch, http
  <1>5. FetchInv'
    <2>1. CASE transfer # "answered"
      <3>1. stage' = "done" /\ ~no_data' /\ error' # ""
        BY <1>3, <2>1 DEF http_fetch, Fails, Ends, FetchesInv, TransferInv
      <3> QED
        BY <1>3, <1>4, <2>1, <3>1, NothingYet DEF Reading, Formats, Layouts
    <2>2. CASE transfer = "answered" /\ (status = 204 \/ sink = 0)
      <3>1. sink = 0
        BY <2>2 DEF FetchesInv, TransferInv
      <3>2. stage' = "done" /\ no_data' /\ UNCHANGED <<error, unseen>>
        BY <2>2 DEF http_fetch
      <3>3. error = ""
        BY DEF FetchesInv, FetchInv, http_fetch
      <3> QED
        BY <1>3, <1>4, <2>2, <3>1, <3>2, <3>3, NothingYet DEF Reading, Formats, Layouts
    <2>3. CASE transfer = "answered" /\ ~(status = 204 \/ sink = 0)
      <3>1. stage' = "body" /\ ~no_data' /\ raw_body' = sink /\ UNCHANGED <<error, unseen>>
        BY <2>3 DEF http_fetch
      <3>2. sink > 0
        BY <2>3 DEF FetchesInv, TransferInv
      <3> QED
        BY <1>3, <1>4, <2>3, <3>1, <3>2, NothingYet DEF Reading, Formats, Layouts
    <2> QED
      BY <2>1, <2>2, <2>3
  <1> QED
    BY <1>1, <1>5 DEF FetchesInv

(* FIRMS has an error as soon as a part of its window is not to be had.      *)
LEMMA PartTaken == FetchesInv /\ FetchPart => FetchesInv'
  <1> SUFFICES ASSUME FetchesInv, FetchPart PROVE FetchesInv'
    OBVIOUS
  <1>1. TransferInv'
    <2>1. UNCHANGED http \/ HttpLeft
      BY DEF FetchPart
    <2> QED
      BY <2>1, TransferLeft DEF FetchesInv, http, TransferInv
  <1>2. stage' \in {"get", "body", "done"}
    BY DEF FetchPart, Fails, Ends, ParseMerged
  <1>3. /\ listed' = <<>> /\ observations' = <<>>
        /\ source' = "firms" /\ ~no_data' /\ (unseen <=> error # "")
    BY DEF FetchesInv, FetchInv, FetchPart, Reading
  <1>4. unseen' <=> error' # ""
    <2>1. CASE PartRecorded
      BY <2>1 DEF PartRecorded
    <2>2. CASE Fails("key")
      BY <1>3, <2>2 DEF Fails, Ends
    <2>3. CASE UNCHANGED <<error, unseen>>
      BY <1>3, <2>3
    <2> QED
      BY <2>1, <2>2, <2>3 DEF FetchPart
  <1>5. FetchInv'
    BY <1>2, <1>3, <1>4, NothingYet DEF Reading, Formats, Layouts
  <1> QED
    BY <1>1, <1>5 DEF FetchesInv

LEMMA FileOpened == FetchesInv /\ OpenFile => FetchesInv'
  <1> SUFFICES ASSUME FetchesInv, OpenFile PROVE FetchesInv'
    OBVIOUS
  <1>1. TransferInv'
    BY DEF FetchesInv, OpenFile, http, TransferInv
  <1>3. /\ listed' = <<>> /\ observations' = <<>>
        /\ source' = "file" /\ ~no_data' /\ (unseen <=> error # "")
    BY DEF FetchesInv, FetchInv, OpenFile, Reading
  <1>4. CASE Fails("file")
    <2>1. stage' = "done" /\ error' # ""
      BY <1>4 DEF Fails, Ends
    <2> QED
      BY <1>1, <1>3, <2>1, NothingYet DEF FetchesInv, Reading, Formats, Layouts
  <1>5. CASE stage' = "body" /\ UNCHANGED <<error, unseen>>
    BY <1>1, <1>3, <1>5, NothingYet DEF FetchesInv, Reading, Formats, Layouts
  <1> QED
    BY <1>4, <1>5 DEF OpenFile

LEMMA ParserBegins == ASSUME NEW format \in Formats PROVE FetchesInv /\ BeginParse(format) => FetchesInv'
  <1> SUFFICES ASSUME FetchesInv, BeginParse(format) PROVE FetchesInv'
    OBVIOUS
  <1>1. TransferInv' /\ transfer' = "connecting"
    BY TransferLeft DEF BeginParse, HttpLeft
  <1>2. /\ stage = "body"
        /\ \/ Fails("parse")
           \/ stage' = format /\ UNCHANGED <<error, unseen>>
    BY DEF BeginParse
  <1>3. /\ listed' = <<>> /\ observations' = <<>>
        /\ source' \in {"usgs", "isc", "firms", "file"}
        /\ ~no_data' /\ (unseen <=> error # "")
    BY <1>2 DEF FetchesInv, FetchInv, BeginParse, Reading
  <1>4. CASE Fails("parse")
    <2>1. stage' = "done" /\ error' # ""
      BY <1>4 DEF Fails, Ends
    <2> QED
      BY <1>1, <1>3, <2>1, NothingYet DEF FetchesInv, Reading, Formats, Layouts
  <1>5. CASE stage' = format /\ UNCHANGED <<error, unseen>>
    BY <1>1, <1>3, <1>5, NothingYet DEF FetchesInv, Reading, Formats, Layouts
  <1> QED
    BY <1>2, <1>4, <1>5

LEMMA ParserGoesOn == FetchesInv /\ (ParseJson \/ ParseXml \/ ParseCsv) => FetchesInv'
  <1> SUFFICES ASSUME FetchesInv, ParseJson \/ ParseXml \/ ParseCsv PROVE FetchesInv'
    OBVIOUS
  <1>1. UNCHANGED <<http, fetch>>
    BY DEF ParseJson, ParseXml, ParseCsv
  <1>2. TransferInv'
    BY <1>1 DEF FetchesInv, TransferInv, http
  <1>3. (AreTheUsable(observations) <=> AreTheUsable(observations)')
    BY <1>1 DEF AreTheUsable, UsableOnes, fetch
  <1>4. FetchInv'
    BY <1>1, <1>3 DEF FetchesInv, FetchInv, fetch, http
  <1> QED
    BY <1>2, <1>4 DEF FetchesInv

LEMMA DocumentReturned == FetchesInv /\ ParseReturns => FetchesInv'
  <1> SUFFICES ASSUME FetchesInv, ParseReturns PROVE FetchesInv'
    OBVIOUS
  <1>1. TransferInv'
    BY DEF FetchesInv, TransferInv, ParseReturns, http
  <1>2. /\ stage \in Formats
        /\ \/ \E what \in {"parse", "layout"} : Fails(what)
           \/ stage' \in {"thrown"} \cup Layouts /\ UNCHANGED <<error, unseen>>
    BY DEF ParseReturns, LayoutsIn, Layouts
  <1>3. /\ listed' = <<>> /\ observations' = <<>>
        /\ source' \in {"usgs", "isc", "firms", "file"}
        /\ ~no_data' /\ (unseen <=> error # "") /\ transfer' = "connecting"
    BY <1>2 DEF FetchesInv, FetchInv, ParseReturns, Reading, http
  <1>4. CASE \E what \in {"parse", "layout"} : Fails(what)
    <2>1. stage' = "done" /\ error' # ""
      BY <1>4 DEF Fails, Ends
    <2> QED
      BY <1>1, <1>3, <2>1, NothingYet DEF FetchesInv, Reading, Formats, Layouts
  <1>5. CASE stage' \in {"thrown"} \cup Layouts /\ UNCHANGED <<error, unseen>>
    BY <1>1, <1>3, <1>5, NothingYet DEF FetchesInv, Reading, Formats, Layouts
  <1> QED
    BY <1>2, <1>4, <1>5

(* The record read is one more, and the last.                               *)
LEMMA RecordRead ==
    ASSUME NEW r \in Records[stage], stage \in Layouts, FetchesInv, ReadRecord(r)
    PROVE  FetchesInv'
  <1> DEFINE l == [layout |-> stage, record |-> r]
             n == Len(listed) + 1
             o == [source |-> LoopSource, of |-> n]
  <1>1. TransferInv'
    BY DEF FetchesInv, TransferInv, ReadRecord, http
  <1>2. /\ listed' = Append(listed, l)
        /\ source' = source /\ error' = error /\ no_data' = no_data /\ unseen' = unseen
        /\ transfer' = transfer
        /\ observations' = IF FateOf(stage, r) = "kept" THEN Append(observations, o)
                                                       ELSE observations
        /\ stage' = IF FateOf(stage, r) = "thrown" THEN "thrown" ELSE stage
    BY DEF ReadRecord, http
  <1>3. /\ listed \in Seq(Item) /\ observations \in Seq(Observation)
        /\ source \in {"usgs", "isc", "firms", "file"}
    BY DEF FetchesInv, FetchInv
  <1>4. /\ (unseen <=> error # "") /\ transfer = "connecting"
        /\ ~no_data /\ AreTheUsable(observations)
    BY DEF FetchesInv, FetchInv, Layouts
  <1>5. l \in Item
    BY DEF Item
  <1>6. Len(listed) \in Nat /\ DOMAIN listed = 1..Len(listed)
    BY <1>3
  <1>7. o \in Observation
    BY <1>3, <1>6 DEF Observation, LoopSource
  <1> HIDE DEF o, l
  <1>8. /\ listed' \in Seq(Item)
        /\ DOMAIN listed' = 1..n /\ Len(listed') = n /\ n \in Nat
        /\ \A m \in 1..n : listed'[m] = IF m = n THEN l ELSE listed[m]
    BY <1>2, <1>3, <1>5, <1>6
  <1>9. observations' \in Seq(Observation)
    BY <1>2, <1>3, <1>7
  <1>10. Usable(l) <=> FateOf(stage, r) = "kept"
    BY UsableIsKept DEF l
  <1>11. UsableOnes' = IF FateOf(stage, r) = "kept" THEN UsableOnes \cup {n} ELSE UsableOnes
    <2>1. UsableOnes' = {m \in 1..n : Usable(IF m = n THEN l ELSE listed[m])}
      BY <1>8 DEF UsableOnes
    <2>2. UsableOnes = {m \in 1..Len(listed) : Usable(listed[m])}
      BY <1>6 DEF UsableOnes
    <2> QED
      BY <1>6, <1>10, <2>1, <2>2
  <1>12. AreTheUsable(observations)'
    <2>1. CASE FateOf(stage, r) # "kept"
      BY <1>2, <1>4, <1>11, <2>1 DEF AreTheUsable
    <2>2. CASE FateOf(stage, r) = "kept"
      <3>1. /\ DOMAIN observations' = 1..(Len(observations) + 1)
            /\ DOMAIN observations = 1..Len(observations) /\ Len(observations) \in Nat
            /\ observations'[Len(observations) + 1] = o
            /\ \A k \in 1..Len(observations) : observations'[k] = observations[k]
        BY <1>2, <1>3, <1>7, <2>2
      <3>2. \A k \in 1..Len(observations) :
               observations[k].of \in UsableOnes /\ observations[k].of \in 1..Len(listed)
        BY <1>4, <1>6, <3>1 DEF AreTheUsable, UsableOnes
      <3>3. o.of = n /\ n \notin UsableOnes
        BY <1>6 DEF o, UsableOnes
      <3>4. UsableOnes' = UsableOnes \cup {n}
        BY <1>11, <2>2
      <3>5. \A k \in DOMAIN observations' : observations'[k].of \in UsableOnes'
        BY <3>1, <3>2, <3>3, <3>4
      <3>6. \A m \in UsableOnes' : \E k \in DOMAIN observations' : observations'[k].of = m
        <4>1. \A m \in UsableOnes : \E k \in 1..Len(observations) : observations[k].of = m
          BY <1>4, <3>1 DEF AreTheUsable
        <4>2. Len(observations) + 1 \in DOMAIN observations'
          BY <3>1
        <4>3. observations'[Len(observations) + 1].of = n
          BY <3>1, <3>3
        <4> QED
          BY <3>1, <3>4, <4>1, <4>2, <4>3
      <3>7. \A j, k \in DOMAIN observations' :
               j < k => observations'[j].of < observations'[k].of
        <4>1. \A j, k \in 1..Len(observations) : j < k => observations[j].of < observations[k].of
          BY <1>4, <3>1 DEF AreTheUsable
        <4>2. \A j \in 1..Len(observations) : observations[j].of < o.of
          BY <1>6, <3>2, <3>3
        <4> SUFFICES ASSUME NEW j \in 1..(Len(observations) + 1),
                            NEW k \in 1..(Len(observations) + 1), j < k
                     PROVE  observations'[j].of < observations'[k].of
          BY <3>1
        <4>3. j \in 1..Len(observations)
          BY <3>1
        <4>4. CASE k \in 1..Len(observations)
          BY <3>1, <4>1, <4>3, <4>4
        <4>5. CASE k = Len(observations) + 1
          BY <3>1, <4>2, <4>3, <4>5
        <4> QED
          BY <3>1, <4>4, <4>5
      <3> QED
        BY <3>5, <3>6, <3>7 DEF AreTheUsable
    <2> QED
      BY <2>1, <2>2
  <1>13. stage' \in {"thrown"} \cup Layouts
    BY <1>2
  <1>14. /\ source' = source /\ ~no_data' /\ (unseen' <=> error' # "")
         /\ transfer' = "connecting"
    BY <1>2, <1>4
  <1>15. FetchInv'
    BY <1>3, <1>8, <1>9, <1>12, <1>13, <1>14 DEF FetchInv, Reading, Formats, Layouts
  <1> QED
    BY <1>1, <1>15 DEF FetchesInv

LEMMA RecordsEnd == FetchesInv /\ EndRecords => FetchesInv'
  <1> SUFFICES ASSUME FetchesInv, EndRecords PROVE FetchesInv'
    OBVIOUS
  <1>1. TransferInv'
    BY DEF FetchesInv, TransferInv, EndRecords, http
  <1>2. /\ stage \in Layouts /\ stage' = "done"
        /\ error' = IF error # "" THEN error ELSE IF NoEvents THEN "no events" ELSE ""
        /\ listed' = listed /\ source' = source /\ no_data' = no_data
        /\ unseen' = unseen /\ transfer' = transfer
        /\ observations' = [n \in DOMAIN observations |-> Rebranded(observations[n])]
    BY DEF EndRecords, Ends, http
  <1>3. /\ listed \in Seq(Item) /\ observations \in Seq(Observation)
        /\ source \in {"usgs", "isc", "firms", "file"}
    BY DEF FetchesInv, FetchInv
  <1>4. /\ ~no_data /\ AreTheUsable(observations)
        /\ (unseen <=> error # "") /\ transfer = "connecting"
    BY <1>2 DEF FetchesInv, FetchInv, Layouts
  <1>5. \A o \in Observation : /\ Rebranded(o) \in Observation
                             /\ Rebranded(o).of = o.of /\ Rebranded(o).source = source
    BY <1>3 DEF Rebranded, Observation
  <1>6. /\ DOMAIN observations' = DOMAIN observations
        /\ observations' \in Seq(Observation)
        /\ \A n \in DOMAIN observations : /\ observations'[n].of = observations[n].of
                                        /\ observations'[n].source = source
    <2>1. \A n \in DOMAIN observations : observations[n] \in Observation
      BY <1>3
    <2>2. /\ DOMAIN observations' = DOMAIN observations
          /\ \A n \in DOMAIN observations : observations'[n] = Rebranded(observations[n])
      BY <1>2
    <2>3. observations' \in Seq(Observation)
      <3>1. Len(observations) \in Nat /\ DOMAIN observations = 1..Len(observations)
        BY <1>3
      <3>2. observations' \in [1..Len(observations) -> Observation]
        BY <1>2, <1>5, <2>1, <3>1, Zenon
      <3> QED
        BY <3>1, <3>2
    <2> QED
      BY <1>5, <2>1, <2>2, <2>3
  <1>7. UsableOnes' = UsableOnes
    BY <1>2 DEF UsableOnes
  <1>8. AreTheUsable(observations)'
    BY <1>4, <1>6, <1>7 DEF AreTheUsable
  <1>9. /\ unseen' => error' # ""
        /\ error' # "" => unseen' \/ observations' = <<>>
    <2>1. error' # "" => unseen \/ observations = <<>>
      BY <1>2, <1>4 DEF NoEvents
    <2>3. unseen' => error' # ""
      BY <1>2, <1>4
    <2>2. observations = <<>> => observations' = <<>>
      <3> SUFFICES ASSUME observations = <<>> PROVE observations' = <<>>
        OBVIOUS
      <3>1. DOMAIN observations' = {}
        BY <1>6
      <3> QED
        BY <1>6, <3>1
    <2> QED
      BY <1>2, <2>1, <2>2, <2>3
  <1>10. FetchInv'
    BY <1>2, <1>3, <1>4, <1>6, <1>8, <1>9 DEF FetchInv, Reading, Formats, Layouts
  <1> QED
    BY <1>1, <1>10 DEF FetchesInv

(* What holds of a fetch whatever was asked, answered and read.             *)
THEOREM FetchInductive == Spec => []FetchesInv
  <1>1. FetchesInv /\ [Next]_vars => FetchesInv'
    <2> SUFFICES ASSUME FetchesInv, [Next]_vars PROVE FetchesInv'
      OBVIOUS
    <2>1. CASE UNCHANGED vars
      <3>1. AreTheUsable(observations)' <=> AreTheUsable(observations)
        BY <2>1 DEF AreTheUsable, UsableOnes, vars, fetch
      <3>2. UNCHANGED <<transfer, status, redirects, sent, sink>>
        BY <2>1 DEF vars, http
      <3>3. UNCHANGED <<source, stage, raw_body, no_data, error, unseen, listed, observations>>
        BY <2>1 DEF vars, fetch
      <3>4. TransferInv'
        BY <3>2 DEF FetchesInv, TransferInv
      <3>5. FetchInv'
        BY <3>1, <3>2, <3>3, ZenonT(60) DEF FetchesInv, FetchInv
      <3> QED
        BY <3>4, <3>5 DEF FetchesInv
    <2> QED
      BY <2>1, FirmsAsked, TransferGoesOn, AnswerTaken, PartTaken, FileOpened, ParserBegins, ParserGoesOn,
         DocumentReturned, RecordRead, RecordsEnd DEF Next
  <1> QED
    BY <1>1, FetchBegins, PTL DEF Spec

(* "We could not look" is never told as "no events here", whatever was asked,  *)
(* answered and read: a fetch that was refused a part of what it asked for, or *)
(* could not read it, has an error; USGS and ISC parse only the whole of a 2xx *)
(* answer, and say "no data" of an empty one; and whether there is an error or *)
(* not, what comes with it is every usable record of the document read, once,  *)
(* in order, under the adapter's name (source.hpp:36, http.hpp:48).           *)
THEOREM FetchTruthful == Spec => []FetchTellsTheTruth
  <1>1. FetchesInv => FetchTellsTheTruth
    BY DEF FetchesInv, TransferInv, FetchInv, FetchTellsTheTruth, Underway
  <1> QED
    BY <1>1, FetchInductive, PTL

(* Before a parser begins there is nothing for it to read.                   *)
LEMMA NotParsing ==
    ASSUME AskFirms \/ http_fetch \/ FetchPart \/ OpenFile
    PROVE  /\ UNCHANGED <<document, csv>>
           /\ stage \notin Formats \cup Layouts /\ stage' \notin Formats \cup Layouts
  <1>1. UNCHANGED <<document, csv>>
    BY DEF AskFirms, http_fetch, FetchPart, OpenFile
  <1>2. stage \in {"key", "get", "open"} /\ stage' \in {"get", "body", "done"}
    BY DEF AskFirms, http_fetch, FetchPart, OpenFile, Fails, Ends, ParseMerged
  <1> QED
    BY <1>1, <1>2 DEF Formats, Layouts

-----------------------------------------------------------------------------
(* A table, from its text.                                                  *)

(* f[n] is the first n parts of s put together, as the fold of FlattenSeq does. *)
Turns(f, s, n) == f = [i \in 1..n |-> IF i = 1 THEN s[i] ELSE f[i - 1] \o s[i]]

LEMMA FlattenExists ==
    ASSUME NEW S, NEW s \in Seq(Seq(S))
    PROVE  \A n \in 0..Len(s) : \E f : Turns(f, s, n) /\ f \in [1..n -> Seq(S)]
  <1> DEFINE P(n) == \E f : Turns(f, s, n) /\ f \in [1..n -> Seq(S)]
             Bad == {n \in 0..Len(s) : ~P(n)}
  <1>1. P(0)
    <2>1. Turns([i \in 1..0 |-> <<>>], s, 0) /\ [i \in 1..0 |-> <<>>] \in [1..0 -> Seq(S)]
      BY DEF Turns
    <2> QED
      BY <2>1
  <1>2. ASSUME NEW n \in 0..(Len(s) - 1), P(n) PROVE P(n + 1)
    <2>1. PICK f : Turns(f, s, n) /\ f \in [1..n -> Seq(S)]
      BY <1>2
    <2> DEFINE g == [i \in 1..(n + 1) |->
                       IF i = n + 1 THEN IF i = 1 THEN s[i] ELSE f[i - 1] \o s[i] ELSE f[i]]
    <2>2. \A i \in 1..n : f[i] = IF i = 1 THEN s[i] ELSE f[i - 1] \o s[i]
      BY <2>1 DEF Turns
    <2>5. n + 1 \in 1..Len(s) /\ s[n + 1] \in Seq(S) /\ n \in Nat
      OBVIOUS
    <2>3. \A i \in 1..(n + 1) : g[i] = IF i = 1 THEN s[i] ELSE g[i - 1] \o s[i]
      <3> TAKE i \in 1..(n + 1)
      <3>1. CASE i = n + 1
        <4>1. g[i] = IF i = 1 THEN s[i] ELSE f[i - 1] \o s[i]
          BY <3>1
        <4>2. i # 1 => g[i - 1] = f[i - 1]
          BY <2>5, <3>1
        <4> HIDE DEF g
        <4> QED
          BY <4>1, <4>2
      <3>2. CASE i # n + 1
        <4>1. i \in 1..n
          BY <2>5, <3>2
        <4>2. g[i] = f[i]
          BY <3>2
        <4>3. i # 1 => g[i - 1] = f[i - 1]
          BY <2>5, <4>1
        <4> HIDE DEF g
        <4> QED
          BY <2>2, <4>1, <4>2, <4>3
      <3> QED
        BY <3>1, <3>2
    <2>4. Turns(g, s, n + 1)
      BY <2>3 DEF Turns
    <2>6. \A i \in 1..(n + 1) : g[i] \in Seq(S)
      <3> TAKE i \in 1..(n + 1)
      <3>1. CASE i <= n
        BY <2>1, <3>1, <2>5
      <3>2. CASE i = n + 1 /\ i = 1
        BY <2>5, <3>2
      <3>3. CASE i = n + 1 /\ i # 1
        <4>1. f[n] \in Seq(S)
          BY <2>1, <2>5, <3>3
        <4>2. i - 1 = n /\ i = n + 1 /\ i # 1
          BY <2>5, <3>3
        <4>3. g[n + 1] = f[n] \o s[n + 1]
          BY <2>3, <2>5, <4>2
        <4> HIDE DEF g
        <4>4. f[n] \o s[n + 1] \in Seq(S)
          BY <2>5, <4>1
        <4> QED
          BY <4>2, <4>3, <4>4
      <3> QED
        BY <3>1, <3>2, <3>3
    <2>7. g \in [1..(n + 1) -> Seq(S)]
      BY <2>6
    <2> QED
      BY <2>4, <2>7
  <1> HIDE DEF P
  <1>3. Bad = {}
    <2> SUFFICES ASSUME Bad # {} PROVE FALSE
      OBVIOUS
    <2>1. PICK n \in Bad : \A m \in Bad : n <= m
      <3>1. Bad \subseteq Nat
        OBVIOUS
      <3> QED
        BY <3>1, LeastNatural
    <2>2. n \in Nat /\ n # 0
      BY <1>1, <2>1
    <2>3. n - 1 \in 0..(Len(s) - 1) /\ n - 1 \notin Bad
      BY <2>1, <2>2
    <2> QED
      BY <1>2, <2>1, <2>2, <2>3
  <1> QED
    BY <1>3 DEF P

LEMMA FlattenIs ==
    ASSUME NEW S, NEW s \in Seq(Seq(S)), s # <<>>
    PROVE  \E f : Turns(f, s, Len(s)) /\ FlattenSeq(s) = f[Len(s)]
  <1> DEFINE F == CHOOSE f : Turns(f, s, Len(s))
  <1>1. Turns(F, s, Len(s))
    <2>1. Len(s) \in 0..Len(s)
      OBVIOUS
    <2>2. \E f : Turns(f, s, Len(s))
      BY <2>1, FlattenExists
    <2> QED
      BY <2>2, Zenon
  <1>2. Len(s) # 0
    OBVIOUS
  <1>3. F = CHOOSE f : f = [i \in 1..Len(s) |-> IF i = 1 THEN s[i] ELSE f[i - 1] \o s[i]]
    BY DEF Turns
  <1> HIDE DEF F
  <1>4. FlattenSeq(s) = F[Len(s)]
    BY <1>2, <1>3 DEF FlattenSeq
  <1> QED
    BY <1>1, <1>4

LEMMA FlattenNone == FlattenSeq(<<>>) = <<>>
  BY DEF FlattenSeq

Same(s, t, k) == \A i \in 1..k : s[i] = t[i]

(* Two of them agree as far as their sequences do.                          *)
LEMMA TurnsAgree ==
    ASSUME NEW f, NEW g, NEW s, NEW t, NEW n \in Nat, NEW k \in Nat
    PROVE  Turns(f, s, k) /\ Turns(g, t, n) /\ k <= n /\ Same(s, t, k) => Same(f, g, k)
  <1> SUFFICES ASSUME Turns(f, s, k), Turns(g, t, n), k <= n, Same(s, t, k)
               PROVE  Same(f, g, k)
    OBVIOUS
  <1> DEFINE Bad == {i \in 1..k : f[i] # g[i]}
  <1>1. /\ \A i \in 1..k : f[i] = IF i = 1 THEN s[i] ELSE f[i - 1] \o s[i]
        /\ \A i \in 1..k : g[i] = IF i = 1 THEN t[i] ELSE g[i - 1] \o t[i]
    <2>1. \A i \in 1..k : i \in 1..n
      OBVIOUS
    <2>2. \A i \in 1..k : f[i] = IF i = 1 THEN s[i] ELSE f[i - 1] \o s[i]
      BY Zenon DEF Turns
    <2>3. \A i \in 1..n : g[i] = IF i = 1 THEN t[i] ELSE g[i - 1] \o t[i]
      BY Zenon DEF Turns
    <2> QED
      BY <2>1, <2>2, <2>3, Zenon
  <1> SUFFICES ASSUME Bad # {} PROVE FALSE
    BY DEF Same
  <1>2. Bad \subseteq Nat
    OBVIOUS
  <1>3. PICK n0 \in Bad : \A j \in Bad : n0 <= j
    BY <1>2, LeastNatural
  <1>4. n0 \in 1..k /\ f[n0] # g[n0] /\ s[n0] = t[n0]
    BY <1>3 DEF Same
  <1>5. n0 # 1
    BY <1>1, <1>4
  <1>6. n0 - 1 \in 1..k /\ n0 - 1 \notin Bad
    BY <1>3, <1>4, <1>5
  <1>7. f[n0 - 1] = g[n0 - 1]
    BY <1>6
  <1> QED
    BY <1>1, <1>4, <1>5, <1>7

LEMMA FlattenOne ==
    ASSUME NEW S, NEW t \in Seq(S)
    PROVE  FlattenSeq(<<t>>) = t
  <1>1. <<t>> \in Seq(Seq(S)) /\ <<t>> # <<>> /\ Len(<<t>>) = 1
    OBVIOUS
  <1>2. PICK f : Turns(f, <<t>>, 1) /\ FlattenSeq(<<t>>) = f[1]
    BY <1>1, FlattenIs
  <1> QED
    BY <1>2 DEF Turns

LEMMA FlattenTyped ==
    ASSUME NEW S, NEW s \in Seq(Seq(S))
    PROVE  FlattenSeq(s) \in Seq(S)
  <1>1. CASE s = <<>>
    <2>1. FlattenSeq(s) = <<>>
      BY <1>1, FlattenNone
    <2> QED
      BY <2>1
  <1>2. CASE s # <<>>
    <2>1. PICK f : Turns(f, s, Len(s)) /\ FlattenSeq(s) = f[Len(s)]
      BY <1>2, FlattenIs
    <2>2. Len(s) \in 0..Len(s) /\ Len(s) \in Nat /\ Len(s) # 0
      BY <1>2
    <2>3. PICK g : Turns(g, s, Len(s)) /\ g \in [1..Len(s) -> Seq(S)]
      BY <2>2, FlattenExists
    <2>4. f = g
      <3>1. Len(s) <= Len(s) /\ Same(s, s, Len(s))
        BY <2>2 DEF Same
      <3>2. Same(f, g, Len(s))
        BY <2>1, <2>2, <2>3, <3>1, TurnsAgree, Zenon
      <3> QED
        BY <2>1, <2>3, <3>2 DEF Turns, Same
    <2>5. g[Len(s)] \in Seq(S)
      <3>1. Len(s) \in 1..Len(s)
        BY <2>2
      <3> QED
        BY <2>3, <3>1
    <2> QED
      BY <2>1, <2>4, <2>5
  <1> QED
    BY <1>1, <1>2

(* The flattening of one more part.                                         *)
LEMMA FlattenLonger ==
    ASSUME NEW S, NEW a \in Seq(Seq(S)), NEW b \in Seq(Seq(S)), NEW n \in Nat
    PROVE  Len(a) = n /\ Len(b) = n + 1 /\ Same(a, b, n)
              => FlattenSeq(b) = FlattenSeq(a) \o b[n + 1]
  <1> SUFFICES ASSUME Len(a) = n, Len(b) = n + 1, Same(a, b, n)
               PROVE  FlattenSeq(b) = FlattenSeq(a) \o b[n + 1]
    OBVIOUS
  <1>1. b[n + 1] \in Seq(S)
    OBVIOUS
  <1>2. PICK g : Turns(g, b, n + 1) /\ FlattenSeq(b) = g[n + 1]
    <2>1. b # <<>>
      BY <1>1
    <2> QED
      BY <1>1, <2>1, FlattenIs
  <1>3. CASE n = 0
    <2>1. a = <<>>
      BY <1>1, <1>3
    <2>2. g[1] = b[1]
      <3>1. 1 \in 1..(n + 1)
        BY <1>1
      <3> QED
        BY <1>2, <3>1 DEF Turns
    <2>3. FlattenSeq(a) = <<>>
      BY <2>1, FlattenNone
    <2>4. FlattenSeq(b) = b[n + 1]
      BY <1>1, <1>2, <1>3, <2>2
    <2> QED
      BY <1>1, <2>3, <2>4
  <1>4. CASE n # 0
    <2>1. a # <<>>
      BY <1>1, <1>4
    <2>2. PICK f : Turns(f, a, n) /\ FlattenSeq(a) = f[n]
      BY <1>1, <2>1, FlattenIs
    <2>3. Same(f, g, n)
      <3>1. n + 1 \in Nat /\ n <= n + 1
        OBVIOUS
      <3> QED
        BY <1>2, <2>2, <3>1, TurnsAgree, Zenon
    <2>4. g[n + 1] = g[n] \o b[n + 1]
      <3>1. n + 1 \in 1..(n + 1) /\ n + 1 # 1 /\ (n + 1) - 1 = n
        BY <1>1, <1>4
      <3>2. \A i \in 1..(n + 1) : g[i] = IF i = 1 THEN b[i] ELSE g[i - 1] \o b[i]
        BY <1>2, Zenon DEF Turns
      <3> QED
        BY <3>1, <3>2, Zenon
    <2>5. f[n] = g[n]
      BY <1>1, <1>4, <2>3 DEF Same
    <2> QED
      BY <1>1, <1>2, <2>2, <2>4, <2>5
  <1> QED
    BY <1>3, <1>4

LEMMA FlattenMore ==
    ASSUME NEW S, NEW s \in Seq(Seq(S)), NEW n \in 0..(Len(s) - 1)
    PROVE  FlattenSeq(SubSeq(s, 1, n + 1)) = FlattenSeq(SubSeq(s, 1, n)) \o s[n + 1]
  <1> DEFINE a == SubSeq(s, 1, n)
             b == SubSeq(s, 1, n + 1)
  <1>1. /\ n \in Nat /\ a \in Seq(Seq(S)) /\ b \in Seq(Seq(S))
        /\ Len(a) = n /\ Len(b) = n + 1 /\ b[n + 1] = s[n + 1]
    OBVIOUS
  <1>2. Same(a, b, n)
    BY DEF Same
  <1> HIDE DEF a, b
  <1>3. FlattenSeq(b) = FlattenSeq(a) \o b[n + 1]
    BY <1>1, <1>2, FlattenLonger, Zenon
  <1> QED
    BY <1>1, <1>3, Zenon DEF a, b

(* Where the parts of a flattened sequence are.                             *)
Upto(s, n) == FlattenSeq(SubSeq(s, 1, n))
Offset(s, n) == Len(Upto(s, n))

(* w is in t, after the first p.                                            *)
Holds(t, p, w) == p + Len(w) <= Len(t) /\ \A k \in 1..Len(w) : t[p + k] = w[k]

LEMMA UptoNone == ASSUME NEW S, NEW s \in Seq(Seq(S)) PROVE Upto(s, 0) = <<>>
  <1>1. SubSeq(s, 1, 0) = <<>>
    OBVIOUS
  <1> QED
    BY <1>1, FlattenNone DEF Upto

LEMMA UptoAll == ASSUME NEW S, NEW s \in Seq(Seq(S)) PROVE Upto(s, Len(s)) = FlattenSeq(s)
  <1>1. SubSeq(s, 1, Len(s)) = s
    OBVIOUS
  <1> QED
    BY <1>1 DEF Upto

LEMMA UptoTyped ==
    ASSUME NEW S, NEW s \in Seq(Seq(S)), NEW n \in 0..Len(s)
    PROVE  Upto(s, n) \in Seq(S)
  <1>1. SubSeq(s, 1, n) \in Seq(Seq(S))
    OBVIOUS
  <1> QED
    BY <1>1, FlattenTyped DEF Upto

LEMMA UptoMore ==
    ASSUME NEW S, NEW s \in Seq(Seq(S)), NEW n \in 0..(Len(s) - 1)
    PROVE  Upto(s, n + 1) = Upto(s, n) \o s[n + 1]
  BY FlattenMore DEF Upto

LEMMA Offsets ==
    ASSUME NEW S, NEW s \in Seq(Seq(S))
    PROVE  /\ Offset(s, 0) = 0
           /\ \A n \in 0..Len(s) : Offset(s, n) \in Nat
           /\ \A n \in 0..(Len(s) - 1) : Offset(s, n + 1) = Offset(s, n) + Len(s[n + 1])
           /\ Offset(s, Len(s)) = Len(FlattenSeq(s))
  <1>1. Offset(s, 0) = 0
    BY UptoNone DEF Offset
  <1>2. ASSUME NEW n \in 0..Len(s) PROVE Offset(s, n) \in Nat
    BY UptoTyped DEF Offset
  <1>3. ASSUME NEW n \in 0..(Len(s) - 1)
        PROVE  Offset(s, n + 1) = Offset(s, n) + Len(s[n + 1])
    <2>1. Upto(s, n) \in Seq(S) /\ s[n + 1] \in Seq(S)
      BY UptoTyped
    <2>2. Upto(s, n + 1) = Upto(s, n) \o s[n + 1]
      BY UptoMore
    <2> QED
      BY <2>1, <2>2 DEF Offset
  <1>4. Offset(s, Len(s)) = Len(FlattenSeq(s))
    BY UptoAll DEF Offset
  <1> QED
    BY <1>1, <1>2, <1>3, <1>4

LEMMA FunctionIsSeq ==
    ASSUME NEW S, NEW n \in Nat, NEW s \in [1..n -> S]
    PROVE  s \in Seq(S) /\ Len(s) = n
  OBVIOUS

LEMMA HoldsLonger ==
    ASSUME NEW S, NEW t \in Seq(S), NEW u \in Seq(S), NEW w \in Seq(S), NEW p \in Nat
    PROVE  Holds(t, p, w) => Holds(t \o u, p, w)
  BY DEF Holds

LEMMA HoldsWithin ==
    ASSUME NEW S, NEW t \in Seq(S), NEW w \in Seq(S), NEW v \in Seq(S),
           NEW p \in Nat, NEW o \in Nat
    PROVE  Holds(t, p, w) /\ Holds(w, o, v) => Holds(t, p + o, v)
  <1> SUFFICES ASSUME Holds(t, p, w), Holds(w, o, v) PROVE Holds(t, p + o, v)
    OBVIOUS
  <1>1. p + o + Len(v) <= Len(t)
    BY DEF Holds
  <1>2. ASSUME NEW k \in 1..Len(v) PROVE t[p + o + k] = v[k]
    <2>1. o + k \in 1..Len(w) /\ w[o + k] = v[k] /\ p + (o + k) = p + o + k
      BY DEF Holds
    <2> QED
      BY <2>1 DEF Holds
  <1> QED
    BY <1>1, <1>2 DEF Holds

LEMMA PartsHeld ==
    ASSUME NEW S, NEW s \in Seq(Seq(S))
    PROVE  \A n \in 0..(Len(s) - 1) : Holds(FlattenSeq(s), Offset(s, n), s[n + 1])
  <1> DEFINE P(m) == \A n \in 0..(m - 1) : Holds(Upto(s, m), Offset(s, n), s[n + 1])
             Bad == {m \in 0..Len(s) : ~P(m)}
  <1>1. P(0)
    OBVIOUS
  <1>2. ASSUME NEW m \in 0..(Len(s) - 1), P(m) PROVE P(m + 1)
    <2>1. Upto(s, m + 1) = Upto(s, m) \o s[m + 1]
      BY UptoMore
    <2>2. Upto(s, m) \in Seq(S) /\ s[m + 1] \in Seq(S)
      BY UptoTyped
    <2> SUFFICES ASSUME NEW n \in 0..m
                 PROVE  Holds(Upto(s, m + 1), Offset(s, n), s[n + 1])
      OBVIOUS
    <2>3. CASE n = m
      BY <2>1, <2>2, <2>3 DEF Holds, Offset
    <2>4. CASE n # m
      <3>1. Holds(Upto(s, m), Offset(s, n), s[n + 1])
        BY <1>2, <2>4
      <3>2. s[n + 1] \in Seq(S) /\ Offset(s, n) \in Nat
        BY Offsets
      <3> QED
        BY <2>1, <2>2, <3>1, <3>2, HoldsLonger
    <2> QED
      BY <2>3, <2>4
  <1> HIDE DEF P
  <1>3. Bad = {}
    <2> SUFFICES ASSUME Bad # {} PROVE FALSE
      OBVIOUS
    <2>1. PICK n \in Bad : \A m \in Bad : n <= m
      <3>1. Bad \subseteq Nat
        OBVIOUS
      <3> QED
        BY <3>1, LeastNatural
    <2>2. n \in Nat /\ n # 0
      BY <1>1, <2>1
    <2>3. n - 1 \in 0..(Len(s) - 1) /\ n - 1 \notin Bad
      BY <2>1, <2>2
    <2> QED
      BY <1>2, <2>1, <2>2, <2>3
  <1>4. P(Len(s))
    BY <1>3
  <1> QED
    BY <1>4, UptoAll DEF P

(* Join is the flattening of the parts, each but the first after a separator. *)
Separated(parts, sep) == [n \in DOMAIN parts |-> IF n = 1 THEN parts[n] ELSE sep \o parts[n]]

\* What stands before the n-th of the parts joined.
(* Where the n-th part of a joined sequence is.                             *)
PartAt(parts, sep, n) == IF n = 1 THEN 0 ELSE Offset(Separated(parts, sep), n - 1) + Len(sep)

LEMMA JoinHeld ==
    ASSUME NEW S, NEW parts \in Seq(Seq(S)), NEW sep \in Seq(S), parts # <<>>
    PROVE  /\ Join(parts, sep) \in Seq(S)
           /\ PartAt(parts, sep, 1) = 0
           /\ \A n \in 1..Len(parts) : /\ PartAt(parts, sep, n) \in Nat
                                       /\ Holds(Join(parts, sep), PartAt(parts, sep, n), parts[n])
           /\ \A n \in 1..(Len(parts) - 1) :
                 /\ Holds(Join(parts, sep), PartAt(parts, sep, n) + Len(parts[n]), sep)
                 /\ PartAt(parts, sep, n + 1) = PartAt(parts, sep, n) + Len(parts[n]) + Len(sep)
           /\ PartAt(parts, sep, Len(parts)) + Len(parts[Len(parts)]) = Len(Join(parts, sep))
  <1> DEFINE s == Separated(parts, sep)
  <1>1. /\ s \in Seq(Seq(S)) /\ Len(s) = Len(parts) /\ Len(parts) \in Nat \ {0}
        /\ s[1] = parts[1] /\ \A n \in 2..Len(parts) : s[n] = sep \o parts[n]
    <2>1. \A n \in 1..Len(parts) : parts[n] \in Seq(S)
      OBVIOUS
    <2>2. \A n \in 1..Len(parts) : sep \o parts[n] \in Seq(S)
      BY <2>1
    <2>3. \A n \in 1..Len(parts) : (IF n = 1 THEN parts[n] ELSE sep \o parts[n]) \in Seq(S)
      BY <2>1, <2>2
    <2>4. DOMAIN parts = 1..Len(parts) /\ Len(parts) \in Nat
      OBVIOUS
    <2>5. s \in [1..Len(parts) -> Seq(S)]
      BY <2>3, <2>4, Zenon DEF Separated
    <2>6. s \in Seq(Seq(S)) /\ Len(s) = Len(parts)
      BY <2>4, <2>5, FunctionIsSeq, Zenon
    <2>7. \A n \in 1..Len(parts) : s[n] = IF n = 1 THEN parts[n] ELSE sep \o parts[n]
      BY <2>4, Zenon DEF Separated
    <2>8. Len(parts) # 0
      OBVIOUS
    <2> HIDE DEF s
    <2>9. 1 \in 1..Len(parts) /\ \A n \in 2..Len(parts) : n \in 1..Len(parts) /\ n # 1
      BY <2>4, <2>8
    <2>10. s[1] = parts[1] /\ \A n \in 2..Len(parts) : s[n] = sep \o parts[n]
      BY <2>7, <2>9, Zenon
    <2>11. Len(parts) \in Nat \ {0}
      BY <2>4, <2>8
    <2> QED
      BY <2>6, <2>10, <2>11, Zenon
  <1>2. Join(parts, sep) = FlattenSeq(s)
    BY Zenon DEF Join, Separated
  <1> HIDE DEF s
  <1>3. FlattenSeq(s) \in Seq(S)
    BY <1>1, FlattenTyped
  <1>4. /\ Offset(s, 0) = 0
        /\ \A n \in 0..Len(s) : Offset(s, n) \in Nat
        /\ \A n \in 0..(Len(s) - 1) : Offset(s, n + 1) = Offset(s, n) + Len(s[n + 1])
        /\ Offset(s, Len(s)) = Len(FlattenSeq(s))
    BY <1>1, Offsets
  <1>5. \A n \in 0..(Len(s) - 1) : Holds(FlattenSeq(s), Offset(s, n), s[n + 1])
    BY <1>1, PartsHeld
  <1>6. PartAt(parts, sep, 1) = 0
    BY DEF PartAt
  <1>7. \A n \in 2..Len(parts) : PartAt(parts, sep, n) = Offset(s, n - 1) + Len(sep)
    BY DEF PartAt, s
  <1>8. Len(sep) \in Nat /\ \A n \in 1..Len(parts) : parts[n] \in Seq(S) /\ Len(parts[n]) \in Nat
    OBVIOUS
  <1>9. \A n \in 1..Len(parts) : Offset(s, n) = PartAt(parts, sep, n) + Len(parts[n])
    <2> SUFFICES ASSUME NEW n \in 1..Len(parts)
                 PROVE  Offset(s, n) = PartAt(parts, sep, n) + Len(parts[n])
      OBVIOUS
    <2>1. n - 1 \in 0..(Len(s) - 1) /\ (n - 1) + 1 = n
      BY <1>1
    <2>2. Offset(s, n) = Offset(s, n - 1) + Len(s[n]) /\ Offset(s, n - 1) \in Nat
      BY <1>1, <1>4, <2>1, SMTT(60)
    <2>3. CASE n = 1
      BY <1>1, <1>4, <1>6, <1>8, <2>2, <2>3
    <2>4. CASE n # 1
      <3>1. n \in 2..Len(parts)
        BY <2>4
      <3>2. Len(s[n]) = Len(sep) + Len(parts[n])
        <4>1. s[n] = sep \o parts[n] /\ parts[n] \in Seq(S)
          BY <1>1, <1>8, <3>1
        <4> QED
          BY <4>1
      <3> QED
        BY <1>7, <1>8, <2>2, <3>1, <3>2
    <2> QED
      BY <2>3, <2>4
  <1>10. ASSUME NEW n \in 1..Len(parts)
         PROVE  PartAt(parts, sep, n) \in Nat /\ Holds(FlattenSeq(s), PartAt(parts, sep, n), parts[n])
    <2>1. n - 1 \in 0..(Len(s) - 1) /\ (n - 1) + 1 = n
      BY <1>1
    <2>2. Holds(FlattenSeq(s), Offset(s, n - 1), s[n]) /\ Offset(s, n - 1) \in Nat
      BY <1>1, <1>4, <1>5, <2>1
    <2>3. CASE n = 1
      BY <1>1, <1>4, <1>6, <2>2, <2>3
    <2>4. CASE n # 1
      <3>1. n \in 2..Len(parts)
        BY <2>4
      <3>2. s[n] = sep \o parts[n] /\ s[n] \in Seq(S) /\ parts[n] \in Seq(S)
        BY <1>1, <1>8, <3>1
      <3>3. Holds(s[n], Len(sep), parts[n])
        BY <3>2 DEF Holds
      <3>4. Holds(FlattenSeq(s), Offset(s, n - 1) + Len(sep), parts[n])
        BY <1>3, <1>8, <2>2, <3>2, <3>3, HoldsWithin, Zenon
      <3>5. PartAt(parts, sep, n) = Offset(s, n - 1) + Len(sep)
        BY <1>7, <3>1
      <3>6. Offset(s, n - 1) + Len(sep) \in Nat
        BY <1>8, <2>2
      <3> QED
        BY <3>4, <3>5, <3>6
    <2> QED
      BY <2>3, <2>4
  <1>11. ASSUME NEW n \in 1..(Len(parts) - 1)
         PROVE  /\ Holds(FlattenSeq(s), PartAt(parts, sep, n) + Len(parts[n]), sep)
                /\ PartAt(parts, sep, n + 1) = PartAt(parts, sep, n) + Len(parts[n]) + Len(sep)
    <2>1. n \in 1..Len(parts) /\ n \in 0..(Len(s) - 1) /\ n + 1 \in 2..Len(parts) /\ (n + 1) - 1 = n
      BY <1>1
    <2>2. Offset(s, n) = PartAt(parts, sep, n) + Len(parts[n]) /\ Offset(s, n) \in Nat
      BY <1>1, <1>4, <1>9, <2>1
    <2>3. PartAt(parts, sep, n + 1) = Offset(s, n) + Len(sep)
      BY <1>7, <2>1
    <2>4. Holds(FlattenSeq(s), Offset(s, n), s[n + 1])
      BY <1>5, <2>1
    <2>5. s[n + 1] = sep \o parts[n + 1] /\ s[n + 1] \in Seq(S) /\ parts[n + 1] \in Seq(S)
      BY <1>1, <1>8, <2>1, SMTT(60)
    <2>6. Holds(s[n + 1], 0, sep)
      BY <2>5 DEF Holds
    <2>7. Holds(FlattenSeq(s), Offset(s, n) + 0, sep)
      BY <1>3, <2>2, <2>4, <2>5, <2>6, HoldsWithin
    <2> QED
      BY <2>2, <2>3, <2>7
  <1>12. PartAt(parts, sep, Len(parts)) + Len(parts[Len(parts)]) = Len(FlattenSeq(s))
    <2>1. Len(parts) \in 1..Len(parts)
      BY <1>1
    <2> QED
      BY <1>1, <1>4, <1>9, <2>1
  <1> QED
    BY <1>2, <1>3, <1>6, <1>10, <1>11, <1>12

(* The parts of a written table, and where they are: the n-th line, the f-th  *)
(* field of the n-th line, and the place after it.                           *)
NeedsQuotes(f, always) == always \/ Range(f) \cap {Quotation, Comma, CR, LF} # {}
Doubled(f) == [n \in DOMAIN f |-> IF f[n] = Quotation THEN <<Quotation, Quotation>> ELSE <<f[n]>>]
WrittenFields(r, always) == [n \in DOMAIN r |-> WrittenField(r[n], always)]
WrittenLines(t, always) == [n \in DOMAIN t |-> Join(WrittenFields(t[n], always), <<Comma>>)]
LineAt(t, always, end, r) == PartAt(WrittenLines(t, always), end, r)
FieldAt(t, always, end, r, c) ==
    LineAt(t, always, end, r) + PartAt(WrittenFields(t[r], always), <<Comma>>, c)
FieldEnd(t, always, end, r, c) ==
    FieldAt(t, always, end, r, c) + Len(WrittenField(t[r][c], always))
Spent(f, n) == Offset(Doubled(f), n)

Kept(t) == [n \in DOMAIN t |-> IF t[n] = <<<<>>>> THEN <<>> ELSE <<t[n]>>]

\* The limits as the parser applies them to the records.
Legal(table) ==
    /\ table # <<>> /\ Len(table) - 1 <= max_rows
    /\ \A r \in Range(table) :
          /\ Len(r) <= max_columns
          /\ \A f \in Range(r) : \A n \in DOMAIN f :
                n > max_field_bytes => f[n] = Quotation

LegalField(f) == \A n \in DOMAIN f : n > max_field_bytes => f[n] = Quotation
LegalRow(r) == Len(r) <= max_columns /\ \A n \in DOMAIN r : LegalField(r[n])

(* What is taken so far is within the limits.                               *)
Within ==
    /\ LegalField(field) /\ LegalRow(row) /\ Len(records) - 1 <= max_rows
    /\ \A n \in DOMAIN records : LegalRow(records[n])

\* In the c-th field of the r-th line, n characters into it.
InField(t, always, end, r, c, n) ==
    /\ row = SubSeq(t[r], 1, c - 1)
    /\ field = SubSeq(t[r][c], 1, n)
    /\ \/ /\ scan = "plain" /\ ~NeedsQuotes(t[r][c], always)
          /\ pos = FieldAt(t, always, end, r, c) + n + 1
       \/ /\ scan = "quoted" /\ NeedsQuotes(t[r][c], always)
          /\ pos = FieldAt(t, always, end, r, c) + Spent(t[r][c], n) + 2
       \/ /\ scan = "closed" /\ NeedsQuotes(t[r][c], always) /\ n = Len(t[r][c])
          /\ pos = FieldEnd(t, always, end, r, c) + 1

\* After the c-th field, at a comma or at the end of the line.
AfterField(t, always, end, r, c) ==
    /\ field = <<>>
    /\ \/ /\ scan = "field" /\ c < Len(t[r]) /\ row = SubSeq(t[r], 1, c)
          /\ pos = FieldAt(t, always, end, r, c + 1) + 1
       \/ /\ scan = "row" /\ c = Len(t[r]) /\ row = t[r]
          /\ pos = FieldEnd(t, always, end, r, c) + 1

\* In the r-th line.
InLine(t, always, end, r) ==
    /\ records = Upto(Kept(t), r - 1)
    /\ \/ scan = "record" /\ row = <<>> /\ field = <<>> /\ pos = LineAt(t, always, end, r) + 1
       \/ \E c \in 1..Len(t[r]) :
             \/ \E n \in 0..Len(t[r][c]) : InField(t, always, end, r, c, n)
             \/ AfterField(t, always, end, r, c)

\* Past the last.
AtEnd(t) ==
    /\ records = Recorded(t)
    /\ scan = "record" /\ row = <<>> /\ field = <<>> /\ pos = Len(input) + 1

Alphabet == STRING \cup {Quotation, Comma, CR, LF}

LEMMA WiderSeq == ASSUME NEW A, NEW B, A \subseteq B PROVE Seq(A) \subseteq Seq(B)
  <1> SUFFICES ASSUME NEW s \in Seq(A) PROVE s \in Seq(B)
    OBVIOUS
  <1>1. Len(s) \in Nat /\ s \in [1..Len(s) -> B]
    OBVIOUS
  <1> QED
    BY <1>1, FunctionIsSeq

LEMMA MarksDiffer ==
    /\ Quotation # Comma /\ Quotation # CR /\ Quotation # LF /\ Comma # CR /\ Comma # LF
    /\ CR # LF /\ Quotation # "eof" /\ Comma # "eof" /\ CR # "eof" /\ LF # "eof"
  BY DEF Quotation, Comma, CR, LF

(* A quoted field, character by character.                                  *)
LEMMA DoubledTyped ==
    ASSUME NEW f \in Seq(Alphabet)
    PROVE  /\ Doubled(f) \in Seq(Seq(Alphabet)) /\ Len(Doubled(f)) = Len(f)
           /\ \A n \in 1..Len(f) :
                 Doubled(f)[n] = IF f[n] = Quotation THEN <<Quotation, Quotation>> ELSE <<f[n]>>
  <1>1. DOMAIN f = 1..Len(f) /\ Len(f) \in Nat
    OBVIOUS
  <1>2. ASSUME NEW n \in 1..Len(f)
        PROVE  (IF f[n] = Quotation THEN <<Quotation, Quotation>> ELSE <<f[n]>>) \in Seq(Alphabet)
    <2>1. f[n] \in Alphabet /\ Quotation \in Alphabet
      BY DEF Alphabet
    <2>2. <<Quotation, Quotation>> \in Seq(Alphabet) /\ <<f[n]>> \in Seq(Alphabet)
      BY <2>1
    <2> QED
      BY <2>2
  <1>3. Doubled(f) \in [1..Len(f) -> Seq(Alphabet)]
    BY <1>1, <1>2, Zenon DEF Doubled
  <1>4. Doubled(f) \in Seq(Seq(Alphabet)) /\ Len(Doubled(f)) = Len(f)
    BY <1>1, <1>3, FunctionIsSeq, Zenon
  <1> QED
    BY <1>1, <1>4, Zenon DEF Doubled

LEMMA SpentInField ==
    ASSUME NEW f \in Seq(Alphabet)
    PROVE  /\ Spent(f, 0) = 0
           /\ \A n \in 0..Len(f) : Spent(f, n) \in Nat
           /\ Spent(f, Len(f)) = Len(FlattenSeq(Doubled(f)))
           /\ \A n \in 0..(Len(f) - 1) :
                 /\ Spent(f, n + 1) = Spent(f, n) + (IF f[n + 1] = Quotation THEN 2 ELSE 1)
                 /\ Holds(FlattenSeq(Doubled(f)), Spent(f, n), Doubled(f)[n + 1])
  <1> DEFINE d == Doubled(f)
  <1>1. d \in Seq(Seq(Alphabet)) /\ Len(d) = Len(f) /\ Len(f) \in Nat
    BY DoubledTyped
  <1>2. \A n \in 1..Len(f) :
           d[n] = IF f[n] = Quotation THEN <<Quotation, Quotation>> ELSE <<f[n]>>
    BY DoubledTyped, Zenon
  <1> HIDE DEF d
  <1>3. /\ Offset(d, 0) = 0
        /\ \A n \in 0..Len(d) : Offset(d, n) \in Nat
        /\ \A n \in 0..(Len(d) - 1) : Offset(d, n + 1) = Offset(d, n) + Len(d[n + 1])
        /\ Offset(d, Len(d)) = Len(FlattenSeq(d))
    BY <1>1, Offsets, Zenon
  <1>4. \A n \in 0..(Len(d) - 1) : Holds(FlattenSeq(d), Offset(d, n), d[n + 1])
    BY <1>1, PartsHeld, Zenon
  <1>5. ASSUME NEW n \in 0..(Len(f) - 1)
        PROVE  Len(d[n + 1]) = IF f[n + 1] = Quotation THEN 2 ELSE 1
    <2>1. n + 1 \in 1..Len(f)
      BY <1>1
    <2>2. d[n + 1] = IF f[n + 1] = Quotation THEN <<Quotation, Quotation>> ELSE <<f[n + 1]>>
      BY <1>2, <2>1, Zenon
    <2>3. Len(<<Quotation, Quotation>>) = 2 /\ Len(<<f[n + 1]>>) = 1
      OBVIOUS
    <2> QED
      BY <2>2, <2>3, Zenon
  <1>6. \A n : Spent(f, n) = Offset(d, n)
    BY Zenon DEF Spent, d
  <1> QED
    BY <1>1, <1>3, <1>4, <1>5, <1>6 DEF d

\* The last character of a quoted field, after n of the field's own.
QuotedHeld(w, f) ==
    /\ w[1] = Quotation
    /\ Len(w) = Spent(f, Len(f)) + 2 /\ w[Spent(f, Len(f)) + 2] = Quotation
    /\ \A n \in 0..(Len(f) - 1) :
          /\ Spent(f, n + 1) = Spent(f, n) + (IF f[n + 1] = Quotation THEN 2 ELSE 1)
          /\ Spent(f, n + 1) <= Spent(f, Len(f))
          /\ w[Spent(f, n) + 2] = f[n + 1]
          /\ f[n + 1] = Quotation => w[Spent(f, n) + 3] = Quotation

LEMMA FieldWritten ==
    ASSUME NEW f \in Seq(Alphabet), NEW always \in BOOLEAN
    PROVE  /\ WrittenField(f, always) \in Seq(Alphabet)
           /\ ~NeedsQuotes(f, always) => WrittenField(f, always) = f
           /\ NeedsQuotes(f, always) => QuotedHeld(WrittenField(f, always), f)
  <1> DEFINE w == WrittenField(f, always)
             b == FlattenSeq(Doubled(f))
  <1>1. CASE ~NeedsQuotes(f, always)
    <2>1. WrittenField(f, always) = f
      BY <1>1, Zenon DEF WrittenField, NeedsQuotes
    <2> QED
      BY <1>1, <2>1
  <1>2. CASE NeedsQuotes(f, always)
    <2>1. w = <<Quotation>> \o b \o <<Quotation>>
      BY <1>2, Zenon DEF WrittenField, NeedsQuotes, Doubled
    <2>2. b \in Seq(Alphabet)
      BY DoubledTyped, FlattenTyped, Zenon
    <2>3. <<Quotation>> \in Seq(Alphabet)
      BY DEF Alphabet
    <2> HIDE DEF w, b
    <2>4. /\ w \in Seq(Alphabet) /\ Len(w) = Len(b) + 2 /\ w[1] = Quotation
          /\ w[Len(b) + 2] = Quotation /\ Len(b) \in Nat
          /\ \A k \in 1..Len(b) : w[k + 1] = b[k]
      BY <2>1, <2>2, <2>3
    <2>5. Spent(f, Len(f)) = Len(b)
      BY SpentInField DEF b
    <2>6. ASSUME NEW n \in 0..(Len(f) - 1)
          PROVE  /\ Spent(f, n + 1) = Spent(f, n) + (IF f[n + 1] = Quotation THEN 2 ELSE 1)
                 /\ Spent(f, n + 1) <= Len(b)
                 /\ w[Spent(f, n) + 2] = f[n + 1]
                 /\ f[n + 1] = Quotation => w[Spent(f, n) + 3] = Quotation
      <3> DEFINE p == Spent(f, n)
                 v == Doubled(f)[n + 1]
      <3>1. /\ Spent(f, n + 1) = p + (IF f[n + 1] = Quotation THEN 2 ELSE 1)
            /\ Holds(b, p, v)
        BY SpentInField DEF b
      <3>2. p \in Nat
        BY SpentInField
      <3>3. n + 1 \in 1..Len(f)
        OBVIOUS
      <3>4. v = IF f[n + 1] = Quotation THEN <<Quotation, Quotation>> ELSE <<f[n + 1]>>
        BY <3>3, DoubledTyped, Zenon
      <3> HIDE DEF p, v
      <3>5. CASE f[n + 1] = Quotation
        <4>1. v = <<Quotation, Quotation>>
          BY <3>4, <3>5
        <4>2. Len(v) = 2 /\ v[1] = Quotation /\ v[2] = Quotation
          BY <4>1
        <4>3. p + 2 <= Len(b) /\ b[p + 1] = Quotation /\ b[p + 2] = Quotation
          BY <3>1, <4>2 DEF Holds
        <4>4. p + 1 \in 1..Len(b) /\ p + 2 \in 1..Len(b) /\ (p + 1) + 1 = p + 2 /\ (p + 2) + 1 = p + 3
          BY <2>4, <3>2, <4>3
        <4>5. w[p + 2] = b[p + 1] /\ w[p + 3] = b[p + 2]
          BY <2>4, <4>4
        <4> QED
          BY <3>1, <3>5, <4>3, <4>5 DEF p
      <3>6. CASE f[n + 1] # Quotation
        <4>1. v = <<f[n + 1]>>
          BY <3>4, <3>6
        <4>2. Len(v) = 1 /\ v[1] = f[n + 1]
          BY <4>1
        <4>3. p + 1 <= Len(b) /\ b[p + 1] = f[n + 1]
          BY <3>1, <4>2 DEF Holds
        <4>4. p + 1 \in 1..Len(b) /\ (p + 1) + 1 = p + 2
          BY <2>4, <3>2, <4>3
        <4>5. w[p + 2] = b[p + 1]
          BY <2>4, <4>4
        <4> QED
          BY <3>1, <3>6, <4>3, <4>5 DEF p
      <3> QED
        BY <3>5, <3>6
    <2>7. QuotedHeld(w, f)
      BY <2>4, <2>5, <2>6 DEF QuotedHeld
    <2> QED
      BY <1>2, <2>4, <2>7 DEF w
  <1> QED
    BY <1>1, <1>2

(* What TablesAssumption says of a table.                                   *)
Writable(t) ==
    /\ t \in Seq(Seq(Seq(Alphabet))) /\ t # <<>>
    /\ \A n \in DOMAIN t :
          t[n] # <<>> /\ \A m \in DOMAIN t[n] : "eof" \notin Range(t[n][m])

LEMMA TablesWritable == ASSUME NEW t \in Tables PROVE Writable(t)
  <1>1. /\ t \in Seq(Seq(Seq(STRING))) /\ t # <<>>
        /\ \A n \in DOMAIN t :
              t[n] # <<>> /\ \A m \in DOMAIN t[n] : "eof" \notin Range(t[n][m])
    BY TablesAssumption
  <1>2. STRING \subseteq Alphabet
    BY DEF Alphabet
  <1>3. Seq(Seq(Seq(STRING))) \subseteq Seq(Seq(Seq(Alphabet)))
    <2>1. Seq(STRING) \subseteq Seq(Alphabet)
      BY <1>2, WiderSeq, Zenon
    <2>2. Seq(Seq(STRING)) \subseteq Seq(Seq(Alphabet))
      BY <2>1, WiderSeq, Zenon
    <2> QED
      BY <2>2, WiderSeq, Zenon
  <1> QED
    BY <1>1, <1>3 DEF Writable

LEMMA RowOf ==
    ASSUME NEW t, Writable(t), NEW r \in 1..Len(t)
    PROVE  /\ Len(t) \in Nat \ {0} /\ DOMAIN t = 1..Len(t)
           /\ t[r] \in Seq(Seq(Alphabet)) /\ t[r] # <<>> /\ Len(t[r]) \in Nat \ {0}
           /\ DOMAIN t[r] = 1..Len(t[r])
           /\ \A c \in 1..Len(t[r]) :
                 /\ t[r][c] \in Seq(Alphabet) /\ Len(t[r][c]) \in Nat
                 /\ \A n \in 1..Len(t[r][c]) : t[r][c][n] # "eof"
  <1>1. t \in Seq(Seq(Seq(Alphabet))) /\ t # <<>>
    BY DEF Writable
  <1>2. Len(t) \in Nat \ {0} /\ DOMAIN t = 1..Len(t) /\ t[r] \in Seq(Seq(Alphabet))
    BY <1>1
  <1>3. t[r] # <<>> /\ \A m \in DOMAIN t[r] : "eof" \notin Range(t[r][m])
    BY <1>2, Zenon DEF Writable
  <1>4. Len(t[r]) \in Nat \ {0} /\ DOMAIN t[r] = 1..Len(t[r])
    BY <1>2, <1>3
  <1>5. ASSUME NEW c \in 1..Len(t[r])
        PROVE  /\ t[r][c] \in Seq(Alphabet) /\ Len(t[r][c]) \in Nat
               /\ \A n \in 1..Len(t[r][c]) : t[r][c][n] # "eof"
    <2>1. t[r][c] \in Seq(Alphabet)
      BY <1>2, <1>4
    <2>2. Len(t[r][c]) \in Nat /\ DOMAIN t[r][c] = 1..Len(t[r][c])
      BY <2>1
    <2>3. "eof" \notin Range(t[r][c])
      BY <1>3, <1>4, Zenon
    <2> QED
      BY <2>1, <2>2, <2>3, Zenon DEF Range
  <1> QED
    BY <1>2, <1>3, <1>4, <1>5

LEMMA FieldsTyped ==
    ASSUME NEW r \in Seq(Seq(Alphabet)), r # <<>>, NEW always \in BOOLEAN
    PROVE  /\ WrittenFields(r, always) \in Seq(Seq(Alphabet))
           /\ WrittenFields(r, always) # <<>> /\ Len(WrittenFields(r, always)) = Len(r)
           /\ \A c \in 1..Len(r) : WrittenFields(r, always)[c] = WrittenField(r[c], always)
  <1>1. DOMAIN r = 1..Len(r) /\ Len(r) \in Nat \ {0}
    OBVIOUS
  <1>2. \A c \in 1..Len(r) : r[c] \in Seq(Alphabet)
    OBVIOUS
  <1>3. \A c \in 1..Len(r) : WrittenField(r[c], always) \in Seq(Alphabet)
    BY <1>2, FieldWritten, Zenon
  <1>4. WrittenFields(r, always) \in [1..Len(r) -> Seq(Alphabet)]
    BY <1>1, <1>3, Zenon DEF WrittenFields
  <1>5. WrittenFields(r, always) \in Seq(Seq(Alphabet)) /\ Len(WrittenFields(r, always)) = Len(r)
    BY <1>1, <1>4, FunctionIsSeq, Zenon
  <1>6. \A c \in 1..Len(r) : WrittenFields(r, always)[c] = WrittenField(r[c], always)
    BY <1>1, Zenon DEF WrittenFields
  <1> HIDE DEF WrittenFields
  <1>7. WrittenFields(r, always) # <<>>
    BY <1>1, <1>5
  <1> QED
    BY <1>5, <1>6, <1>7

LEMMA LinesTyped ==
    ASSUME NEW t, Writable(t), NEW always \in BOOLEAN
    PROVE  /\ WrittenLines(t, always) \in Seq(Seq(Alphabet))
           /\ WrittenLines(t, always) # <<>> /\ Len(WrittenLines(t, always)) = Len(t)
           /\ \A r \in 1..Len(t) :
                 WrittenLines(t, always)[r] = Join(WrittenFields(t[r], always), <<Comma>>)
  <1>1. DOMAIN t = 1..Len(t) /\ Len(t) \in Nat \ {0}
    BY DEF Writable
  <1>2. <<Comma>> \in Seq(Alphabet)
    BY DEF Alphabet
  <1>3. ASSUME NEW r \in 1..Len(t)
        PROVE  Join(WrittenFields(t[r], always), <<Comma>>) \in Seq(Alphabet)
    <2>1. t[r] \in Seq(Seq(Alphabet)) /\ t[r] # <<>>
      BY RowOf
    <2>2. WrittenFields(t[r], always) \in Seq(Seq(Alphabet)) /\ WrittenFields(t[r], always) # <<>>
      BY <2>1, FieldsTyped
    <2> QED
      BY <1>2, <2>2, JoinHeld
  <1>4. WrittenLines(t, always) \in [1..Len(t) -> Seq(Alphabet)]
    BY <1>1, <1>3, Zenon DEF WrittenLines
  <1>5. WrittenLines(t, always) \in Seq(Seq(Alphabet)) /\ Len(WrittenLines(t, always)) = Len(t)
    BY <1>1, <1>4, FunctionIsSeq, Zenon
  <1>6. \A r \in 1..Len(t) :
           WrittenLines(t, always)[r] = Join(WrittenFields(t[r], always), <<Comma>>)
    BY <1>1, Zenon DEF WrittenLines
  <1> HIDE DEF WrittenLines
  <1>7. WrittenLines(t, always) # <<>>
    BY <1>1, <1>5
  <1> QED
    BY <1>5, <1>6, <1>7

LineEnds == {<<LF>>, <<CR, LF>>}

LEMMA EndTyped == ASSUME NEW end \in LineEnds
                  PROVE  end \in Seq(Alphabet) /\ Len(end) \in {1, 2}
                         /\ (Len(end) = 1 => end[1] = LF)
                         /\ (Len(end) = 2 => end[1] = CR /\ end[2] = LF)
  <1>1. LF \in Alphabet /\ CR \in Alphabet
    BY DEF Alphabet
  <1>2. CASE end = <<LF>>
    BY <1>1, <1>2
  <1>3. CASE end = <<CR, LF>>
    BY <1>1, <1>3
  <1> QED
    BY <1>2, <1>3 DEF LineEnds

(* Where everything is in a text that a table was written to.               *)
Spells(x, t, always, end, last) ==
    /\ x \in Seq(Alphabet)
    /\ LineAt(t, always, end, 1) = 0
    /\ \A r \in 1..Len(t) :
          /\ LineAt(t, always, end, r) \in Nat
          /\ FieldAt(t, always, end, r, 1) = LineAt(t, always, end, r)
          /\ \A c \in 1..Len(t[r]) :
                /\ FieldAt(t, always, end, r, c) \in Nat
                /\ Holds(x, FieldAt(t, always, end, r, c), WrittenField(t[r][c], always))
                /\ c < Len(t[r]) =>
                      /\ Holds(x, FieldEnd(t, always, end, r, c), <<Comma>>)
                      /\ FieldAt(t, always, end, r, c + 1) = FieldEnd(t, always, end, r, c) + 1
                /\ c = Len(t[r]) /\ r < Len(t) =>
                      /\ Holds(x, FieldEnd(t, always, end, r, c), end)
                      /\ LineAt(t, always, end, r + 1)
                            = FieldEnd(t, always, end, r, c) + Len(end)
                /\ c = Len(t[r]) /\ r = Len(t) =>
                      IF last THEN /\ Holds(x, FieldEnd(t, always, end, r, c), end)
                                   /\ Len(x) = FieldEnd(t, always, end, r, c) + Len(end)
                              ELSE Len(x) = FieldEnd(t, always, end, r, c)

LEMMA WrittenSpells ==
    ASSUME NEW t, Writable(t), NEW always \in BOOLEAN, NEW last \in BOOLEAN, NEW end \in LineEnds
    PROVE  Spells(Write(t, always, end, last), t, always, end, last)
  <1> DEFINE ls == WrittenLines(t, always)
             j == Join(ls, end)
             x == Write(t, always, end, last)
             tail == IF last THEN end ELSE <<>>
             place(r) == LineAt(t, always, end, r)
  <1>1. /\ ls \in Seq(Seq(Alphabet)) /\ ls # <<>> /\ Len(ls) = Len(t)
        /\ \A r \in 1..Len(t) : ls[r] = Join(WrittenFields(t[r], always), <<Comma>>)
    BY LinesTyped, Zenon
  <1>2. end \in Seq(Alphabet)
    BY EndTyped
  <1>3. x = j \o tail
    <2>1. \A n \in DOMAIN t : WrittenFields(t[n], always)
                             = [m \in DOMAIN t[n] |-> WrittenField(t[n][m], always)]
      BY Zenon DEF WrittenFields
    <2> QED
      BY Zenon DEF Write, WrittenLines, WrittenFields
  <1>4. tail \in Seq(Alphabet) /\ Len(tail) = (IF last THEN Len(end) ELSE 0)
        /\ (last => tail = end)
    BY <1>2
  <1>5. <<Comma>> \in Seq(Alphabet) /\ Len(<<Comma>>) = 1
    BY DEF Alphabet
  <1>6. Len(t) \in Nat \ {0}
    BY DEF Writable
  <1> HIDE DEF ls, x, tail
  <1>7. /\ j \in Seq(Alphabet)
        /\ PartAt(ls, end, 1) = 0
        /\ \A n \in 1..Len(ls) : PartAt(ls, end, n) \in Nat /\ Holds(j, PartAt(ls, end, n), ls[n])
        /\ \A n \in 1..(Len(ls) - 1) :
              /\ Holds(j, PartAt(ls, end, n) + Len(ls[n]), end)
              /\ PartAt(ls, end, n + 1) = PartAt(ls, end, n) + Len(ls[n]) + Len(end)
        /\ PartAt(ls, end, Len(ls)) + Len(ls[Len(ls)]) = Len(j)
    BY <1>1, <1>2, JoinHeld, Zenon
  <1> HIDE DEF j
  <1>8. \A r : place(r) = PartAt(ls, end, r)
    BY Zenon DEF LineAt, ls
  <1> HIDE DEF place
  <1>9. /\ place(1) = 0
        /\ \A r \in 1..Len(t) : place(r) \in Nat /\ Holds(j, place(r), ls[r])
        /\ \A r \in 1..(Len(t) - 1) : /\ Holds(j, place(r) + Len(ls[r]), end)
                                      /\ place(r + 1) = place(r) + Len(ls[r]) + Len(end)
        /\ place(Len(t)) + Len(ls[Len(t)]) = Len(j)
    BY <1>1, <1>7, <1>8, Zenon
  <1>10. x \in Seq(Alphabet) /\ Len(x) = Len(j) + Len(tail)
    <2>1. tail \in Seq(Alphabet)
      BY <1>4
    <2> QED
      BY <1>3, <1>7, <2>1
  <1>11. \A p \in Nat, w \in Seq(Alphabet) : Holds(j, p, w) => Holds(x, p, w)
    BY <1>3, <1>4, <1>7, HoldsLonger, Zenon
  <1>12. last => Holds(x, Len(j), end)
    BY <1>2, <1>3, <1>4, <1>7 DEF Holds
  <1>13. ASSUME NEW r \in 1..Len(t)
         PROVE  /\ place(r) \in Nat
                /\ FieldAt(t, always, end, r, 1) = place(r)
                /\ \A c \in 1..Len(t[r]) :
                      /\ FieldAt(t, always, end, r, c) \in Nat
                      /\ Holds(x, FieldAt(t, always, end, r, c), WrittenField(t[r][c], always))
                      /\ c < Len(t[r]) =>
                            /\ Holds(x, FieldEnd(t, always, end, r, c), <<Comma>>)
                            /\ FieldAt(t, always, end, r, c + 1)
                                 = FieldEnd(t, always, end, r, c) + 1
                      /\ c = Len(t[r]) =>
                            /\ FieldEnd(t, always, end, r, c) = place(r) + Len(ls[r])
    <2> DEFINE fs == WrittenFields(t[r], always)
               q(c) == PartAt(fs, <<Comma>>, c)
               w(c) == WrittenField(t[r][c], always)
    <2>1. t[r] \in Seq(Seq(Alphabet)) /\ t[r] # <<>> /\ Len(t[r]) \in Nat \ {0}
          /\ \A c \in 1..Len(t[r]) : t[r][c] \in Seq(Alphabet)
      BY RowOf
    <2>2. /\ fs \in Seq(Seq(Alphabet)) /\ fs # <<>> /\ Len(fs) = Len(t[r])
          /\ \A c \in 1..Len(t[r]) : fs[c] = w(c)
      BY <2>1, FieldsTyped, Zenon
    <2> HIDE DEF fs
    <2>3. /\ q(1) = 0
          /\ \A c \in 1..Len(fs) : q(c) \in Nat /\ Holds(Join(fs, <<Comma>>), q(c), fs[c])
          /\ \A c \in 1..(Len(fs) - 1) :
                /\ Holds(Join(fs, <<Comma>>), q(c) + Len(fs[c]), <<Comma>>)
                /\ q(c + 1) = q(c) + Len(fs[c]) + Len(<<Comma>>)
          /\ q(Len(fs)) + Len(fs[Len(fs)]) = Len(Join(fs, <<Comma>>))
      BY <1>5, <2>2, JoinHeld, ZenonT(60)
    <2>4. ls[r] = Join(fs, <<Comma>>) /\ ls[r] \in Seq(Alphabet)
      <3>1. ls[r] = Join(fs, <<Comma>>)
        BY <1>1, Zenon DEF fs
      <3>2. ls[r] \in Seq(Alphabet)
        BY <1>1
      <3> QED
        BY <3>1, <3>2
    <2>5. \A c : FieldAt(t, always, end, r, c) = place(r) + q(c)
      BY Zenon DEF FieldAt, place, fs
    <2> HIDE DEF q, w
    <2>6. ASSUME NEW c \in 1..Len(t[r])
          PROVE  /\ w(c) \in Seq(Alphabet) /\ Len(w(c)) \in Nat /\ q(c) \in Nat
                 /\ FieldEnd(t, always, end, r, c) = place(r) + q(c) + Len(w(c))
      <3>1. w(c) \in Seq(Alphabet)
        BY <2>1, FieldWritten DEF w
      <3>2. Len(w(c)) \in Nat
        BY <3>1
      <3>3. q(c) \in Nat
        BY <2>2, <2>3
      <3>4. FieldEnd(t, always, end, r, c) = place(r) + q(c) + Len(w(c))
        BY <2>5, Zenon DEF FieldEnd, w
      <3> QED
        BY <3>1, <3>2, <3>3, <3>4
    <2>7. ASSUME NEW c \in 1..Len(t[r])
          PROVE  /\ FieldAt(t, always, end, r, c) \in Nat
                 /\ Holds(x, FieldAt(t, always, end, r, c), w(c))
      <3>1. Holds(ls[r], q(c), w(c))
        BY <2>2, <2>3, <2>4, Zenon
      <3>2. place(r) \in Nat /\ Holds(j, place(r), ls[r])
        BY <1>9
      <3>3. Holds(j, place(r) + q(c), w(c))
        BY <1>7, <2>4, <2>6, <3>1, <3>2, HoldsWithin, Zenon
      <3>4. place(r) + q(c) \in Nat
        BY <2>6, <3>2
      <3> QED
        BY <1>11, <2>5, <2>6, <3>3, <3>4, Zenon
    <2>8. ASSUME NEW c \in 1..Len(t[r]), c < Len(t[r])
          PROVE  /\ Holds(x, FieldEnd(t, always, end, r, c), <<Comma>>)
                 /\ FieldAt(t, always, end, r, c + 1) = FieldEnd(t, always, end, r, c) + 1
      <3>1. c \in 1..(Len(fs) - 1)
        BY <2>1, <2>2, <2>8
      <3>2. /\ Holds(ls[r], q(c) + Len(w(c)), <<Comma>>)
            /\ q(c + 1) = q(c) + Len(w(c)) + Len(<<Comma>>)
        BY <2>2, <2>3, <2>4, <3>1, Zenon
      <3>3. place(r) \in Nat /\ Holds(j, place(r), ls[r])
        BY <1>9
      <3>4. q(c) + Len(w(c)) \in Nat
        BY <2>6
      <3>5. Holds(j, place(r) + (q(c) + Len(w(c))), <<Comma>>)
        BY <1>5, <1>7, <2>4, <3>2, <3>3, <3>4, HoldsWithin, Zenon
      <3>6. place(r) + (q(c) + Len(w(c))) \in Nat
            /\ place(r) + (q(c) + Len(w(c))) = FieldEnd(t, always, end, r, c)
        BY <2>6, <3>3
      <3>7. Holds(x, FieldEnd(t, always, end, r, c), <<Comma>>)
        BY <1>5, <1>11, <3>5, <3>6, Zenon
      <3>8. FieldAt(t, always, end, r, c + 1) = place(r) + q(c + 1)
        BY <2>5
      <3> QED
        BY <1>5, <2>6, <3>2, <3>3, <3>6, <3>7, <3>8
    <2>9. FieldEnd(t, always, end, r, Len(t[r])) = place(r) + Len(ls[r])
      <3>1. Len(t[r]) \in 1..Len(t[r])
        BY <2>1
      <3>2. q(Len(t[r])) + Len(w(Len(t[r]))) = Len(ls[r])
        BY <2>2, <2>3, <2>4, <3>1, Zenon
      <3> QED
        BY <1>9, <2>6, <3>1, <3>2, SMTT(60)
    <2>10. FieldAt(t, always, end, r, 1) = place(r)
      BY <1>9, <2>3, <2>5, SMTT(60)
    <2> QED
      BY <1>9, <2>7, <2>8, <2>9, <2>10 DEF w
  <1>14. ASSUME NEW r \in 1..Len(t), r < Len(t)
         PROVE  /\ Holds(x, place(r) + Len(ls[r]), end)
                /\ place(r + 1) = place(r) + Len(ls[r]) + Len(end)
    <2>1. r \in 1..(Len(t) - 1)
      BY <1>6, <1>14
    <2>2. ls[r] \in Seq(Alphabet)
      BY <1>1
    <2>3. place(r) + Len(ls[r]) \in Nat
      BY <1>9, <2>2
    <2> QED
      BY <1>2, <1>9, <1>11, <2>1, <2>3, Zenon
  <1>15. Len(t) \in 1..Len(t)
    BY <1>6
  <1>16. IF last THEN /\ Holds(x, place(Len(t)) + Len(ls[Len(t)]), end)
                      /\ Len(x) = place(Len(t)) + Len(ls[Len(t)]) + Len(end)
                 ELSE Len(x) = place(Len(t)) + Len(ls[Len(t)])
    <2>1. place(Len(t)) + Len(ls[Len(t)]) = Len(j)
      BY <1>9
    <2>2. CASE last
      BY <1>4, <1>10, <1>12, <2>1, <2>2
    <2>3. CASE ~last
      <3>1. Len(tail) = 0 /\ Len(j) \in Nat
        BY <1>4, <1>7, <2>3
      <3> QED
        BY <1>10, <2>1, <2>3, <3>1
    <2> QED
      BY <2>2, <2>3
  <1>17. Spells(x, t, always, end, last)
    BY <1>9, <1>10, <1>13, <1>14, <1>16, ZenonT(60) DEF Spells, place
  <1> QED
    BY <1>17 DEF x

LEMMA CharHeld ==
    ASSUME input \in Seq(Alphabet), NEW p \in Nat, NEW w \in Seq(Alphabet), Holds(input, p, w)
    PROVE  \A k \in 1..Len(w) : Char(p + k) = w[k]
  BY DEF Holds, Char

Spelt(t, always, end, last) == Spells(input, t, always, end, last)

LEMMA FieldSpelt ==
    ASSUME NEW t, NEW always, NEW end, NEW last, Spelt(t, always, end, last),
           NEW r \in 1..Len(t), NEW c \in 1..Len(t[r])
    PROVE  /\ FieldAt(t, always, end, r, c) \in Nat
           /\ Holds(input, FieldAt(t, always, end, r, c), WrittenField(t[r][c], always))
           /\ c < Len(t[r]) =>
                      /\ Holds(input, FieldEnd(t, always, end, r, c), <<Comma>>)
                      /\ FieldAt(t, always, end, r, c + 1) = FieldEnd(t, always, end, r, c) + 1
           /\ c = Len(t[r]) /\ r < Len(t) =>
                      /\ Holds(input, FieldEnd(t, always, end, r, c), end)
                      /\ LineAt(t, always, end, r + 1)
                            = FieldEnd(t, always, end, r, c) + Len(end)
           /\ c = Len(t[r]) /\ r = Len(t) =>
                      IF last THEN /\ Holds(input, FieldEnd(t, always, end, r, c), end)
                                   /\ Len(input) = FieldEnd(t, always, end, r, c) + Len(end)
                              ELSE Len(input) = FieldEnd(t, always, end, r, c)
  BY Zenon DEF Spelt, Spells

(* What follows a field.                                                    *)
LEMMA AfterEnd ==
    ASSUME NEW t, Writable(t), NEW always \in BOOLEAN, NEW last \in BOOLEAN, NEW end \in LineEnds,
           Spelt(t, always, end, last), NEW r \in 1..Len(t), NEW c \in 1..Len(t[r])
    PROVE  LET e == FieldEnd(t, always, end, r, c)
           IN  /\ e \in Nat /\ e <= Len(input)
               /\ c < Len(t[r]) => Char(e + 1) = Comma /\ FieldAt(t, always, end, r, c + 1) = e + 1
               /\ c = Len(t[r]) =>
                     LET p == IF Char(e + 1) = CR THEN e + 2 ELSE e + 1
                         q == IF Char(p) = LF THEN p + 1 ELSE p
                     IN  /\ Char(e + 1) \in {CR, LF, "eof"}
                         /\ q = (IF r < Len(t) THEN LineAt(t, always, end, r + 1) ELSE Len(input)) + 1
  <1> DEFINE e == FieldEnd(t, always, end, r, c)
             w == WrittenField(t[r][c], always)
  <1>1. w \in Seq(Alphabet)
    BY RowOf, FieldWritten
  <1>2. input \in Seq(Alphabet) /\ Len(input) \in Nat
    BY DEF Spelt, Spells
  <1>3. /\ e = FieldAt(t, always, end, r, c) + Len(w) /\ FieldAt(t, always, end, r, c) \in Nat
        /\ Holds(input, FieldAt(t, always, end, r, c), w)
    BY FieldSpelt, ZenonT(60) DEF FieldEnd
  <1>4. e \in Nat /\ e <= Len(input)
    BY <1>1, <1>3 DEF Holds
  <1>5. Len(t) \in Nat \ {0} /\ Len(t[r]) \in Nat \ {0}
    BY RowOf
  <1>6. /\ end \in Seq(Alphabet) /\ Len(end) \in {1, 2}
        /\ (Len(end) = 1 => end[1] = LF)
        /\ (Len(end) = 2 => end[1] = CR /\ end[2] = LF)
    BY EndTyped
  <1>7. ASSUME c < Len(t[r])
        PROVE  Char(e + 1) = Comma /\ FieldAt(t, always, end, r, c + 1) = e + 1
    <2>1. Holds(input, e, <<Comma>>) /\ FieldAt(t, always, end, r, c + 1) = e + 1
      BY <1>7, FieldSpelt
    <2> HIDE DEF e
    <2>2. Char(e + 1) = Comma
      BY <1>2, <1>4, <2>1 DEF Holds, Char
    <2> QED
      BY <2>1, <2>2
  <1>8. ASSUME c = Len(t[r])
        PROVE  LET p == IF Char(e + 1) = CR THEN e + 2 ELSE e + 1
                   q == IF Char(p) = LF THEN p + 1 ELSE p
               IN  /\ Char(e + 1) \in {CR, LF, "eof"}
                   /\ q = (IF r < Len(t) THEN LineAt(t, always, end, r + 1) ELSE Len(input)) + 1
    <2> DEFINE n == IF r < Len(t) THEN LineAt(t, always, end, r + 1) ELSE Len(input)
    <2>1. \/ Holds(input, e, end) /\ n = e + Len(end)
          \/ Len(input) = e /\ n = e
      <3>1. CASE r < Len(t)
        <4>1. Holds(input, e, end) /\ LineAt(t, always, end, r + 1) = e + Len(end)
          BY <1>8, <3>1, FieldSpelt
        <4> QED
          BY <3>1, <4>1
      <3>2. CASE ~(r < Len(t))
        <4>1. r = Len(t)
          BY <1>5, <3>2
        <4>2. IF last THEN Holds(input, e, end) /\ Len(input) = e + Len(end) ELSE Len(input) = e
          BY <1>8, <4>1, FieldSpelt, ZenonT(60)
        <4> QED
          BY <3>2, <4>2
      <3> QED
        BY <3>1, <3>2
    <2> HIDE DEF e, n
    <2>2. CASE Len(input) = e /\ n = e
      <3>1. Char(e + 1) = "eof"
        BY <1>4, <2>2 DEF Char
      <3> QED
        BY <1>4, <2>2, <3>1, MarksDiffer DEF n
    <2>3. CASE Holds(input, e, end) /\ n = e + Len(end)
      <3>1. CASE Len(end) = 1
        <4>1. Char(e + 1) = LF
          BY <1>2, <1>4, <1>6, <2>3, <3>1 DEF Holds, Char
        <4> QED
          BY <1>4, <2>3, <3>1, <4>1, MarksDiffer DEF n
      <3>2. CASE Len(end) = 2
        <4>1. Char(e + 1) = CR /\ Char(e + 2) = LF
          BY <1>2, <1>4, <1>6, <2>3, <3>2 DEF Holds, Char
        <4> QED
          BY <1>4, <2>3, <3>2, <4>1, MarksDiffer DEF n
      <3> QED
        BY <1>6, <3>1, <3>2
    <2> QED
      BY <2>1, <2>2, <2>3
  <1> QED
    BY <1>4, <1>7, <1>8

LEMMA NotQuoteAfter ==
    ASSUME NEW t, Writable(t), NEW always \in BOOLEAN, NEW last \in BOOLEAN, NEW end \in LineEnds,
           Spelt(t, always, end, last), NEW r \in 1..Len(t), NEW c \in 1..Len(t[r])
    PROVE  Char(FieldEnd(t, always, end, r, c) + 1) \in Delimiter
  <1>1. Len(t[r]) \in Nat
    BY RowOf
  <1>2. c < Len(t[r]) \/ c = Len(t[r])
    BY <1>1
  <1> QED
    BY <1>2, AfterEnd DEF Delimiter

(* The characters of a field that is written as it is.                      *)
LEMMA PlainSpelt ==
    ASSUME NEW t, Writable(t), NEW always \in BOOLEAN, NEW last \in BOOLEAN, NEW end \in LineEnds,
           Spelt(t, always, end, last), NEW r \in 1..Len(t), NEW c \in 1..Len(t[r]),
           ~NeedsQuotes(t[r][c], always), NEW n \in 0..Len(t[r][c])
    PROVE  LET ch == Char(FieldAt(t, always, end, r, c) + n + 1)
           IN  /\ n < Len(t[r][c]) => /\ ch = t[r][c][n + 1]
                                      /\ ch \notin Delimiter \cup {Quotation}
               /\ n = Len(t[r][c]) => /\ FieldAt(t, always, end, r, c) + n
                                           = FieldEnd(t, always, end, r, c)
                                      /\ ch \in Delimiter
  <1> DEFINE f == t[r][c]
             p == FieldAt(t, always, end, r, c)
  <1>1. f \in Seq(Alphabet) /\ Len(f) \in Nat /\ DOMAIN f = 1..Len(f)
        /\ \A k \in 1..Len(f) : f[k] # "eof"
    <2>1. t[r][c] \in Seq(Alphabet) /\ \A k \in 1..Len(t[r][c]) : t[r][c][k] # "eof"
      BY RowOf
    <2> QED
      BY <2>1
  <1>2. WrittenField(f, always) = f
    BY <1>1, FieldWritten
  <1>3. p \in Nat /\ Holds(input, p, f)
    BY <1>2, FieldSpelt
  <1>4. input \in Seq(Alphabet)
    BY DEF Spelt, Spells
  <1>5. \A k \in 1..Len(f) : f[k] \notin {Quotation, Comma, CR, LF}
    <2>1. Range(f) \cap {Quotation, Comma, CR, LF} = {}
      BY DEF NeedsQuotes
    <2> HIDE DEF f
    <2> QED
      BY <1>1, <2>1 DEF Range
  <1>6. FieldEnd(t, always, end, r, c) = p + Len(f)
    BY <1>2, Zenon DEF FieldEnd
  <1>7. Char(FieldEnd(t, always, end, r, c) + 1) \in Delimiter
    BY NotQuoteAfter
  <1> HIDE DEF f, p
  <1>8. ASSUME n < Len(f) PROVE Char(p + n + 1) = f[n + 1] /\ f[n + 1] \notin Delimiter \cup {Quotation}
    <2>1. n + 1 \in 1..Len(f)
      BY <1>1, <1>8 DEF f
    <2>2. Char(p + (n + 1)) = f[n + 1]
      BY <1>1, <1>3, <1>4, <2>1, CharHeld
    <2>3. p + (n + 1) = p + n + 1
      BY <1>3
    <2>4. f[n + 1] \notin {Quotation, Comma, CR, LF} /\ f[n + 1] # "eof"
      BY <1>1, <1>5, <2>1
    <2> QED
      BY <2>2, <2>3, <2>4 DEF Delimiter
  <1> QED
    BY <1>6, <1>7, <1>8 DEF f, p

(* The characters of a quoted one.                                          *)
LEMMA QuotedSpelt ==
    ASSUME NEW t, Writable(t), NEW always \in BOOLEAN, NEW last \in BOOLEAN, NEW end \in LineEnds,
           Spelt(t, always, end, last), NEW r \in 1..Len(t), NEW c \in 1..Len(t[r]),
           NeedsQuotes(t[r][c], always), NEW n \in 0..Len(t[r][c])
    PROVE  LET p == FieldAt(t, always, end, r, c)
               f == t[r][c]
           IN  /\ Char(p + 1) = Quotation /\ Spent(f, 0) = 0
               /\ n < Len(f) =>
                     /\ Char(p + Spent(f, n) + 2) = f[n + 1] /\ f[n + 1] # "eof"
                     /\ Spent(f, n + 1) = Spent(f, n) + (IF f[n + 1] = Quotation THEN 2 ELSE 1)
                     /\ f[n + 1] = Quotation => Char(p + Spent(f, n) + 3) = Quotation
               /\ n = Len(f) =>
                     /\ Char(p + Spent(f, n) + 2) = Quotation
                     /\ FieldEnd(t, always, end, r, c) = p + Spent(f, n) + 2
                     /\ Char(p + Spent(f, n) + 3) \in Delimiter
  <1> DEFINE f == t[r][c]
             p == FieldAt(t, always, end, r, c)
             w == WrittenField(f, always)
  <1>1. f \in Seq(Alphabet) /\ Len(f) \in Nat /\ \A k \in 1..Len(f) : f[k] # "eof"
    BY RowOf
  <1>2. w \in Seq(Alphabet) /\ QuotedHeld(w, f)
    BY <1>1, FieldWritten
  <1>3. p \in Nat /\ Holds(input, p, w)
    BY FieldSpelt
  <1>4. input \in Seq(Alphabet)
    BY DEF Spelt, Spells
  <1>5. /\ Spent(f, 0) = 0 /\ \A k \in 0..Len(f) : Spent(f, k) \in Nat
    BY <1>1, SpentInField, Zenon
  <1>6. FieldEnd(t, always, end, r, c) = p + Len(w)
    BY Zenon DEF FieldEnd
  <1>7. Char(FieldEnd(t, always, end, r, c) + 1) \in Delimiter
    BY NotQuoteAfter
  <1> HIDE DEF w
  <1>8. \A k \in 1..Len(w) : Char(p + k) = w[k]
    BY <1>2, <1>3, <1>4, CharHeld, Zenon
  <1> HIDE DEF f, p
  <1>9. n \in 0..Len(f) /\ n \in Nat /\ Spent(f, n) \in Nat /\ Len(f) \in 0..Len(f)
        /\ Spent(f, Len(f)) \in Nat
    BY <1>1, <1>5 DEF f
  <1>10. Char(p + 1) = Quotation
    BY <1>2, <1>8, <1>9 DEF QuotedHeld
  <1>11. ASSUME n < Len(f)
         PROVE  /\ Char(p + Spent(f, n) + 2) = f[n + 1] /\ f[n + 1] # "eof"
                /\ Spent(f, n + 1) = Spent(f, n) + (IF f[n + 1] = Quotation THEN 2 ELSE 1)
                /\ f[n + 1] = Quotation => Char(p + Spent(f, n) + 3) = Quotation
    <2>1. n \in 0..(Len(f) - 1) /\ n + 1 \in 1..Len(f)
      BY <1>1, <1>9, <1>11
    <2>2. /\ Spent(f, n + 1) = Spent(f, n) + (IF f[n + 1] = Quotation THEN 2 ELSE 1)
          /\ Spent(f, n + 1) <= Spent(f, Len(f))
          /\ w[Spent(f, n) + 2] = f[n + 1]
          /\ f[n + 1] = Quotation => w[Spent(f, n) + 3] = Quotation
      BY <1>2, <2>1, Zenon DEF QuotedHeld
    <2>3. Len(w) = Spent(f, Len(f)) + 2
      BY <1>2 DEF QuotedHeld
    <2>4. Spent(f, n) + 2 \in 1..Len(w)
      BY <1>9, <2>2, <2>3, SMTT(60)
    <2>5. Char(p + (Spent(f, n) + 2)) = f[n + 1] /\ p + (Spent(f, n) + 2) = p + Spent(f, n) + 2
      <3>1. Char(p + (Spent(f, n) + 2)) = w[Spent(f, n) + 2]
        BY <1>8, <2>4, Zenon
      <3>2. p + (Spent(f, n) + 2) = p + Spent(f, n) + 2
        BY <1>3, <1>9, SMT
      <3> QED
        BY <2>2, <3>1, <3>2, Zenon
    <2>6. f[n + 1] = Quotation => Char(p + Spent(f, n) + 3) = Quotation
      <3> SUFFICES ASSUME f[n + 1] = Quotation PROVE Char(p + Spent(f, n) + 3) = Quotation
        OBVIOUS
      <3>1. Spent(f, n) + 3 \in 1..Len(w)
        <4>1. Spent(f, n + 1) = Spent(f, n) + 2 /\ Spent(f, n + 1) <= Spent(f, Len(f))
          BY <2>2, Zenon
        <4> HIDE DEF w
        <4> QED
          BY <1>9, <2>3, <4>1, SMTT(60)
      <3>2. p + (Spent(f, n) + 3) = p + Spent(f, n) + 3
        BY <1>3, <1>9, SMT
      <3> QED
        BY <1>8, <2>2, <3>1, <3>2
    <2>7. f[n + 1] # "eof"
      BY <1>1, <2>1
    <2> QED
      BY <2>2, <2>5, <2>6, <2>7
  <1>12. ASSUME n = Len(f)
         PROVE  /\ Char(p + Spent(f, n) + 2) = Quotation
                /\ FieldEnd(t, always, end, r, c) = p + Spent(f, n) + 2
                /\ Char(p + Spent(f, n) + 3) \in Delimiter
    <2>1. Len(w) = Spent(f, n) + 2 /\ w[Spent(f, n) + 2] = Quotation
      BY <1>2, <1>12 DEF QuotedHeld
    <2>2. Spent(f, n) + 2 \in 1..Len(w) /\ p + (Spent(f, n) + 2) = p + Spent(f, n) + 2
      <3>1. p \in Nat /\ Spent(f, n) \in Nat
        BY <1>3, <1>9
      <3>2. Len(w) = Spent(f, n) + 2
        BY <2>1
      <3> HIDE DEF w
      <3>3. Spent(f, n) + 2 \in 1..(Spent(f, n) + 2)
            /\ p + (Spent(f, n) + 2) = p + Spent(f, n) + 2
        BY <3>1, SMT
      <3> QED
        BY <3>2, <3>3, Zenon
    <2>3. p + Spent(f, n) + 3 = (p + Spent(f, n) + 2) + 1
      BY <1>3, <1>9
    <2>4. FieldEnd(t, always, end, r, c) = p + Spent(f, n) + 2
      BY <1>6, <2>1, <2>2
    <2> QED
      BY <1>7, <1>8, <2>1, <2>2, <2>3, <2>4
  <1> QED
    BY <1>5, <1>10, <1>11, <1>12, Zenon DEF f, p

(* The records of a table.                                                  *)
Rows(t) == {t[r] : r \in 1..Len(t)} \ {<<<<>>>>}

LEMMA KeptTyped ==
    ASSUME NEW t, Writable(t)
    PROVE  /\ Kept(t) \in Seq(Seq(Rows(t))) /\ Len(Kept(t)) = Len(t)
           /\ \A r \in 1..Len(t) : Kept(t)[r] = IF t[r] = <<<<>>>> THEN <<>> ELSE <<t[r]>>
  <1>1. DOMAIN t = 1..Len(t) /\ Len(t) \in Nat
    BY DEF Writable
  <1>2. ASSUME NEW r \in 1..Len(t)
        PROVE  (IF t[r] = <<<<>>>> THEN <<>> ELSE <<t[r]>>) \in Seq(Rows(t))
    <2>1. CASE t[r] = <<<<>>>>
      BY <2>1
    <2>2. CASE t[r] # <<<<>>>>
      <3>1. t[r] \in Rows(t)
        BY <2>2, Zenon DEF Rows
      <3>2. <<t[r]>> \in Seq(Rows(t))
        BY <3>1
      <3> QED
        BY <2>2, <3>2, Zenon
    <2> QED
      BY <2>1, <2>2
  <1>3. Kept(t) \in [1..Len(t) -> Seq(Rows(t))]
    BY <1>1, <1>2, Zenon DEF Kept
  <1>4. Kept(t) \in Seq(Seq(Rows(t))) /\ Len(Kept(t)) = Len(t)
    BY <1>1, <1>3, FunctionIsSeq, Zenon
  <1> QED
    BY <1>1, <1>4, Zenon DEF Kept

LEMMA RecordedTyped ==
    ASSUME NEW t, Writable(t)
    PROVE  /\ Recorded(t) \in Seq(Rows(t))
           /\ Upto(Kept(t), 0) = <<>> /\ Upto(Kept(t), Len(t)) = Recorded(t)
           /\ \A r \in 0..Len(t) : Upto(Kept(t), r) \in Seq(Rows(t))
           /\ \A r \in 1..Len(t) :
                 /\ Len(Upto(Kept(t), r)) <= Len(Recorded(t))
                 /\ Upto(Kept(t), r) = IF t[r] = <<<<>>>> THEN Upto(Kept(t), r - 1)
                                       ELSE Append(Upto(Kept(t), r - 1), t[r])
                 /\ t[r] # <<<<>>>> => t[r] \in Range(Recorded(t))
  <1> DEFINE k == Kept(t)
             S == Rows(t)
  <1>1. k \in Seq(Seq(S)) /\ Len(k) = Len(t) /\ Len(t) \in Nat
    BY KeptTyped DEF Writable
  <1>2. \A r \in 1..Len(t) : k[r] = IF t[r] = <<<<>>>> THEN <<>> ELSE <<t[r]>>
    BY KeptTyped, Zenon
  <1>3. Recorded(t) = FlattenSeq(k)
    BY Zenon DEF Recorded, Kept
  <1> HIDE DEF k, S
  <1>4. FlattenSeq(k) \in Seq(S)
    BY <1>1, FlattenTyped
  <1>5. Upto(k, 0) = <<>> /\ Upto(k, Len(t)) = FlattenSeq(k)
    BY <1>1, UptoNone, UptoAll
  <1>6. \A r \in 0..Len(t) : Upto(k, r) \in Seq(S)
    BY <1>1, UptoTyped
  <1>7. ASSUME NEW r \in 1..Len(t)
        PROVE  /\ Len(Upto(k, r)) <= Len(FlattenSeq(k))
               /\ Upto(k, r) = IF t[r] = <<<<>>>> THEN Upto(k, r - 1)
                               ELSE Append(Upto(k, r - 1), t[r])
               /\ t[r] # <<<<>>>> => t[r] \in Range(FlattenSeq(k))
    <2>1. r - 1 \in 0..(Len(k) - 1) /\ (r - 1) + 1 = r /\ r - 1 \in 0..Len(t)
      BY <1>1
    <2>2. Upto(k, r) = Upto(k, r - 1) \o k[r]
      BY <1>1, <2>1, UptoMore
    <2>3. Upto(k, r - 1) \in Seq(S) /\ k[r] \in Seq(S)
      BY <1>1, <1>6, <2>1
    <2>4. Holds(FlattenSeq(k), Offset(k, r - 1), k[r])
      BY <1>1, <2>1, PartsHeld
    <2>5. Len(Upto(k, r)) = Offset(k, r - 1) + Len(k[r])
      BY <2>2, <2>3 DEF Offset
    <2>6. Len(Upto(k, r)) <= Len(FlattenSeq(k))
      BY <2>4, <2>5 DEF Holds
    <2>7. CASE t[r] = <<<<>>>>
      <3>1. k[r] = <<>>
        BY <1>2, <2>7
      <3>2. Upto(k, r) = Upto(k, r - 1)
        BY <2>2, <2>3, <3>1
      <3> QED
        BY <2>6, <2>7, <3>2
    <2>8. CASE t[r] # <<<<>>>>
      <3>1. k[r] = <<t[r]>>
        BY <1>2, <2>8
      <3>2. Upto(k, r) = Append(Upto(k, r - 1), t[r])
        BY <2>2, <2>3, <3>1
      <3>3. Offset(k, r - 1) \in Nat
        BY <2>3 DEF Offset
      <3>4. Len(k[r]) = 1 /\ k[r][1] = t[r]
        BY <3>1
      <3>5. Offset(k, r - 1) + 1 <= Len(FlattenSeq(k)) /\ FlattenSeq(k)[Offset(k, r - 1) + 1] = t[r]
        BY <2>4, <3>4 DEF Holds
      <3>6. Offset(k, r - 1) + 1 \in DOMAIN FlattenSeq(k)
        BY <1>4, <3>3, <3>5
      <3>7. t[r] \in Range(FlattenSeq(k))
        BY <3>5, <3>6 DEF Range
      <3> QED
        BY <2>6, <2>8, <3>2, <3>7
    <2> QED
      BY <2>7, <2>8
  <1> QED
    BY <1>3, <1>4, <1>5, <1>6, <1>7, Zenon DEF k, S

(* What a reading refuses is not legal.                                     *)
LEMMA LongField ==
    ASSUME NEW t, Writable(t), NEW r \in 1..Len(t), NEW c \in 1..Len(t[r]),
           NEW n \in 1..Len(t[r][c]), n > max_field_bytes, t[r][c][n] # Quotation
    PROVE  ~Legal(Recorded(t))
  <1> SUFFICES ASSUME Legal(Recorded(t)) PROVE FALSE
    OBVIOUS
  <1>1. t[r] \in Seq(Seq(Alphabet)) /\ t[r][c] \in Seq(Alphabet)
    BY RowOf
  <1>2. t[r] # <<<<>>>>
    <2> SUFFICES ASSUME t[r] = <<<<>>>> PROVE FALSE
      OBVIOUS
    <2>1. c = 1 /\ t[r][1] = <<>>
      OBVIOUS
    <2> QED
      BY <2>1
  <1>3. t[r] \in Range(Recorded(t))
    BY <1>2, RecordedTyped
  <1>4. t[r][c] \in Range(t[r]) /\ n \in DOMAIN t[r][c]
    BY <1>1 DEF Range
  <1> QED
    BY <1>3, <1>4 DEF Legal

LEMMA WideRow ==
    ASSUME NEW t, Writable(t), NEW r \in 1..Len(t), Len(t[r]) > max_columns
    PROVE  ~Legal(Recorded(t))
  <1> SUFFICES ASSUME Legal(Recorded(t)) PROVE FALSE
    OBVIOUS
  <1>1. CASE t[r] # <<<<>>>>
    <2>1. t[r] \in Range(Recorded(t))
      BY <1>1, RecordedTyped
    <2>2. Len(t[r]) <= max_columns
      BY <2>1 DEF Legal
    <2>3. Len(t[r]) \in Nat /\ max_columns \in Nat
      BY RowOf, CsvAssumption
    <2> QED
      BY <2>2, <2>3
  <1>2. CASE t[r] = <<<<>>>>
    <2>1. max_columns = 0
      BY <1>2, CsvAssumption
    <2>2. Recorded(t) \in Seq(Rows(t)) /\ Recorded(t) # <<>>
      BY RecordedTyped DEF Legal
    <2>3. Recorded(t)[1] \in Rows(t) /\ Recorded(t)[1] \in Range(Recorded(t))
      BY <2>2 DEF Range
    <2>4. PICK k \in 1..Len(t) : Recorded(t)[1] = t[k]
      BY <2>3 DEF Rows
    <2>5. Len(t[k]) \in Nat \ {0}
      BY RowOf
    <2>6. Len(t[k]) <= max_columns
      BY <2>3, <2>4 DEF Legal
    <2> QED
      BY <2>1, <2>5, <2>6
  <1> QED
    BY <1>1, <1>2

LEMMA ManyRows ==
    ASSUME NEW t, Writable(t), NEW r \in 1..Len(t), Len(Upto(Kept(t), r)) - 1 > max_rows
    PROVE  ~Legal(Recorded(t))
  <1>1. /\ Len(Upto(Kept(t), r)) <= Len(Recorded(t))
        /\ Len(Recorded(t)) \in Nat
    <2>1. Recorded(t) \in Seq(Rows(t))
      BY RecordedTyped
    <2>2. Len(Upto(Kept(t), r)) <= Len(Recorded(t))
      BY RecordedTyped, Zenon
    <2> QED
      BY <2>1, <2>2
  <1>2. Upto(Kept(t), r) \in Seq(Rows(t))
    <2>1. r \in 0..Len(t)
      BY DEF Writable
    <2> QED
      BY <2>1, RecordedTyped
  <1>3. Len(Upto(Kept(t), r)) \in Nat
    BY <1>2
  <1> QED
    BY <1>1, <1>3, CsvAssumption DEF Legal

(* What has passed every limit is legal.                                    *)
LEMMA PassedIsLegal == Within /\ records # <<>> => Legal(records)
  <1> SUFFICES ASSUME Within, records # <<>> PROVE Legal(records)
    OBVIOUS
  <1>1. ASSUME NEW q \in Range(records)
        PROVE  /\ Len(q) <= max_columns
               /\ \A f \in Range(q) : \A n \in DOMAIN f : n > max_field_bytes => f[n] = Quotation
    <2>1. LegalRow(q)
      BY DEF Range, Within
    <2> QED
      BY <2>1 DEF LegalRow, LegalField, Range
  <1> QED
    BY <1>1 DEF Legal, Within

(* The table a text was written from, and how.                              *)
WrittenAs(t, always, end, last) ==
    /\ t \in Tables /\ always \in BOOLEAN /\ last \in BOOLEAN /\ end \in LineEnds
    /\ Writable(t) /\ Spelt(t, always, end, last)
    /\ input \in Seq(Alphabet) /\ Len(input) \in Nat

LEMMA WrittenIs ==
    ASSUME NEW t \in Tables, NEW always \in BOOLEAN, NEW last \in BOOLEAN, NEW end \in LineEnds,
           input = Write(t, always, end, last)
    PROVE  WrittenAs(t, always, end, last)
  <1>1. Writable(t)
    BY TablesWritable
  <1>2. Spelt(t, always, end, last)
    BY <1>1, WrittenSpells, Zenon DEF Spelt
  <1>3. input \in Seq(Alphabet)
    BY <1>2 DEF Spelt, Spells
  <1> QED
    BY <1>1, <1>2, <1>3 DEF WrittenAs

(* What the parser reads after n characters of a field without quotes.      *)
StandsPlain(t, always, end, r, c, n) ==
    /\ n < Len(t[r][c]) => /\ Char(pos) = t[r][c][n + 1]
                           /\ Char(pos) \notin Delimiter \cup {Quotation}
    /\ n = Len(t[r][c]) => /\ FieldEnd(t, always, end, r, c) = FieldAt(t, always, end, r, c) + n
                           /\ Char(pos) \in Delimiter

(* The same from where the parser stands.                                   *)
LEMMA PlainHere ==
    ASSUME NEW t, NEW always, NEW end, NEW last, WrittenAs(t, always, end, last),
           NEW r \in 1..Len(t), NEW c \in 1..Len(t[r]), NEW n \in 0..Len(t[r][c]),
           ~NeedsQuotes(t[r][c], always), pos = FieldAt(t, always, end, r, c) + n + 1
    PROVE  StandsPlain(t, always, end, r, c, n)
  <1>1. always \in BOOLEAN /\ last \in BOOLEAN /\ end \in LineEnds /\ Writable(t)
        /\ Spelt(t, always, end, last)
    BY DEF WrittenAs
  <1> DEFINE p == FieldAt(t, always, end, r, c) + n + 1
  <1>2. /\ n < Len(t[r][c]) => /\ Char(p) = t[r][c][n + 1]
                               /\ Char(p) \notin Delimiter \cup {Quotation}
        /\ n = Len(t[r][c]) => /\ FieldAt(t, always, end, r, c) + n
                                    = FieldEnd(t, always, end, r, c)
                               /\ Char(p) \in Delimiter
    BY <1>1, PlainSpelt
  <1>3. pos = p
    OBVIOUS
  <1> HIDE DEF p
  <1> QED
    BY <1>2, <1>3, Zenon DEF StandsPlain

LEMMA QuotedHere ==
    ASSUME NEW t, NEW always, NEW end, NEW last, WrittenAs(t, always, end, last),
           NEW r \in 1..Len(t), NEW c \in 1..Len(t[r]), NEW n \in 0..Len(t[r][c]),
           NeedsQuotes(t[r][c], always),
           pos = FieldAt(t, always, end, r, c) + Spent(t[r][c], n) + 2
    PROVE  /\ n < Len(t[r][c]) =>
                 /\ Char(pos) = t[r][c][n + 1] /\ t[r][c][n + 1] # "eof"
                 /\ Spent(t[r][c], n + 1)
                      = Spent(t[r][c], n) + (IF t[r][c][n + 1] = Quotation THEN 2 ELSE 1)
                 /\ t[r][c][n + 1] = Quotation => Char(pos + 1) = Quotation
           /\ n = Len(t[r][c]) =>
                 /\ Char(pos) = Quotation /\ Char(pos + 1) \in Delimiter
                 /\ FieldEnd(t, always, end, r, c) = pos
           /\ FieldAt(t, always, end, r, c) \in Nat /\ Spent(t[r][c], n) \in Nat
           /\ Len(t[r][c]) \in Nat
  <1>1. always \in BOOLEAN /\ last \in BOOLEAN /\ end \in LineEnds /\ Writable(t)
        /\ Spelt(t, always, end, last)
    BY DEF WrittenAs
  <1> DEFINE p == FieldAt(t, always, end, r, c)
             s == Spent(t[r][c], n)
  <1>2. /\ n < Len(t[r][c]) =>
              /\ Char(p + s + 2) = t[r][c][n + 1] /\ t[r][c][n + 1] # "eof"
              /\ Spent(t[r][c], n + 1) = s + (IF t[r][c][n + 1] = Quotation THEN 2 ELSE 1)
              /\ t[r][c][n + 1] = Quotation => Char(p + s + 3) = Quotation
        /\ n = Len(t[r][c]) =>
              /\ Char(p + s + 2) = Quotation
              /\ FieldEnd(t, always, end, r, c) = p + s + 2
              /\ Char(p + s + 3) \in Delimiter
    BY <1>1, QuotedSpelt
  <1>3. p \in Nat
    BY <1>1, FieldSpelt
  <1>4. t[r][c] \in Seq(Alphabet) /\ Len(t[r][c]) \in Nat
    BY <1>1, RowOf
  <1>5. s \in Nat
    BY <1>4, SpentInField
  <1>6. pos = p + s + 2
    OBVIOUS
  <1> HIDE DEF p, s
  <1>7. pos + 1 = p + s + 3
    BY <1>3, <1>5, <1>6
  <1>8. p \in Nat /\ s \in Nat /\ Len(t[r][c]) \in Nat
    BY <1>3, <1>4, <1>5
  <1>9. /\ n < Len(t[r][c]) =>
              /\ Char(pos) = t[r][c][n + 1] /\ t[r][c][n + 1] # "eof"
              /\ Spent(t[r][c], n + 1) = s + (IF t[r][c][n + 1] = Quotation THEN 2 ELSE 1)
              /\ t[r][c][n + 1] = Quotation => Char(pos + 1) = Quotation
        /\ n = Len(t[r][c]) =>
              /\ Char(pos) = Quotation /\ Char(pos + 1) \in Delimiter
              /\ FieldEnd(t, always, end, r, c) = pos
    BY <1>2, <1>6, <1>7, Zenon
  <1> QED
    BY <1>8, <1>9 DEF p, s

(* Where the parser stands, and what it has.                                *)
Reads(t, always, end) ==
    Within /\ (AtEnd(t) \/ \E r \in 1..Len(t) : InLine(t, always, end, r))

LEMMA FieldBegun ==
    ASSUME NEW t, NEW always, NEW end, NEW last, WrittenAs(t, always, end, last),
           Reads(t, always, end), BeginField
    PROVE  Reads(t, always, end)' /\ outcome' = outcome
  <1> USE DEF WrittenAs
  <1>1. \E r \in 1..Len(t) : \E c \in 1..Len(t[r]) :
           /\ records = Upto(Kept(t), r - 1)
           /\ row = SubSeq(t[r], 1, c - 1) /\ field = <<>>
           /\ pos = FieldAt(t, always, end, r, c) + 1
    <2>1. CASE scan = "record"
      <3>1. pos <= Len(input)
        BY <2>1 DEF BeginField
      <3>2. PICK r \in 1..Len(t) : InLine(t, always, end, r)
        BY <3>1 DEF Reads, AtEnd
      <3>3. /\ records = Upto(Kept(t), r - 1) /\ row = <<>> /\ field = <<>>
            /\ pos = LineAt(t, always, end, r) + 1
        BY <2>1, <3>2 DEF InLine, InField, AfterField
      <3>4. FieldAt(t, always, end, r, 1) = LineAt(t, always, end, r)
        BY DEF Spelt, Spells
      <3>5. 1 \in 1..Len(t[r]) /\ SubSeq(t[r], 1, 1 - 1) = <<>>
        BY RowOf
      <3> QED
        BY <3>3, <3>4, <3>5
    <2>2. CASE scan = "field"
      <3>1. PICK r \in 1..Len(t) : InLine(t, always, end, r)
        BY <2>2 DEF Reads, AtEnd
      <3>2. PICK b \in 1..Len(t[r]) :
               /\ records = Upto(Kept(t), r - 1)
               /\ b < Len(t[r]) /\ row = SubSeq(t[r], 1, b) /\ field = <<>>
               /\ pos = FieldAt(t, always, end, r, b + 1) + 1
        BY <2>2, <3>1 DEF InLine, InField, AfterField
      <3>3. b + 1 \in 1..Len(t[r]) /\ (b + 1) - 1 = b
        BY <3>2, RowOf
      <3> QED
        BY <3>2, <3>3
    <2> QED
      BY <2>1, <2>2 DEF BeginField
  <1>0. PICK r \in 1..Len(t) : \E c \in 1..Len(t[r]) :
           /\ records = Upto(Kept(t), r - 1)
           /\ row = SubSeq(t[r], 1, c - 1) /\ field = <<>>
           /\ pos = FieldAt(t, always, end, r, c) + 1
    BY <1>1
  <1>2. PICK c \in 1..Len(t[r]) :
           /\ records = Upto(Kept(t), r - 1)
           /\ row = SubSeq(t[r], 1, c - 1) /\ field = <<>>
           /\ pos = FieldAt(t, always, end, r, c) + 1
    BY <1>0
  <1>3. /\ UNCHANGED <<field, row, records, outcome>>
        /\ scan' = IF Char(pos) = Quotation THEN "quoted" ELSE "plain"
        /\ pos' = IF Char(pos) = Quotation THEN pos + 1 ELSE pos
    BY DEF BeginField
  <1>4. t[r][c] \in Seq(Alphabet) /\ Len(t[r][c]) \in Nat
    BY RowOf
  <1>5. 0 \in 0..Len(t[r][c]) /\ SubSeq(t[r][c], 1, 0) = <<>>
    BY <1>4
  <1>6. FieldAt(t, always, end, r, c) \in Nat
    BY FieldSpelt
  <1>7. InField(t, always, end, r, c, 0)'
    <2>1. CASE NeedsQuotes(t[r][c], always)
      <3>1. Char(pos) = Quotation /\ Spent(t[r][c], 0) = 0
        BY <1>2, <1>5, <2>1, QuotedSpelt
      <3>2. pos' = FieldAt(t, always, end, r, c) + Spent(t[r][c], 0) + 2
        BY <1>2, <1>3, <1>6, <3>1
      <3> QED
        BY <1>2, <1>3, <1>5, <2>1, <3>1, <3>2 DEF InField
    <2>2. CASE ~NeedsQuotes(t[r][c], always)
      <3>1. pos = FieldAt(t, always, end, r, c) + 0 + 1
        BY <1>2, <1>6
      <3>2. Char(pos) # Quotation
        <4>1. 0 < Len(t[r][c]) => Char(pos) \notin Delimiter \cup {Quotation}
          BY <1>5, <2>2, <3>1, PlainSpelt
        <4>2. 0 = Len(t[r][c]) => Char(pos) \in Delimiter
          BY <1>5, <2>2, <3>1, PlainSpelt
        <4> QED
          BY <1>4, <4>1, <4>2, MarksDiffer DEF Delimiter
      <3> QED
        BY <1>2, <1>3, <1>5, <2>2, <3>1, <3>2 DEF InField
    <2> QED
      BY <2>1, <2>2
  <1>8. InLine(t, always, end, r)'
    BY <1>2, <1>3, <1>5, <1>7 DEF InLine
  <1>9. Within'
    BY <1>3 DEF Reads, Within
  <1> QED
    BY <1>3, <1>8, <1>9 DEF Reads

(* A character of the field is taken, unless it is one too many.            *)
LEMMA CharTaken ==
    ASSUME NEW t, NEW always, NEW end, NEW last, WrittenAs(t, always, end, last),
           Reads(t, always, end),
           NEW r \in 1..Len(t), NEW c \in 1..Len(t[r]), NEW n \in 0..(Len(t[r][c]) - 1),
           records = Upto(Kept(t), r - 1), row = SubSeq(t[r], 1, c - 1),
           field = SubSeq(t[r][c], 1, n),
           field' = Append(field, t[r][c][n + 1]), UNCHANGED <<scan, row, records>>,
           \/ /\ scan = "plain" /\ ~NeedsQuotes(t[r][c], always)
              /\ pos' = FieldAt(t, always, end, r, c) + (n + 1) + 1
           \/ /\ scan = "quoted" /\ NeedsQuotes(t[r][c], always)
              /\ pos' = FieldAt(t, always, end, r, c) + Spent(t[r][c], n + 1) + 2
    PROVE  /\ Measured /\ t[r][c][n + 1] # Quotation => ~Legal(Recorded(t))
           /\ ~Measured \/ t[r][c][n + 1] = Quotation => Reads(t, always, end)'
  <1> USE DEF WrittenAs
  <1> DEFINE f == t[r][c]
  <1>1. f \in Seq(Alphabet) /\ Len(f) \in Nat
    BY RowOf
  <1>2. n + 1 \in 1..Len(f) /\ n + 1 \in 0..Len(f) /\ n \in Nat
    BY <1>1
  <1>3. Len(field) = n /\ field' = SubSeq(f, 1, n + 1)
    BY <1>1, <1>2
  <1>4. /\ DOMAIN field' = 1..(n + 1) /\ DOMAIN field = 1..n
        /\ \A k \in 1..n : field'[k] = field[k] /\ field'[n + 1] = f[n + 1]
    BY <1>1, <1>2
  <1>5. Measured <=> n + 1 > max_field_bytes
    BY <1>3 DEF Measured
  <1>6. ASSUME Measured, f[n + 1] # Quotation PROVE ~Legal(Recorded(t))
    BY <1>2, <1>5, <1>6, LongField
  <1>7. ASSUME ~Measured \/ f[n + 1] = Quotation PROVE Reads(t, always, end)'
    <2>1. LegalField(field')
      <3>1. LegalField(field)
        BY DEF Reads, Within
      <3>2. field'[n + 1] = f[n + 1]
        BY <1>1, <1>2, <1>3
      <3> HIDE DEF f
      <3>3. ASSUME NEW k \in DOMAIN field', k > max_field_bytes PROVE field'[k] = Quotation
        <4>1. k \in 1..n \/ k = n + 1
          BY <1>2, <1>4
        <4>2. CASE k = n + 1
          BY <1>5, <1>7, <3>2, <3>3, <4>2
        <4>3. CASE k \in 1..n
          BY <1>4, <3>1, <3>3, <4>3 DEF LegalField
        <4> QED
          BY <4>1, <4>2, <4>3
      <3> QED
        BY <3>3 DEF LegalField
    <2>2. Within'
      <3>1. LegalRow(row)' /\ (Len(records) - 1 <= max_rows)'
            /\ (\A k \in DOMAIN records : LegalRow(records[k]))'
        BY DEF Reads, Within
      <3> QED
        BY <2>1, <3>1 DEF Within
    <2>3. InField(t, always, end, r, c, n + 1)'
      BY <1>3 DEF InField
    <2>4. InLine(t, always, end, r)'
      BY <1>2, <2>3 DEF InLine
    <2> QED
      BY <2>2, <2>4 DEF Reads
  <1> QED
    BY <1>6, <1>7

(* What the parser says of t.                                               *)
Answers(t, always, end) ==
    \/ outcome = "" /\ Reads(t, always, end)
    \/ outcome = "ok" /\ records = Recorded(t) /\ Legal(records)
    \/ outcome \notin {"", "ok"} /\ ~Legal(Recorded(t))

LEMMA InSomeField ==
    ASSUME NEW t, NEW always, NEW end, Reads(t, always, end), scan \in {"plain", "quoted", "closed"}
    PROVE  \E r \in 1..Len(t) : \E c \in 1..Len(t[r]) : \E n \in 0..Len(t[r][c]) :
              records = Upto(Kept(t), r - 1) /\ InField(t, always, end, r, c, n)
  <1>1. PICK r \in 1..Len(t) : InLine(t, always, end, r)
    BY DEF Reads, AtEnd
  <1> QED
    BY <1>1 DEF InLine, AfterField

LEMMA PlainTaken ==
    ASSUME NEW t, NEW always, NEW end, NEW last, WrittenAs(t, always, end, last),
           Reads(t, always, end), TakePlain
    PROVE  outcome = "" => Answers(t, always, end)'
  <1>0. Writable(t) /\ Spelt(t, always, end, last)
    BY DEF WrittenAs
  <1>1. PICK r \in 1..Len(t) : \E c \in 1..Len(t[r]) : \E n \in 0..Len(t[r][c]) :
           records = Upto(Kept(t), r - 1) /\ InField(t, always, end, r, c, n)
    BY InSomeField DEF TakePlain
  <1>2. PICK c \in 1..Len(t[r]) : \E n \in 0..Len(t[r][c]) :
           records = Upto(Kept(t), r - 1) /\ InField(t, always, end, r, c, n)
    BY <1>1
  <1>3. PICK n \in 0..Len(t[r][c]) :
           records = Upto(Kept(t), r - 1) /\ InField(t, always, end, r, c, n)
    BY <1>2
  <1>4. /\ scan = "plain" /\ scan' = scan /\ Char(pos) \notin Delimiter
        /\ field' = Append(field, Char(pos)) /\ pos' = pos + 1
        /\ UNCHANGED <<row, records>>
    BY DEF TakePlain, Take
  <1>5. /\ row = SubSeq(t[r], 1, c - 1) /\ field = SubSeq(t[r][c], 1, n)
        /\ ~NeedsQuotes(t[r][c], always)
        /\ pos = FieldAt(t, always, end, r, c) + n + 1
    BY <1>3, <1>4 DEF InField
  <1>6. FieldAt(t, always, end, r, c) \in Nat /\ Len(t[r][c]) \in Nat
    BY <1>0, RowOf, FieldSpelt
  <1>6a. StandsPlain(t, always, end, r, c, n)
    BY <1>5, PlainHere, Zenon
  <1>7. n # Len(t[r][c])
    BY <1>4, <1>6a, Zenon DEF StandsPlain
  <1>8. n \in 0..(Len(t[r][c]) - 1)
    BY <1>6, <1>7
  <1>9. Char(pos) = t[r][c][n + 1] /\ Char(pos) # Quotation
    <2>1. n < Len(t[r][c])
      BY <1>6, <1>7
    <2>2. /\ Char(pos) = t[r][c][n + 1]
          /\ Char(pos) \notin Delimiter \cup {Quotation}
      BY <1>6a, <2>1, Zenon DEF StandsPlain
    <2> QED
      BY <2>2
  <1>10. pos' = FieldAt(t, always, end, r, c) + (n + 1) + 1
    BY <1>4, <1>5, <1>6
  <1>11. /\ Measured => ~Legal(Recorded(t))
         /\ ~Measured => Reads(t, always, end)'
    BY <1>3, <1>4, <1>5, <1>8, <1>9, <1>10, CharTaken
  <1>12. outcome' = IF Measured THEN "field too long" ELSE outcome
    BY DEF TakePlain
  <1> QED
    BY <1>11, <1>12 DEF Answers

LEMMA QuotedTaken ==
    ASSUME NEW t, NEW always, NEW end, NEW last, WrittenAs(t, always, end, last),
           Reads(t, always, end), TakeQuoted \/ TakeQuote
    PROVE  outcome = "" => Answers(t, always, end)'
  <1>0. Writable(t) /\ Spelt(t, always, end, last)
    BY DEF WrittenAs
  <1>1. PICK r \in 1..Len(t) : \E c \in 1..Len(t[r]) : \E n \in 0..Len(t[r][c]) :
           records = Upto(Kept(t), r - 1) /\ InField(t, always, end, r, c, n)
    BY InSomeField DEF TakeQuoted, TakeQuote
  <1>2. PICK c \in 1..Len(t[r]) : \E n \in 0..Len(t[r][c]) :
           records = Upto(Kept(t), r - 1) /\ InField(t, always, end, r, c, n)
    BY <1>1
  <1>3. PICK n \in 0..Len(t[r][c]) :
           records = Upto(Kept(t), r - 1) /\ InField(t, always, end, r, c, n)
    BY <1>2
  <1>4. /\ scan = "quoted" /\ scan' = scan
        /\ field' = Append(field, Char(pos))
        /\ UNCHANGED <<row, records>>
    BY DEF TakeQuoted, TakeQuote, Take
  <1>5. /\ row = SubSeq(t[r], 1, c - 1) /\ field = SubSeq(t[r][c], 1, n)
        /\ NeedsQuotes(t[r][c], always)
        /\ pos = FieldAt(t, always, end, r, c) + Spent(t[r][c], n) + 2
    BY <1>3, <1>4 DEF InField
  <1>6. FieldAt(t, always, end, r, c) \in Nat /\ Len(t[r][c]) \in Nat
    BY <1>0, RowOf, FieldSpelt
  <1>7. Spent(t[r][c], n) \in Nat
    <2>1. t[r][c] \in Seq(Alphabet)
      BY <1>0, RowOf
    <2> QED
      BY <2>1, SpentInField
  <1>8. pos + 1 = FieldAt(t, always, end, r, c) + Spent(t[r][c], n) + 3
    BY <1>5, <1>6, <1>7
  <1>8a. /\ n < Len(t[r][c]) =>
               /\ Char(pos) = t[r][c][n + 1] /\ t[r][c][n + 1] # "eof"
               /\ Spent(t[r][c], n + 1)
                    = Spent(t[r][c], n) + (IF t[r][c][n + 1] = Quotation THEN 2 ELSE 1)
               /\ t[r][c][n + 1] = Quotation => Char(pos + 1) = Quotation
         /\ n = Len(t[r][c]) =>
               /\ Char(pos) = Quotation /\ Char(pos + 1) \in Delimiter
               /\ FieldEnd(t, always, end, r, c) = pos
    BY <1>5, QuotedHere, ZenonT(60)
  <1>9. n # Len(t[r][c])
    <2> SUFFICES ASSUME n = Len(t[r][c]) PROVE FALSE
      OBVIOUS
    <2>1. Char(pos) = Quotation /\ Char(pos + 1) \in Delimiter
      BY <1>8a, Zenon
    <2>2. Quotation \notin Delimiter
      BY MarksDiffer DEF Delimiter
    <2> QED
      BY <2>1, <2>2 DEF TakeQuoted, TakeQuote
  <1>10. n \in 0..(Len(t[r][c]) - 1) /\ n < Len(t[r][c])
    BY <1>6, <1>9
  <1>11. /\ Char(pos) = t[r][c][n + 1]
         /\ Spent(t[r][c], n + 1)
              = Spent(t[r][c], n) + (IF t[r][c][n + 1] = Quotation THEN 2 ELSE 1)
    BY <1>8a, <1>10, Zenon
  <1>12. /\ pos' = FieldAt(t, always, end, r, c) + Spent(t[r][c], n + 1) + 2
         /\ IF Char(pos) = Quotation THEN outcome' = outcome
            ELSE outcome' = IF Measured THEN "field too long" ELSE outcome
    <2>1. CASE TakeQuoted
      <3>1. Char(pos) # Quotation /\ pos' = pos + 1
            /\ outcome' = IF Measured THEN "field too long" ELSE outcome
        BY <2>1 DEF TakeQuoted, Take
      <3>2. Spent(t[r][c], n + 1) = Spent(t[r][c], n) + 1
        BY <1>11, <3>1
      <3>3. pos' = pos + 1
        BY <3>1
      <3>4. pos' = FieldAt(t, always, end, r, c) + Spent(t[r][c], n + 1) + 2
        BY <1>5, <1>6, <1>7, <3>2, <3>3
      <3> QED
        BY <3>1, <3>4
    <2>2. CASE TakeQuote
      <3>1. Char(pos) = Quotation /\ pos' = pos + 2 /\ outcome' = outcome
        BY <2>2 DEF TakeQuote, Take
      <3>2. Spent(t[r][c], n + 1) = Spent(t[r][c], n) + 2
        BY <1>11, <3>1
      <3> QED
        BY <1>5, <1>6, <1>7, <3>1, <3>2
    <2> QED
      BY <2>1, <2>2
  <1>13. /\ Measured /\ t[r][c][n + 1] # Quotation => ~Legal(Recorded(t))
         /\ ~Measured \/ t[r][c][n + 1] = Quotation => Reads(t, always, end)'
    BY <1>3, <1>4, <1>5, <1>10, <1>11, <1>12, CharTaken
  <1> QED
    BY <1>11, <1>12, <1>13 DEF Answers

LEMMA QuoteClosed ==
    ASSUME NEW t, NEW always, NEW end, NEW last, WrittenAs(t, always, end, last),
           Reads(t, always, end), CloseQuote
    PROVE  outcome = "" => Answers(t, always, end)'
  <1>0. Writable(t) /\ Spelt(t, always, end, last)
    BY DEF WrittenAs
  <1>1. PICK r \in 1..Len(t) : \E c \in 1..Len(t[r]) : \E n \in 0..Len(t[r][c]) :
           records = Upto(Kept(t), r - 1) /\ InField(t, always, end, r, c, n)
    BY InSomeField DEF CloseQuote
  <1>2. PICK c \in 1..Len(t[r]) : \E n \in 0..Len(t[r][c]) :
           records = Upto(Kept(t), r - 1) /\ InField(t, always, end, r, c, n)
    BY <1>1
  <1>3. PICK n \in 0..Len(t[r][c]) :
           records = Upto(Kept(t), r - 1) /\ InField(t, always, end, r, c, n)
    BY <1>2
  <1>4. /\ scan = "quoted" /\ scan' = "closed" /\ pos' = pos + 1
        /\ Char(pos) = Quotation /\ Char(pos + 1) # Quotation
        /\ UNCHANGED <<field, row, records, outcome>>
    BY DEF CloseQuote
  <1>5. /\ row = SubSeq(t[r], 1, c - 1) /\ field = SubSeq(t[r][c], 1, n)
        /\ NeedsQuotes(t[r][c], always)
        /\ pos = FieldAt(t, always, end, r, c) + Spent(t[r][c], n) + 2
    BY <1>3, <1>4 DEF InField
  <1>6. FieldAt(t, always, end, r, c) \in Nat /\ Len(t[r][c]) \in Nat
    BY <1>0, RowOf, FieldSpelt
  <1>7. Spent(t[r][c], n) \in Nat
    <2>1. t[r][c] \in Seq(Alphabet)
      BY <1>0, RowOf
    <2> QED
      BY <2>1, SpentInField
  <1>8. pos + 1 = FieldAt(t, always, end, r, c) + Spent(t[r][c], n) + 3
    BY <1>5, <1>6, <1>7
  <1>8a. /\ n < Len(t[r][c]) =>
               /\ Char(pos) = t[r][c][n + 1] /\ t[r][c][n + 1] # "eof"
               /\ Spent(t[r][c], n + 1)
                    = Spent(t[r][c], n) + (IF t[r][c][n + 1] = Quotation THEN 2 ELSE 1)
               /\ t[r][c][n + 1] = Quotation => Char(pos + 1) = Quotation
         /\ n = Len(t[r][c]) =>
               /\ Char(pos) = Quotation /\ Char(pos + 1) \in Delimiter
               /\ FieldEnd(t, always, end, r, c) = pos
    BY <1>5, QuotedHere, ZenonT(60)
  <1>9. n = Len(t[r][c])
    <2> SUFFICES ASSUME n # Len(t[r][c]) PROVE FALSE
      OBVIOUS
    <2>1. n < Len(t[r][c])
      BY <1>6
    <2>2. /\ Char(pos) = t[r][c][n + 1]
          /\ t[r][c][n + 1] = Quotation => Char(pos + 1) = Quotation
      BY <1>8a, <2>1, Zenon
    <2> QED
      BY <1>4, <2>2, Zenon
  <1>10. FieldEnd(t, always, end, r, c) = FieldAt(t, always, end, r, c) + Spent(t[r][c], n) + 2
    BY <1>5, <1>8a, <1>9, Zenon
  <1>11. pos' = FieldEnd(t, always, end, r, c) + 1
    BY <1>4, <1>5, <1>10
  <1>12. InField(t, always, end, r, c, n)'
    BY <1>4, <1>5, <1>9, <1>11 DEF InField
  <1>13. InLine(t, always, end, r)'
    BY <1>3, <1>4, <1>12 DEF InLine
  <1>14. Within'
    BY <1>4 DEF Reads, Within
  <1> QED
    BY <1>4, <1>13, <1>14 DEF Answers, Reads

LEMMA NeverUnterminated ==
    ASSUME NEW t, NEW always, NEW end, NEW last, WrittenAs(t, always, end, last),
           Reads(t, always, end), Unterminated
    PROVE  FALSE
  <1> USE DEF WrittenAs
  <1>1. PICK r \in 1..Len(t) : \E c \in 1..Len(t[r]) : \E n \in 0..Len(t[r][c]) :
           records = Upto(Kept(t), r - 1) /\ InField(t, always, end, r, c, n)
    BY InSomeField DEF Unterminated
  <1>2. PICK c \in 1..Len(t[r]) : \E n \in 0..Len(t[r][c]) :
           records = Upto(Kept(t), r - 1) /\ InField(t, always, end, r, c, n)
    BY <1>1
  <1>3. PICK n \in 0..Len(t[r][c]) :
           records = Upto(Kept(t), r - 1) /\ InField(t, always, end, r, c, n)
    BY <1>2
  <1>4. /\ NeedsQuotes(t[r][c], always)
        /\ pos = FieldAt(t, always, end, r, c) + Spent(t[r][c], n) + 2
        /\ Char(pos) = "eof"
    BY <1>3 DEF InField, Unterminated
  <1>5. Len(t[r][c]) \in Nat
    BY RowOf
  <1>6. Char(pos) # "eof"
    <2>1. CASE n = Len(t[r][c])
      BY <1>4, <2>1, QuotedSpelt, MarksDiffer
    <2>2. CASE n # Len(t[r][c])
      <3>1. n < Len(t[r][c])
        BY <1>5, <2>2
      <3> QED
        BY <1>4, <3>1, QuotedSpelt
    <2> QED
      BY <2>1, <2>2
  <1> QED
    BY <1>4, <1>6

LEMMA FieldEnded ==
    ASSUME NEW t, NEW always, NEW end, NEW last, WrittenAs(t, always, end, last),
           Reads(t, always, end), EndField
    PROVE  outcome = "" => Answers(t, always, end)'
  <1> USE DEF WrittenAs
  <1>0. scan \in {"plain", "closed"} /\ (scan = "plain" => Char(pos) \in Delimiter)
    BY DEF EndField
  <1>1. PICK r \in 1..Len(t) : \E c \in 1..Len(t[r]) : \E n \in 0..Len(t[r][c]) :
           records = Upto(Kept(t), r - 1) /\ InField(t, always, end, r, c, n)
    BY <1>0, InSomeField
  <1>2. PICK c \in 1..Len(t[r]) : \E n \in 0..Len(t[r][c]) :
           records = Upto(Kept(t), r - 1) /\ InField(t, always, end, r, c, n)
    BY <1>1
  <1>3. PICK n \in 0..Len(t[r][c]) :
           records = Upto(Kept(t), r - 1) /\ InField(t, always, end, r, c, n)
    BY <1>2
  <1>4. t[r][c] \in Seq(Alphabet) /\ Len(t[r][c]) \in Nat
        /\ t[r] \in Seq(Seq(Alphabet)) /\ Len(t[r]) \in Nat \ {0}
    BY RowOf
  <1>5. n = Len(t[r][c]) /\ pos = FieldEnd(t, always, end, r, c) + 1
    <2>1. CASE scan = "closed"
      BY <1>3, <2>1 DEF InField
    <2>2. CASE scan = "plain"
      <3>1. /\ ~NeedsQuotes(t[r][c], always)
            /\ pos = FieldAt(t, always, end, r, c) + n + 1
        BY <1>3, <2>2 DEF InField
      <3>2. Char(pos) \in Delimiter
        BY <1>0, <2>2
      <3>3. n = Len(t[r][c])
        <4> SUFFICES ASSUME n # Len(t[r][c]) PROVE FALSE
          OBVIOUS
        <4>1. n < Len(t[r][c])
          BY <1>4
        <4>2. Char(pos) \notin Delimiter \cup {Quotation}
          BY <3>1, <4>1, PlainSpelt
        <4> QED
          BY <3>2, <4>2
      <3>4. FieldAt(t, always, end, r, c) + n = FieldEnd(t, always, end, r, c)
        BY <3>1, <3>3, PlainSpelt
      <3> QED
        BY <3>1, <3>3, <3>4
    <2> QED
      BY <1>0, <2>1, <2>2
  <1>6. row = SubSeq(t[r], 1, c - 1) /\ field = SubSeq(t[r][c], 1, n)
    BY <1>3 DEF InField
  <1>7. field = t[r][c]
    BY <1>4, <1>5, <1>6
  <1>8. /\ row' = Append(row, field) /\ field' = <<>> /\ records' = records
        /\ scan' = IF Char(pos) = Comma THEN "field" ELSE "row"
        /\ pos' = IF Char(pos) = Comma THEN pos + 1 ELSE pos
    BY DEF EndField
  <1>9. outcome' = IF Len(row) + 1 > max_columns THEN "too many columns" ELSE outcome
    BY DEF EndField
  <1>10. /\ row' = SubSeq(t[r], 1, c) /\ Len(row) = c - 1 /\ c \in Nat \ {0}
         /\ row \in Seq(Seq(Alphabet)) /\ row' = Append(row, t[r][c])
    <2>1. c \in Nat /\ c > 0 /\ c <= Len(t[r])
      BY <1>4
    <2>2. /\ SubSeq(t[r], 1, c - 1) \in Seq(Seq(Alphabet))
          /\ Len(SubSeq(t[r], 1, c - 1)) = c - 1
      BY <1>4, <2>1
    <2>3. SubSeq(t[r], 1, c) = Append(SubSeq(t[r], 1, c - 1), t[r][c])
      <3> DEFINE s == t[r]
      <3>1. s \in Seq(Seq(Alphabet)) /\ c \in 1..Len(s)
        BY <1>4
      <3> HIDE DEF s
      <3>2. SubSeq(s, 1, c) = Append(SubSeq(s, 1, c - 1), s[c])
        BY <3>1
      <3> QED
        BY <3>2 DEF s
    <2>4. row \in Seq(Seq(Alphabet)) /\ Len(row) = c - 1
      BY <1>6, <2>2, Zenon
    <2>5. row' = Append(row, t[r][c])
      BY <1>7, <1>8, Zenon
    <2>6. row' = SubSeq(t[r], 1, c)
      BY <1>6, <2>3, <2>5, Zenon
    <2>7. c \in Nat \ {0}
      BY <2>1
    <2> QED
      BY <2>4, <2>5, <2>6, <2>7, Zenon
  <1>11. ASSUME Len(row) + 1 > max_columns PROVE ~Legal(Recorded(t))
    <2>1. Len(t[r]) > max_columns
      <3> DEFINE wide == Len(t[r])
                 sofar == Len(row)
      <3>1. /\ wide \in Nat /\ c \in 1..wide /\ sofar = c - 1
            /\ sofar + 1 > max_columns /\ max_columns \in Nat
        BY <1>4, <1>10, <1>11, CsvAssumption
      <3> HIDE DEF wide, sofar
      <3>2. wide > max_columns
        BY <3>1, SMT
      <3> QED
        BY <3>2 DEF wide
    <2> QED
      BY <2>1, WideRow
  <1>12. ASSUME ~(Len(row) + 1 > max_columns) PROVE Reads(t, always, end)'
    <2>1. LegalRow(row')
      <3>1. LegalRow(row) /\ LegalField(field)
        BY DEF Reads, Within
      <3>2. Len(row') <= max_columns
        BY <1>10, <1>12, CsvAssumption
      <3>3. ASSUME NEW k \in DOMAIN row' PROVE LegalField(row'[k])
        <4>1. k \in 1..Len(row) \/ k = Len(row) + 1
          BY <1>8, <1>10
        <4>2. CASE k = Len(row) + 1
          <5>1. row'[k] = field
            BY <1>7, <1>10, <4>2
          <5> QED
            BY <3>1, <5>1
        <4>3. CASE k \in 1..Len(row)
          <5>1. row \in Seq(Seq(Alphabet)) /\ t[r][c] \in Seq(Alphabet)
                /\ row' = Append(row, t[r][c])
            BY <1>4, <1>10
          <5>2. row'[k] = row[k] /\ k \in DOMAIN row
            BY <4>3, <5>1
          <5> QED
            BY <3>1, <5>2 DEF LegalRow
        <4> QED
          BY <4>1, <4>2, <4>3
      <3> QED
        BY <3>2, <3>3 DEF LegalRow
    <2>2. LegalField(field')
      BY <1>8 DEF LegalField
    <2>3. Within'
      <3>1. (Len(records) - 1 <= max_rows)' /\ (\A k \in DOMAIN records : LegalRow(records[k]))'
        BY <1>8 DEF Reads, Within
      <3> QED
        BY <2>1, <2>2, <3>1 DEF Within
    <2>4. AfterField(t, always, end, r, c)'
      <3>1. CASE c < Len(t[r])
        <4>1. Char(pos) = Comma
              /\ FieldAt(t, always, end, r, c + 1) = FieldEnd(t, always, end, r, c) + 1
          BY <1>5, <3>1, AfterEnd
        <4>2. scan' = "field" /\ pos' = FieldAt(t, always, end, r, c + 1) + 1
          BY <1>5, <1>8, <4>1
        <4> QED
          BY <1>8, <1>10, <3>1, <4>2 DEF AfterField
      <3>2. CASE c = Len(t[r])
        <4>1. Char(pos) \in {CR, LF, "eof"}
          BY <1>5, <3>2, AfterEnd
        <4>2. scan' = "row" /\ pos' = FieldEnd(t, always, end, r, c) + 1
          BY <1>5, <1>8, <4>1, MarksDiffer
        <4>3. row' = t[r]
          BY <1>4, <1>10, <3>2
        <4> QED
          BY <1>8, <3>2, <4>2, <4>3 DEF AfterField
      <3> QED
        BY <1>4, <3>1, <3>2
    <2>5. InLine(t, always, end, r)'
      BY <1>3, <1>8, <2>4 DEF InLine
    <2> QED
      BY <2>3, <2>5 DEF Reads
  <1> QED
    BY <1>9, <1>11, <1>12 DEF Answers

LEMMA RowEnded ==
    ASSUME NEW t, NEW always, NEW end, NEW last, WrittenAs(t, always, end, last),
           Reads(t, always, end), EndRow
    PROVE  outcome = "" => Answers(t, always, end)'
  <1> USE DEF WrittenAs
  <1>1. scan = "row"
    BY DEF EndRow
  <1>2. PICK r \in 1..Len(t) : InLine(t, always, end, r)
    BY <1>1 DEF Reads, AtEnd
  <1>3. PICK c \in 1..Len(t[r]) :
           /\ records = Upto(Kept(t), r - 1) /\ c = Len(t[r]) /\ row = t[r] /\ field = <<>>
           /\ pos = FieldEnd(t, always, end, r, c) + 1
    BY <1>1, <1>2 DEF InLine, InField, AfterField
  <1>4. /\ pos' = LET p == IF Char(pos) = CR THEN pos + 1 ELSE pos
                  IN  IF Char(p) = LF THEN p + 1 ELSE p
        /\ records' = IF row = <<<<>>>> THEN records ELSE Append(records, row)
        /\ row' = <<>> /\ scan' = "record" /\ field' = field
    BY DEF EndRow
  <1>5. outcome' = IF Len(records') - 1 > max_rows THEN "too many rows" ELSE outcome
    BY DEF EndRow
  <1>6. FieldEnd(t, always, end, r, c) \in Nat
    BY AfterEnd
  <1>7. pos' = (IF r < Len(t) THEN LineAt(t, always, end, r + 1) ELSE Len(input)) + 1
    <2> DEFINE e == FieldEnd(t, always, end, r, c)
    <2>1. LET p == IF Char(e + 1) = CR THEN e + 2 ELSE e + 1
              q == IF Char(p) = LF THEN p + 1 ELSE p
          IN  q = (IF r < Len(t) THEN LineAt(t, always, end, r + 1) ELSE Len(input)) + 1
      BY <1>3, AfterEnd
    <2>2. pos = e + 1 /\ pos + 1 = e + 2
      BY <1>3, <1>6
    <2> HIDE DEF e
    <2> QED
      BY <1>4, <2>1, <2>2, Zenon
  <1>8. records' = Upto(Kept(t), r)
    BY <1>3, <1>4, RecordedTyped
  <1>9. Len(t) \in Nat \ {0} /\ r \in Nat \ {0}
    BY RowOf
  <1>10. ASSUME Len(records') - 1 > max_rows PROVE ~Legal(Recorded(t))
    BY <1>8, <1>10, ManyRows
  <1>11. ASSUME ~(Len(records') - 1 > max_rows) PROVE Reads(t, always, end)'
    <2>1. Upto(Kept(t), r - 1) \in Seq(Rows(t)) /\ Upto(Kept(t), r) \in Seq(Rows(t))
      <3>1. r - 1 \in 0..Len(t) /\ r \in 0..Len(t)
        BY <1>9
      <3> QED
        BY <3>1, RecordedTyped
    <2>2. LegalRow(row) /\ \A k \in DOMAIN records : LegalRow(records[k])
      BY DEF Reads, Within
    <2>3. ASSUME NEW k \in DOMAIN records' PROVE LegalRow(records'[k])
      <3>1. CASE row = <<<<>>>>
        BY <1>4, <2>2, <3>1
      <3>2. CASE row # <<<<>>>>
        <4>1. records' = Append(records, row) /\ records \in Seq(Rows(t))
          BY <1>3, <1>4, <2>1, <3>2
        <4>2. /\ k \in 1..Len(records) \/ k = Len(records) + 1
              /\ records'[Len(records) + 1] = row
              /\ \A i \in 1..Len(records) : i \in DOMAIN records /\ records'[i] = records[i]
          BY <4>1
        <4> QED
          BY <2>2, <4>2
      <3> QED
        BY <3>1, <3>2
    <2>4. Len(records') - 1 <= max_rows
      <3>1. Len(records') \in Nat
        BY <1>8, <2>1
      <3> QED
        BY <1>11, <3>1, CsvAssumption
    <2>5. LegalField(field') /\ LegalRow(row')
      <3>1. <<>> = field' /\ <<>> = row' /\ DOMAIN <<>> = {} /\ Len(<<>>) = 0
        BY <1>3, <1>4
      <3> QED
        BY <3>1, CsvAssumption DEF LegalField, LegalRow
    <2>6. Within'
      BY <2>3, <2>4, <2>5 DEF Within
    <2>7. CASE r < Len(t)
      <3>1. r + 1 \in 1..Len(t) /\ (r + 1) - 1 = r
        BY <1>9, <2>7
      <3>2. InLine(t, always, end, r + 1)'
        BY <1>3, <1>4, <1>7, <1>8, <2>7, <3>1 DEF InLine
      <3> QED
        BY <2>6, <3>1, <3>2 DEF Reads
    <2>8. CASE ~(r < Len(t))
      <3>1. r = Len(t)
        BY <1>9, <2>8
      <3>2. records' = Recorded(t)
        BY <1>8, <3>1, RecordedTyped
      <3>3. input' = input
        BY DEF EndRow
      <3>4. AtEnd(t)'
        BY <1>3, <1>4, <1>7, <2>8, <3>2, <3>3 DEF AtEnd
      <3> QED
        BY <2>6, <3>4 DEF Reads
    <2> QED
      BY <2>7, <2>8
  <1> QED
    BY <1>5, <1>10, <1>11 DEF Answers

(* An empty line without an end is no record.                               *)
LEMMA BlankLast ==
    ASSUME NEW t, NEW always, NEW end, NEW last, WrittenAs(t, always, end, last),
           NEW r \in 1..Len(t)
    PROVE  LineAt(t, always, end, r) + 1 > Len(input) => Upto(Kept(t), r - 1) = Recorded(t)
  <1>0. SUFFICES ASSUME LineAt(t, always, end, r) + 1 > Len(input)
                 PROVE  Upto(Kept(t), r - 1) = Recorded(t)
    OBVIOUS
  <1> USE DEF WrittenAs
  <1> DEFINE f == t[r][1]
             w == WrittenField(f, always)
             e == FieldEnd(t, always, end, r, 1)
  <1>1. Len(t) \in Nat \ {0} /\ r \in Nat \ {0}
        /\ t[r] \in Seq(Seq(Alphabet)) /\ Len(t[r]) \in Nat \ {0}
    BY RowOf
  <1>2. 1 \in 1..Len(t[r])
    BY <1>1
  <1>3. f \in Seq(Alphabet)
    BY <1>2, RowOf
  <1>4. w \in Seq(Alphabet)
    BY <1>3, FieldWritten
  <1>5. /\ FieldAt(t, always, end, r, 1) = LineAt(t, always, end, r)
        /\ FieldAt(t, always, end, r, 1) \in Nat
        /\ Holds(input, FieldAt(t, always, end, r, 1), w)
    <2>1. FieldAt(t, always, end, r, 1) = LineAt(t, always, end, r)
      BY DEF Spelt, Spells
    <2> QED
      BY <1>2, <2>1, FieldSpelt
  <1>6. e = FieldAt(t, always, end, r, 1) + Len(w)
    BY Zenon DEF FieldEnd
  <1> HIDE DEF w, e
  <1>7. Len(w) = 0 /\ e = Len(input)
    BY <1>0, <1>4, <1>5, <1>6 DEF Holds
  <1>8. ~NeedsQuotes(f, always)
    <2> SUFFICES ASSUME NeedsQuotes(f, always) PROVE FALSE
      OBVIOUS
    <2>1. QuotedHeld(w, f)
      BY <1>3, FieldWritten DEF w
    <2>2. Spent(f, Len(f)) \in Nat
      <3>1. Len(f) \in 0..Len(f)
        BY <1>3
      <3> QED
        BY <1>3, <3>1, SpentInField
    <2>3. Len(w) = Spent(f, Len(f)) + 2
      BY <2>1 DEF QuotedHeld
    <2> QED
      BY <1>7, <2>2, <2>3
  <1>9. f = <<>>
    <2>1. w = f
      BY <1>3, <1>8, FieldWritten DEF w
    <2> QED
      BY <1>3, <1>7, <2>1
  <1>10. Len(t[r]) = 1
    <2> SUFFICES ASSUME Len(t[r]) # 1 PROVE FALSE
      OBVIOUS
    <2>1. 1 < Len(t[r])
      <3>1. Len(t[r]) \in Nat \ {0}
        BY <1>1
      <3> DEFINE n == Len(t[r])
      <3>2. n \in Nat \ {0} /\ n # 1
        BY <3>1
      <3> HIDE DEF n
      <3>3. 1 < n
        BY <3>2
      <3> QED
        BY <3>3 DEF n
    <2>2. Char(e + 1) = Comma
      BY <1>2, <2>1, AfterEnd DEF e
    <2>3. Char(e + 1) = "eof"
      BY <1>7 DEF Char
    <2> QED
      BY <2>2, <2>3, MarksDiffer
  <1>11. r = Len(t)
    <2> SUFFICES ASSUME r # Len(t) PROVE FALSE
      OBVIOUS
    <2>1. r < Len(t)
      BY <1>1
    <2>2. Holds(input, e, end)
      BY <1>2, <1>10, <2>1, FieldSpelt DEF e
    <2>3. Len(end) \in {1, 2}
      BY EndTyped
    <2>4. e + Len(end) <= Len(input)
      BY <2>2 DEF Holds
    <2> DEFINE m == Len(input)
               k == Len(end)
    <2>5. m \in Nat /\ k \in {1, 2} /\ m + k <= m
      BY <1>7, <2>3, <2>4
    <2> HIDE DEF m, k
    <2> QED
      BY <2>5
  <1>12. t[r] = <<<<>>>>
    BY <1>1, <1>9, <1>10
  <1>13. Upto(Kept(t), r) = Upto(Kept(t), r - 1)
    BY <1>12, RecordedTyped
  <1>14. Upto(Kept(t), r) = Recorded(t)
    BY <1>11, RecordedTyped
  <1> QED
    BY <1>13, <1>14

LEMMA InputEnded ==
    ASSUME NEW t, NEW always, NEW end, NEW last, WrittenAs(t, always, end, last),
           Reads(t, always, end), EndInput
    PROVE  Answers(t, always, end)'
  <1>1. scan = "record" /\ pos > Len(input) /\ records' = records
        /\ outcome' = IF records = <<>> THEN "no header row" ELSE "ok"
    BY DEF EndInput
  <1>2. records = Recorded(t)
    <2>1. CASE AtEnd(t)
      BY <2>1 DEF AtEnd
    <2>2. CASE ~AtEnd(t)
      <3>1. PICK r \in 1..Len(t) : InLine(t, always, end, r)
        BY <2>2 DEF Reads
      <3>2. records = Upto(Kept(t), r - 1) /\ pos = LineAt(t, always, end, r) + 1
        BY <1>1, <3>1 DEF InLine, InField, AfterField
      <3>3. LineAt(t, always, end, r) + 1 > Len(input)
        BY <1>1, <3>2
      <3> QED
        BY <3>2, <3>3, BlankLast
    <2> QED
      BY <2>1, <2>2
  <1>3. CASE records = <<>>
    <2>1. ~Legal(Recorded(t))
      BY <1>2, <1>3 DEF Legal
    <2> QED
      BY <1>1, <1>3, <2>1 DEF Answers
  <1>4. CASE records # <<>>
    <2>1. Legal(records)
      BY <1>4, PassedIsLegal DEF Reads
    <2> QED
      BY <1>1, <1>2, <1>4, <2>1, Zenon DEF Answers
  <1> QED
    BY <1>3, <1>4

CsvInv ==
    /\ stage # "csv" => CsvUnread
    /\ stage = "csv" /\ written # None =>
          \E t \in Tables, always \in BOOLEAN, last \in BOOLEAN, end \in LineEnds :
             /\ written = t /\ input = Write(t, always, end, last)
             /\ Answers(t, always, end)

LEMMA AnswersStay ==
    ASSUME NEW t, NEW always, NEW end
    PROVE  Answers(t, always, end) /\ UNCHANGED csv => Answers(t, always, end)'
  <1> SUFFICES ASSUME Answers(t, always, end), UNCHANGED csv PROVE Answers(t, always, end)'
    OBVIOUS
  <1>1. UNCHANGED <<input, pos, scan, field, row, records, outcome>>
    BY DEF csv
  <1>2. Within' <=> Within
    BY <1>1 DEF Within
  <1>3. AtEnd(t)' <=> AtEnd(t)
    BY <1>1 DEF AtEnd
  <1>4. \A r : InLine(t, always, end, r)' <=> InLine(t, always, end, r)
    BY <1>1 DEF InLine, InField, AfterField
  <1>5. Reads(t, always, end)' <=> Reads(t, always, end)
    BY <1>2, <1>3, <1>4, Zenon DEF Reads
  <1> QED
    BY <1>1, <1>5, Zenon DEF Answers

LEMMA CsvUnreadStays == CsvUnread /\ UNCHANGED csv => CsvUnread'
  BY DEF CsvUnread, csv

LEMMA CsvElsewhere ==
    ASSUME CsvInv, stage # "csv", stage' # "csv", UNCHANGED csv
    PROVE  CsvInv'
  BY CsvUnreadStays DEF CsvInv

LEMMA CsvBegins == CsvUnread /\ CsvGiven /\ stage' = "csv" => CsvInv'
  <1> SUFFICES ASSUME CsvUnread, CsvGiven, stage' = "csv", written' # None PROVE CsvInv'
    BY DEF CsvInv
  <1>1. written = None /\ pos = 1 /\ scan = "record" /\ field = <<>> /\ row = <<>>
        /\ records = <<>>
    BY DEF CsvUnread
  <1>2. pos' = 1 /\ scan' = "record" /\ field' = <<>> /\ row' = <<>> /\ records' = <<>>
    BY <1>1 DEF CsvGiven
  <1>3. outcome' = ""
    BY Zenon DEF CsvUnread, CsvGiven
  <1>4. PICK t \in Tables, always \in BOOLEAN, last \in BOOLEAN, end \in LineEnds :
           written' = t /\ input' = Write(t, always, end, last)
    BY <1>1 DEF CsvGiven, LineEnds
  <1>5. Writable(t)
    BY TablesWritable
  <1>6. 1 \in 1..Len(t) /\ 0 = 1 - 1
    BY <1>5 DEF Writable
  <1>7. Spells(Write(t, always, end, last), t, always, end, last)
    BY <1>5, WrittenSpells
  <1>8. LineAt(t, always, end, 1) = 0
    BY <1>7 DEF Spells
  <1>9. Upto(Kept(t), 0) = <<>>
    BY <1>5, RecordedTyped
  <1>10. InLine(t, always, end, 1)'
    BY <1>2, <1>6, <1>8, <1>9 DEF InLine
  <1>11. Within'
    <2>1. DOMAIN <<>> = {} /\ Len(<<>>) = 0
      OBVIOUS
    <2> QED
      BY <1>2, <2>1, CsvAssumption DEF Within, LegalField, LegalRow
  <1>12. Reads(t, always, end)'
    BY <1>6, <1>10, <1>11 DEF Reads
  <1>13. Answers(t, always, end)'
    BY <1>3, <1>12, Zenon DEF Answers
  <1> QED
    BY <1>4, <1>13, Zenon DEF CsvInv

LEMMA CsvGoesOn == CsvInv /\ ParseCsv => CsvInv'
  <1> SUFFICES ASSUME CsvInv, ParseCsv PROVE CsvInv'
    OBVIOUS
  <1>1. stage = "csv" /\ stage' = "csv" /\ CsvNext
    BY DEF ParseCsv, fetch
  <1>2. written' = written /\ input' = input
    BY <1>1 DEF CsvNext, BeginField, TakePlain, TakeQuoted, TakeQuote, CloseQuote, Unterminated,
                CsvError, EndField, EndRow, EndInput
  <1>3. CASE written = None
    BY <1>1, <1>2, <1>3 DEF CsvInv
  <1>4. CASE written # None
    <2>1. PICK s \in Tables, always \in BOOLEAN, last \in BOOLEAN, end \in LineEnds :
                /\ written = s /\ input = Write(s, always, end, last)
                /\ Answers(s, always, end)
      BY <1>1, <1>4, Zenon DEF CsvInv
    <2>2. outcome = ""
      BY <1>1, Zenon DEF CsvNext
    <2>3. WrittenAs(s, always, end, last) /\ Reads(s, always, end)
      BY <2>1, <2>2, WrittenIs, Zenon DEF Answers
    <2>4. Answers(s, always, end)'
      <3>1. CASE BeginField
        <4>1. Reads(s, always, end)' /\ outcome' = outcome
          BY <2>3, <3>1, FieldBegun
        <4> QED
          BY <2>2, <4>1, Zenon DEF Answers
      <3>2. CASE TakePlain
        BY <2>2, <2>3, <3>2, PlainTaken, Zenon
      <3>3. CASE TakeQuoted
        BY <2>2, <2>3, <3>3, QuotedTaken, Zenon
      <3>4. CASE TakeQuote
        BY <2>2, <2>3, <3>4, QuotedTaken, Zenon
      <3>5. CASE CloseQuote
        BY <2>2, <2>3, <3>5, QuoteClosed, Zenon
      <3>6. CASE Unterminated
        BY <2>3, <3>6, NeverUnterminated, Zenon
      <3>7. CASE EndField
        BY <2>2, <2>3, <3>7, FieldEnded, Zenon
      <3>8. CASE EndRow
        BY <2>2, <2>3, <3>8, RowEnded, Zenon
      <3>9. CASE EndInput
        BY <2>3, <3>9, InputEnded, Zenon
      <3> QED
        BY <1>1, <3>1, <3>2, <3>3, <3>4, <3>5, <3>6, <3>7, <3>8, <3>9 DEF CsvNext
    <2> QED
      BY <1>1, <1>2, <2>1, <2>4, Zenon DEF CsvInv
  <1> QED
    BY <1>3, <1>4

(* The invariant of the reading of a table: until it ends the parser stands at *)
(* a place of the text that the table's lines, fields and quotes determine, with *)
(* exactly the rows, fields and characters before that place, none beyond a   *)
(* limit; a reading that ended well kept every record, and one that was refused *)
(* was of a table beyond a limit (Csv::parse, csv.cpp).                       *)
THEOREM TableInductive == Spec => []CsvInv
  <1>1. Init => CsvInv
    <2> SUFFICES ASSUME Init PROVE CsvInv
      OBVIOUS
    <2>1. CsvUnread /\ stage \in {"open", "key", "get"}
      BY DEF Init
    <2>2. stage # "csv"
      BY <2>1
    <2> QED
      BY <2>1, <2>2 DEF CsvInv
  <1>2. CsvInv /\ [Next]_vars => CsvInv'
    <2> SUFFICES ASSUME CsvInv, [Next]_vars PROVE CsvInv'
      OBVIOUS
    <2>1. CASE UNCHANGED vars
      <3>1. UNCHANGED csv /\ stage' = stage /\ written' = written /\ input' = input
        BY <2>1 DEF vars, fetch, csv
      <3>2. stage # "csv" => CsvUnread'
        BY <3>1, CsvUnreadStays DEF CsvInv
      <3> QED
        BY <3>1, <3>2, AnswersStay, Zenon DEF CsvInv
    <2>2. CASE Transfer
      <3>1. stage # "csv" /\ stage' = stage /\ UNCHANGED csv
        BY <2>2 DEF Transfer, fetch
      <3> QED
        BY <3>1, CsvElsewhere
    <2>3. CASE AskFirms \/ http_fetch \/ FetchPart \/ OpenFile
      <3>1. stage # "csv" /\ stage' # "csv" /\ UNCHANGED csv
        BY <2>3, NotParsing DEF Formats
      <3> QED
        BY <3>1, CsvElsewhere
    <2>5. ASSUME NEW format \in Formats, BeginParse(format) PROVE CsvInv'
      <3>1. stage # "csv"
        BY <2>5 DEF BeginParse
      <3>2. CASE format = "csv" /\ CsvGiven /\ stage' = "csv"
        BY <3>1, <3>2, CsvBegins DEF CsvInv
      <3>3. CASE stage' # "csv" /\ UNCHANGED csv
        BY <3>1, <3>3, CsvElsewhere
      <3> QED
        BY <2>5, <3>2, <3>3 DEF BeginParse, Fails, Ends, Formats
    <2>6. CASE ParseJson \/ ParseXml
      <3>1. stage # "csv" /\ stage' = stage /\ UNCHANGED csv
        BY <2>6 DEF ParseJson, ParseXml, fetch
      <3> QED
        BY <3>1, CsvElsewhere
    <2>7. CASE ParseReturns
      <3>1. CsvUnread'
        BY <2>7 DEF ParseReturns, CsvLeft, CsvUnread
      <3>2. stage' # "csv"
        BY <2>7 DEF ParseReturns, Fails, Ends, LayoutsIn
      <3> QED
        BY <3>1, <3>2 DEF CsvInv
    <2>8. ASSUME NEW r \in Records[stage], stage \in Layouts, ReadRecord(r) PROVE CsvInv'
      <3>1. stage # "csv" /\ stage' # "csv" /\ UNCHANGED csv
        BY <2>8 DEF ReadRecord, Layouts
      <3> QED
        BY <3>1, CsvElsewhere
    <2>9. CASE EndRecords
      <3>1. stage # "csv" /\ stage' # "csv" /\ UNCHANGED csv
        BY <2>9 DEF EndRecords, Ends, Layouts
      <3> QED
        BY <3>1, CsvElsewhere
    <2> QED
      BY <2>1, <2>2, <2>3, <2>5, <2>6, <2>7, <2>8, <2>9, CsvGoesOn DEF Next
  <1> QED
    BY <1>1, <1>2, PTL DEF Spec

(* A table has at most as many records as lines.                             *)
LEMMA FewerRecords ==
    ASSUME NEW t, Writable(t)
    PROVE  Len(Recorded(t)) \in Nat /\ Len(Recorded(t)) <= Len(t)
  <1>1. Len(t) \in Nat /\ Recorded(t) \in Seq(Rows(t))
    BY RecordedTyped DEF Writable
  <1>2. \A r \in 0..Len(t) : Len(Upto(Kept(t), r)) \in Nat
    BY RecordedTyped
  <1>3. ASSUME NEW r \in 1..Len(t)
        PROVE  Len(Upto(Kept(t), r)) <= Len(Upto(Kept(t), r - 1)) + 1
    <2>1. r - 1 \in 0..Len(t) /\ r \in 0..Len(t)
      BY <1>1
    <2>2. Upto(Kept(t), r - 1) \in Seq(Rows(t))
      BY <2>1, RecordedTyped
    <2>3. CASE t[r] = <<<<>>>>
      <3>1. Upto(Kept(t), r) = Upto(Kept(t), r - 1)
        BY <2>3, RecordedTyped
      <3> QED
        BY <1>2, <2>1, <3>1
    <2>4. CASE t[r] # <<<<>>>>
      <3>1. Upto(Kept(t), r) = Append(Upto(Kept(t), r - 1), t[r])
        BY <2>4, RecordedTyped
      <3> QED
        BY <2>2, <3>1
    <2> QED
      BY <2>3, <2>4
  <1> DEFINE Bad == {n \in Nat : n <= Len(t) /\ ~(Len(Upto(Kept(t), n)) <= n)}
  <1>4. Bad = {}
    <2> SUFFICES ASSUME Bad # {} PROVE FALSE
      OBVIOUS
    <2>1. PICK n \in Bad : \A m \in Bad : n <= m
      BY LeastNatural
    <2>2. n # 0
      BY RecordedTyped
    <2>3. n - 1 \in Nat /\ n - 1 \notin Bad /\ n \in 1..Len(t) /\ n - 1 \in 0..Len(t)
      BY <1>1, <2>1, <2>2
    <2>4. Len(Upto(Kept(t), n - 1)) <= n - 1
      BY <2>3
    <2>5. Len(Upto(Kept(t), n)) \in Nat /\ Len(Upto(Kept(t), n - 1)) \in Nat
      BY <1>2, <2>3
    <2>6. Len(Upto(Kept(t), n)) <= Len(Upto(Kept(t), n - 1)) + 1
      BY <1>3, <2>3
    <2> QED
      BY <2>1, <2>3, <2>4, <2>5, <2>6
  <1>5. Len(Upto(Kept(t), Len(t))) <= Len(t)
    BY <1>1, <1>4
  <1>6. Upto(Kept(t), Len(t)) = Recorded(t)
    BY RecordedTyped
  <1> QED
    BY <1>1, <1>5, <1>6

(* What is within the limits, blank lines counted, the parser takes.           *)
LEMMA WithinIsLegal ==
    ASSUME NEW t, Writable(t), WithinLimits(t) PROVE Legal(Recorded(t))
  <1>1. Recorded(t) # <<>> /\ Len(Recorded(t)) - 1 <= max_rows
    <2>1. Len(t) \in Nat /\ Len(t) - 1 <= max_rows /\ Recorded(t) # <<>>
      BY DEF WithinLimits, Writable
    <2> QED
      BY <2>1, FewerRecords, CsvAssumption
  <1>2. ASSUME NEW q \in Range(Recorded(t))
        PROVE  /\ Len(q) <= max_columns
               /\ \A f \in Range(q) : \A n \in DOMAIN f : n > max_field_bytes => f[n] = Quotation
    <2>1. q \in Rows(t)
      BY RecordedTyped DEF Range
    <2>2. PICK r \in 1..Len(t) : q = t[r]
      BY <2>1 DEF Rows
    <2>3. q \in Range(t)
      BY <2>2, RowOf DEF Range
    <2>4. ASSUME NEW f \in Range(q), NEW n \in DOMAIN f PROVE ~(n > max_field_bytes)
      <3>1. PICK c \in 1..Len(q) : f = q[c]
        BY <2>2, RowOf DEF Range
      <3>2. f \in Seq(Alphabet)
        BY <2>2, <3>1, RowOf
      <3>3. Len(f) <= max_field_bytes
        BY <2>3 DEF WithinLimits
      <3> QED
        BY <3>2, <3>3, CsvAssumption
    <2> QED
      BY <2>3, <2>4 DEF WithinLimits
  <1> QED
    BY <1>1, <1>2 DEF Legal

LEMMA BeyondIsIllegal ==
    ASSUME NEW t, Writable(t), BeyondLimits(Recorded(t)) PROVE ~Legal(Recorded(t))
  <1> SUFFICES ASSUME Legal(Recorded(t)) PROVE FALSE
    OBVIOUS
  <1>1. ~(Len(Recorded(t)) - 1 > max_rows)
    BY FewerRecords, CsvAssumption DEF Legal
  <1>2. ASSUME NEW q \in Range(Recorded(t)) PROVE ~(Len(q) > max_columns)
    <2>1. q \in Rows(t)
      BY RecordedTyped DEF Range
    <2>2. Len(q) \in Nat
      BY <2>1, RowOf DEF Rows
    <2> QED
      BY <2>2, CsvAssumption DEF Legal
  <1> QED
    BY <1>1, <1>2 DEF Legal, BeyondLimits

(* Every table within the limits is read back as it was written, whatever its   *)
(* cells hold (commas, quotes, line ends), whether its fields are quoted always  *)
(* or only where they must be, with either line end and with or without a last    *)
(* one; a table that exceeds a limit, and not by quotation marks alone, is refused. *)
THEOREM TableRead == Spec => []CsvReadsItsTable
  <1>1. CsvInv => CsvReadsItsTable
    <2> SUFFICES ASSUME CsvInv, written # None, outcome # ""
                 PROVE  /\ outcome = "ok" => records \in {written, Recorded(written)}
                        /\ WithinLimits(written) => outcome = "ok"
                        /\ BeyondLimits(Recorded(written)) => outcome # "ok"
      BY DEF CsvReadsItsTable
    <2>1. stage = "csv"
      BY DEF CsvInv, CsvUnread
    <2>2. PICK t \in Tables, always \in BOOLEAN, end \in LineEnds :
             written = t /\ Answers(t, always, end)
      BY <2>1, Zenon DEF CsvInv
    <2>3. \/ outcome = "ok" /\ records = Recorded(t) /\ Legal(Recorded(t))
          \/ outcome # "ok" /\ ~Legal(Recorded(t))
      BY <2>2, Zenon DEF Answers
    <2>4. Writable(t)
      BY TablesWritable
    <2> QED
      BY <2>2, <2>3, <2>4, WithinIsLegal, BeyondIsIllegal, Zenon
  <1> QED
    BY <1>1, TableInductive, PTL

-----------------------------------------------------------------------------
(* A text, from what json_escape writes for it.                             *)

(* A fold from the left over a sequence of n: what it is of each set of        *)
(* positions, when a step is h of what came before and the position.          *)
Folds(f, base, h, n) ==
    f = [s \in SUBSET (1..n) |-> IF s = {} THEN base ELSE h[<<f[s \ {Max(s)}], Max(s)>>]]

LEMMA MaxOf ==
    ASSUME NEW n \in Nat, NEW s \in SUBSET (1..(n + 1))
    PROVE  /\ n + 1 \in s => Max(s) = n + 1 /\ s \ {n + 1} \in SUBSET (1..n)
           /\ n + 1 \notin s => s \in SUBSET (1..n)
           /\ s # {} => Max(s) \in s
  <1>1. ASSUME n + 1 \in s PROVE Max(s) = n + 1
    <2>1. \A y \in s : n + 1 >= y
      OBVIOUS
    <2>2. \A x \in s : (\A y \in s : x >= y) => x = n + 1
      BY <1>1, <2>1
    <2> QED
      BY <1>1, <2>1, <2>2 DEF Max
  <1>2. ASSUME s # {} PROVE Max(s) \in s
    <2>1. \A x \in s : x \in Int /\ n + 1 - x \in Nat
      OBVIOUS
    <2>2. \E x \in s : \A y \in s : x >= y
      <3> DEFINE T == {n + 1 - x : x \in s}
      <3>1. T \subseteq Nat /\ T # {}
        BY <1>2, <2>1
      <3>2. PICK m \in T : \A k \in T : m <= k
        BY <3>1, LeastNatural
      <3>3. PICK x \in s : m = n + 1 - x
        BY <3>2
      <3>4. ASSUME NEW y \in s PROVE x >= y
        <4>1. n + 1 - y \in T
          OBVIOUS
        <4>2. n + 1 - x <= n + 1 - y
          BY <3>2, <3>3, <4>1
        <4> QED
          BY <2>1, <4>2
      <3> QED
        BY <3>4
    <2> QED
      BY <2>2 DEF Max
  <1> QED
    BY <1>1, <1>2

LEMMA FoldExists ==
    ASSUME NEW X, NEW base \in X, NEW N \in Nat, NEW h \in [X \X (1..N) -> X]
    PROVE  \E f \in [SUBSET (1..N) -> X] : Folds(f, base, h, N)
  <1> DEFINE P(n) == \E f \in [SUBSET (1..n) -> X] : Folds(f, base, h, n)
             Bad == {n \in 0..N : ~P(n)}
  <1>1. P(0)
    <2> DEFINE f == [s \in SUBSET (1..0) |-> base]
    <2>1. \A s \in SUBSET (1..0) : s = {}
      OBVIOUS
    <2>2. Folds(f, base, h, 0)
      BY <2>1 DEF Folds
    <2>3. f \in [SUBSET (1..0) -> X]
      OBVIOUS
    <2> HIDE DEF f
    <2> QED
      BY <2>2, <2>3
  <1>2. ASSUME NEW n \in 0..(N - 1), P(n) PROVE P(n + 1)
    <2>1. PICK f \in [SUBSET (1..n) -> X] : Folds(f, base, h, n)
      BY <1>2
    <2> DEFINE D == SUBSET (1..(n + 1))
               g == [s \in D |-> IF n + 1 \in s THEN h[<<f[s \ {n + 1}], n + 1>>] ELSE f[s]]
    <2>2. n \in Nat /\ n + 1 \in 1..N
      OBVIOUS
    <2>3. ASSUME NEW s \in D
          PROVE  /\ g[s] = IF s = {} THEN base ELSE h[<<g[s \ {Max(s)}], Max(s)>>]
                 /\ g[s] \in X
      <3>1. CASE n + 1 \in s
        <4>1. /\ Max(s) = n + 1 /\ s \ {n + 1} \in SUBSET (1..n) /\ s \ {n + 1} \in D
              /\ n + 1 \notin s \ {n + 1}
          BY <2>2, <3>1, MaxOf
        <4>2. g[s] = h[<<f[s \ {n + 1}], n + 1>>]
          BY <3>1
        <4>3. g[s \ {n + 1}] = f[s \ {n + 1}]
          BY <4>1
        <4> HIDE DEF g
        <4>4. f[s \ {n + 1}] \in X
          BY <4>1
        <4> QED
          BY <2>2, <3>1, <4>1, <4>2, <4>3, <4>4
      <3>2. CASE n + 1 \notin s
        <4>1. s \in SUBSET (1..n) /\ (s # {} => Max(s) \in s)
          BY <2>2, <3>2, MaxOf
        <4>2. f[s] = IF s = {} THEN base ELSE h[<<f[s \ {Max(s)}], Max(s)>>]
          BY <2>1, <4>1 DEF Folds
        <4>3. g[s] = f[s] /\ g[s \ {Max(s)}] = f[s \ {Max(s)}]
          BY <3>2, <4>1
        <4> HIDE DEF g
        <4> QED
          BY <4>1, <4>2, <4>3
      <3> QED
        BY <3>1, <3>2
    <2>4. g = [s \in D |-> IF s = {} THEN base ELSE h[<<g[s \ {Max(s)}], Max(s)>>]]
      <3>1. g = [s \in D |-> g[s]]
        OBVIOUS
      <3> HIDE DEF g
      <3> QED
        BY <2>3, <3>1
    <2>5. g \in [D -> X]
      <3>1. g = [s \in D |-> g[s]]
        OBVIOUS
      <3> HIDE DEF g
      <3> QED
        BY <2>3, <3>1
    <2> HIDE DEF g
    <2> QED
      BY <2>4, <2>5 DEF Folds
  <1> HIDE DEF P
  <1>3. Bad = {}
    <2> SUFFICES ASSUME Bad # {} PROVE FALSE
      OBVIOUS
    <2>1. PICK n \in Bad : \A m \in Bad : n <= m
      <3>1. Bad \subseteq Nat
        OBVIOUS
      <3> QED
        BY <3>1, LeastNatural
    <2>2. n \in Nat /\ n # 0
      BY <1>1, <2>1
    <2>3. n - 1 \in 0..(N - 1) /\ n - 1 \notin Bad /\ n - 1 + 1 = n
      BY <2>1, <2>2
    <2> QED
      BY <1>2, <2>1, <2>2, <2>3
  <1> QED
    BY <1>3 DEF P

ByteSeqs == Seq(Byte)

LEMMA ByteTaken ==
    ASSUME NEW chunks \in Seq(ByteSeqs), NEW b \in Byte
    PROVE  TakeByte(chunks, b) \in Seq(ByteSeqs)
  <1>1. CASE b \in 128..191 /\ chunks # <<>>
    <2>1. Len(chunks) \in Nat \ {0} /\ chunks[Len(chunks)] \in ByteSeqs
      BY <1>1
    <2>2. Front(chunks) \in Seq(ByteSeqs)
      BY <2>1 DEF Front
    <2>3. Append(Last(chunks), b) \in ByteSeqs
      BY <2>1 DEF Last, ByteSeqs
    <2> QED
      BY <1>1, <2>2, <2>3 DEF TakeByte
  <1>2. CASE ~(b \in 128..191 /\ chunks # <<>>)
    <2>1. <<b>> \in ByteSeqs
      BY DEF ByteSeqs
    <2> QED
      BY <1>2, <2>1 DEF TakeByte
  <1> QED
    BY <1>1, <1>2

(* What the fold of Chunks has after each byte.                             *)
ChunkFold(f, bytes) ==
    f = [s \in SUBSET DOMAIN bytes |->
           IF s = {} THEN <<>> ELSE TakeByte(f[s \ {Max(s)}], bytes[Max(s)])]

LEMMA ChunkFoldIs ==
    ASSUME NEW bytes \in Seq(Byte)
    PROVE  \E f : ChunkFold(f, bytes) /\ Chunks(bytes) = f[1..Len(bytes)]
  <1> DEFINE N == Len(bytes)
             X == Seq(ByteSeqs)
             h == [p \in X \X (1..N) |-> TakeByte(p[1], bytes[p[2]])]
             F == CHOOSE f : ChunkFold(f, bytes)
  <1>1. N \in Nat /\ DOMAIN bytes = 1..N /\ \A k \in 1..N : bytes[k] \in Byte
    OBVIOUS
  <1>2. h \in [X \X (1..N) -> X]
    BY <1>1, ByteTaken
  <1>3. <<>> \in X
    OBVIOUS
  <1>4. \A c \in X, k \in 1..N : h[<<c, k>>] = TakeByte(c, bytes[k])
    OBVIOUS
  <1> HIDE DEF X, h, N
  <1>5. PICK f \in [SUBSET (1..N) -> X] : Folds(f, <<>>, h, N)
    BY <1>1, <1>2, <1>3, FoldExists
  <1>6. ASSUME NEW s \in SUBSET (1..N), s # {} PROVE Max(s) \in s
    <2>1. s \in SUBSET (1..(N + 1))
      BY <1>1
    <2> QED
      BY <1>1, <1>6, <2>1, MaxOf
  <1>7. ChunkFold(f, bytes)
    <2>1. ASSUME NEW s \in SUBSET (1..N)
          PROVE  f[s] = IF s = {} THEN <<>> ELSE TakeByte(f[s \ {Max(s)}], bytes[Max(s)])
      <3>1. f[s] = IF s = {} THEN <<>> ELSE h[<<f[s \ {Max(s)}], Max(s)>>]
        BY <1>5 DEF Folds
      <3>2. s # {} => Max(s) \in 1..N /\ f[s \ {Max(s)}] \in X
        BY <1>5, <1>6
      <3> QED
        BY <1>4, <3>1, <3>2
    <2>2. f = [s \in SUBSET (1..N) |-> f[s]]
      BY <1>5
    <2>3. f = [s \in SUBSET (1..N) |->
                 IF s = {} THEN <<>> ELSE TakeByte(f[s \ {Max(s)}], bytes[Max(s)])]
      BY <2>1, <2>2
    <2> QED
      BY <1>1, <2>3 DEF ChunkFold
  <1>8. ChunkFold(F, bytes)
    BY <1>7, Zenon
  <1>9. Chunks(bytes) = F[DOMAIN bytes]
    BY Zenon DEF Chunks, FoldLeft, MapThenFoldSet, ChunkFold
  <1> HIDE DEF F
  <1> QED
    BY <1>1, <1>8, <1>9 DEF N

(* g[k] is what the loop over s has after k turns.                           *)
ChunkTurns(g, bytes) ==
    /\ g[0] = <<>>
    /\ \A k \in 0..(Len(bytes) - 1) : g[k + 1] = TakeByte(g[k], bytes[k + 1])

LEMMA FirstPositions ==
    ASSUME NEW n \in Nat, NEW k \in 0..(n - 1)
    PROVE  /\ 1..(k + 1) \in SUBSET (1..n) /\ 1..(k + 1) # {}
           /\ Max(1..(k + 1)) = k + 1 /\ (1..(k + 1)) \ {k + 1} = 1..k
  <1>1. k \in Nat /\ 1..(k + 1) \in SUBSET (1..n) /\ k + 1 \in 1..(k + 1)
        /\ 1..(k + 1) \in SUBSET (1..(k + 1))
    OBVIOUS
  <1>2. Max(1..(k + 1)) = k + 1
    BY <1>1, MaxOf
  <1>3. (1..(k + 1)) \ {k + 1} = 1..k
    OBVIOUS
  <1> QED
    BY <1>1, <1>2, <1>3

LEMMA ChunksTurn ==
    ASSUME NEW bytes \in ByteSeqs
    PROVE  \E g : ChunkTurns(g, bytes) /\ Chunks(bytes) = g[Len(bytes)]
  <1>1. PICK f : ChunkFold(f, bytes) /\ Chunks(bytes) = f[1..Len(bytes)]
    BY ChunkFoldIs DEF ByteSeqs
  <1> DEFINE N == Len(bytes)
             g == [k \in 0..N |-> f[1..k]]
  <1>2. N \in Nat /\ DOMAIN bytes = 1..N
    BY DEF ByteSeqs
  <1>3. \A s \in SUBSET (1..N) :
           f[s] = IF s = {} THEN <<>> ELSE TakeByte(f[s \ {Max(s)}], bytes[Max(s)])
    BY <1>1, <1>2 DEF ChunkFold
  <1>4. \A k \in 0..N : g[k] = f[1..k]
    OBVIOUS
  <1> HIDE DEF g, N
  <1>5. g[0] = <<>>
    <2>1. 1..0 = {} /\ 1..0 \in SUBSET (1..N) /\ 0 \in 0..N
      BY <1>2
    <2> QED
      BY <1>3, <1>4, <2>1
  <1>6. ASSUME NEW k \in 0..(N - 1) PROVE g[k + 1] = TakeByte(g[k], bytes[k + 1])
    <2>1. k \in 0..N /\ k + 1 \in 0..N
      BY <1>2
    <2>2. /\ 1..(k + 1) \in SUBSET (1..N) /\ 1..(k + 1) # {}
          /\ Max(1..(k + 1)) = k + 1 /\ (1..(k + 1)) \ {k + 1} = 1..k
      BY <1>2, FirstPositions
    <2>3. f[1..(k + 1)] = TakeByte(f[1..k], bytes[k + 1])
      BY <1>3, <2>2
    <2> QED
      BY <1>4, <2>1, <2>3
  <1>7. g[N] = f[1..N]
    BY <1>2, <1>4
  <1> QED
    BY <1>1, <1>5, <1>6, <1>7 DEF N, ChunkTurns

(* The encodings of one code point, and the texts made of them.               *)
Encoded == {<<b>> : b \in 0..127} \cup {s \in ByteSeqs : s # <<>> /\ AcceptsSequence(s)}

Continues(c) == \A i \in 2..Len(c) : c[i] \in 128..191

LEMMA EncodedIs ==
    ASSUME NEW c \in Encoded
    PROVE  /\ c \in ByteSeqs /\ Len(c) \in 1..4 /\ c[1] \in Byte /\ c[1] \notin 128..191
           /\ Continues(c)
           /\ Len(c) = 1 => c = <<c[1]>> /\ c[1] \in 0..127
           /\ Len(c) > 1 => c[1] >= 192 /\ AcceptsSequence(c)
  <1>1. ASSUME NEW b \in 0..127, c = <<b>>
        PROVE  c \in ByteSeqs /\ Len(c) = 1 /\ c[1] = b
    BY <1>1 DEF ByteSeqs, Byte
  <1>2. ASSUME c \in ByteSeqs, c # <<>>, AcceptsSequence(c)
        PROVE  /\ Len(c) \in 2..4 /\ c[1] \in 192..247 /\ c[1] \in Byte
               /\ Continues(c)
    <2>1. Len(c) \in Nat \ {0} /\ c[1] \in Byte
      BY <1>2 DEF ByteSeqs
    <2>2. Len(c) = Announced(c[1]) /\ Continues(c)
      BY <1>2 DEF AcceptsSequence, Continues
    <2>3. c[1] \in 192..247 /\ Announced(c[1]) \in 2..4
      BY <2>1, <2>2, SMT DEF Announced
    <2> QED
      BY <2>1, <2>2, <2>3
  <1>3. CASE \E b \in 0..127 : c = <<b>>
    <2>1. PICK b \in 0..127 : c = <<b>>
      BY <1>3
    <2>2. c \in ByteSeqs /\ Len(c) = 1 /\ c[1] = b
      BY <1>1, <2>1
    <2> QED
      BY <2>1, <2>2 DEF Byte, Continues
  <1>4. CASE c \in ByteSeqs /\ c # <<>> /\ AcceptsSequence(c)
    <2>1. /\ Len(c) \in 2..4 /\ c[1] \in 192..247 /\ c[1] \in Byte
          /\ Continues(c)
      BY <1>2, <1>4
    <2>2. Len(c) # 1 /\ Len(c) > 1 /\ Len(c) \in 1..4 /\ c[1] >= 192 /\ c[1] \notin 128..191
      <3> DEFINE n == Len(c)
                 b == c[1]
      <3>1. n \in 2..4 /\ b \in 192..247
        BY <2>1
      <3> HIDE DEF n, b
      <3>2. n # 1 /\ n > 1 /\ n \in 1..4 /\ b >= 192 /\ b \notin 128..191
        BY <3>1
      <3> QED
        BY <3>2 DEF n, b
    <2> HIDE DEF Encoded
    <2> QED
      BY <1>4, <2>1, <2>2, Zenon
  <1> QED
    BY <1>3, <1>4 DEF Encoded

LEMMA FirstParts ==
    ASSUME NEW S, NEW s \in Seq(S)
    PROVE  /\ SubSeq(s, 1, Len(s)) = s
           /\ Len(s) > 0 => SubSeq(s, 1, 1) = <<s[1]>>
           /\ \A i \in 0..(Len(s) - 1) :
                 /\ SubSeq(s, 1, i) \in Seq(S)
                 /\ SubSeq(s, 1, i + 1) = Append(SubSeq(s, 1, i), s[i + 1])
  <1>1. ASSUME NEW i \in 0..(Len(s) - 1)
        PROVE  /\ SubSeq(s, 1, i) \in Seq(S)
               /\ SubSeq(s, 1, i + 1) = Append(SubSeq(s, 1, i), s[i + 1])
    OBVIOUS
  <1>2. ASSUME Len(s) > 0 PROVE SubSeq(s, 1, 1) = <<s[1]>>
    <2>1. 0 \in 0..(Len(s) - 1) /\ 0 + 1 = 1 /\ SubSeq(s, 1, 0) = <<>>
      BY <1>2
    <2>2. SubSeq(s, 1, 0 + 1) = Append(SubSeq(s, 1, 0), s[0 + 1])
      BY <1>1, <2>1
    <2>3. Append(<<>>, s[1]) = <<s[1]>>
      OBVIOUS
    <2> QED
      BY <2>1, <2>2, <2>3
  <1>3. SubSeq(s, 1, Len(s)) = s
    OBVIOUS
  <1> QED
    BY <1>1, <1>2, <1>3

LEMMA Continued ==
    ASSUME NEW front \in Seq(ByteSeqs), NEW w \in ByteSeqs, NEW b \in 128..191
    PROVE  TakeByte(Append(front, w), b) = Append(front, Append(w, b))
  <1> DEFINE s == Append(front, w)
  <1>1. s \in Seq(ByteSeqs) /\ Len(s) = Len(front) + 1 /\ s # <<>> /\ Len(front) \in Nat
    OBVIOUS
  <1>2. Last(s) = w
    BY <1>1 DEF Last
  <1>3. Front(s) = front
    BY <1>1 DEF Front
  <1> HIDE DEF s
  <1>4. TakeByte(s, b) = Append(front, Append(w, b))
    BY <1>1, <1>2, <1>3 DEF TakeByte
  <1> QED
    BY <1>4 DEF s

LEMMA CharacterTaken ==
    ASSUME NEW bytes \in ByteSeqs, NEW g, ChunkTurns(g, bytes), NEW o \in Nat, NEW c \in Encoded,
           Holds(bytes, o, c), NEW front \in Seq(ByteSeqs), g[o] = front
    PROVE  g[o + Len(c)] = Append(front, c)
  <1> DEFINE P(i) == g[o + i] = Append(front, SubSeq(c, 1, i))
             Bad == {i \in 1..Len(c) : ~P(i)}
  <1>1. /\ c \in Seq(Byte) /\ Len(c) \in Nat \ {0} /\ c[1] \notin 128..191
        /\ \A i \in 2..Len(c) : c[i] \in 128..191
    <2>1. c \in ByteSeqs /\ Len(c) \in 1..4 /\ c[1] \notin 128..191
      BY EncodedIs
    <2>2. \A i \in 2..Len(c) : c[i] \in 128..191
      <3>1. Continues(c)
        BY EncodedIs
      <3> QED
        BY <3>1, Zenon DEF Continues
    <2>3. c \in Seq(Byte)
      BY <2>1 DEF ByteSeqs
    <2>4. Len(c) \in Nat \ {0}
      <3>1. \A n \in 1..4 : n \in Nat \ {0}
        OBVIOUS
      <3> QED
        BY <2>1, <3>1, Zenon
    <2> QED
      BY <2>1, <2>2, <2>3, <2>4, Zenon
  <1>2. \A i \in 1..Len(c) : bytes[o + i] = c[i] /\ o + i <= Len(bytes)
    BY <1>1 DEF Holds
  <1>3. Len(bytes) \in Nat
    BY DEF ByteSeqs
  <1>4. \A i \in 0..(Len(c) - 1) : g[o + i + 1] = TakeByte(g[o + i], c[i + 1])
    <2> TAKE i \in 0..(Len(c) - 1)
    <2>1. i + 1 \in 1..Len(c) /\ o + i + 1 = o + (i + 1)
      BY <1>1
    <2>2. o + i \in 0..(Len(bytes) - 1) /\ bytes[o + i + 1] = c[i + 1]
      BY <1>2, <1>3, <2>1
    <2> QED
      BY <2>2 DEF ChunkTurns
  <1>5. P(1)
    <2>1. g[o + 1] = TakeByte(front, c[1])
      <3>1. 0 \in 0..(Len(c) - 1) /\ o + 0 = o /\ o + 0 + 1 = o + 1 /\ 0 + 1 = 1
        BY <1>1
      <3>2. g[o + 0 + 1] = TakeByte(g[o + 0], c[0 + 1])
        BY <1>4, <3>1
      <3> QED
        BY <3>1, <3>2
    <2>2. SubSeq(c, 1, 1) = <<c[1]>>
      BY <1>1, FirstParts
    <2> QED
      BY <1>1, <2>1, <2>2 DEF TakeByte
  <1>6. ASSUME NEW i \in 1..(Len(c) - 1), P(i) PROVE P(i + 1)
    <2>1. SubSeq(c, 1, i) \in ByteSeqs /\ SubSeq(c, 1, i + 1) = Append(SubSeq(c, 1, i), c[i + 1])
      <3>1. i \in 0..(Len(c) - 1)
        BY <1>1
      <3> QED
        BY <1>1, <3>1, FirstParts DEF ByteSeqs
    <2>2. c[i + 1] \in 128..191
      BY <1>1
    <2>3. g[o + i + 1] = TakeByte(g[o + i], c[i + 1]) /\ o + i + 1 = o + (i + 1)
      BY <1>1, <1>4
    <2>4. TakeByte(Append(front, SubSeq(c, 1, i)), c[i + 1])
             = Append(front, Append(SubSeq(c, 1, i), c[i + 1]))
      BY <2>1, <2>2, Continued
    <2> QED
      BY <1>6, <2>1, <2>3, <2>4
  <1> HIDE DEF P
  <1>7. Bad = {}
    <2> SUFFICES ASSUME Bad # {} PROVE FALSE
      OBVIOUS
    <2>1. PICK n \in Bad : \A m \in Bad : n <= m
      <3>1. Bad \subseteq Nat
        OBVIOUS
      <3> QED
        BY <3>1, LeastNatural
    <2>2. n \in 1..Len(c) /\ n # 1
      BY <1>5, <2>1
    <2>3. n - 1 \in 1..(Len(c) - 1) /\ n - 1 \notin Bad /\ n - 1 + 1 = n
      BY <1>1, <2>1, <2>2
    <2> QED
      BY <1>6, <2>1, <2>2, <2>3
  <1>8. P(Len(c))
    <2>1. Len(c) \in 1..Len(c)
      BY <1>1
    <2> QED
      BY <1>7, <2>1
  <1>9. SubSeq(c, 1, Len(c)) = c
    BY <1>1, FirstParts
  <1> QED
    BY <1>8, <1>9 DEF P

(* A text is cut into its characters.                                       *)
LEMMA ChunksOfText ==
    ASSUME NEW cs \in Seq(Encoded)
    PROVE  FlattenSeq(cs) \in ByteSeqs /\ cs \in Seq(ByteSeqs) /\ Chunks(FlattenSeq(cs)) = cs
  <1> DEFINE bytes == FlattenSeq(cs)
  <1>1. cs \in Seq(ByteSeqs)
    <2>1. Encoded \subseteq ByteSeqs
      BY EncodedIs
    <2> QED
      BY <2>1, WiderSeq
  <1>2. bytes \in ByteSeqs
    BY <1>1, FlattenTyped DEF ByteSeqs
  <1>3. PICK g : ChunkTurns(g, bytes) /\ Chunks(bytes) = g[Len(bytes)]
    BY <1>2, ChunksTurn
  <1> DEFINE P(j) == g[Offset(cs, j)] = SubSeq(cs, 1, j)
             Bad == {j \in 0..Len(cs) : ~P(j)}
  <1>4. /\ Offset(cs, 0) = 0
        /\ \A n \in 0..Len(cs) : Offset(cs, n) \in Nat
        /\ \A n \in 0..(Len(cs) - 1) : Offset(cs, n + 1) = Offset(cs, n) + Len(cs[n + 1])
        /\ Offset(cs, Len(cs)) = Len(bytes)
    BY <1>1, Offsets DEF ByteSeqs
  <1>5. \A n \in 0..(Len(cs) - 1) : Holds(bytes, Offset(cs, n), cs[n + 1])
    BY <1>1, PartsHeld DEF ByteSeqs
  <1> HIDE DEF bytes
  <1>6. P(0)
    <2>1. SubSeq(cs, 1, 0) = <<>>
      OBVIOUS
    <2> QED
      BY <1>3, <1>4, <2>1 DEF ChunkTurns
  <1>7. ASSUME NEW j \in 0..(Len(cs) - 1), P(j) PROVE P(j + 1)
    <2>1. cs[j + 1] \in Encoded /\ j \in 0..Len(cs)
      OBVIOUS
    <2>2. SubSeq(cs, 1, j) \in Seq(ByteSeqs)
          /\ SubSeq(cs, 1, j + 1) = Append(SubSeq(cs, 1, j), cs[j + 1])
      BY <1>1
    <2>3. Offset(cs, j) \in Nat /\ Holds(bytes, Offset(cs, j), cs[j + 1])
      BY <1>4, <1>5, <2>1
    <2>4. g[Offset(cs, j)] = SubSeq(cs, 1, j)
      BY <1>7
    <2> DEFINE o == Offset(cs, j)
               c == cs[j + 1]
               front == SubSeq(cs, 1, j)
    <2>5. g[o + Len(c)] = Append(front, c)
      <3>1. c \in Encoded /\ o \in Nat /\ Holds(bytes, o, c) /\ front \in Seq(ByteSeqs)
            /\ g[o] = front
        BY <2>1, <2>2, <2>3, <2>4
      <3> HIDE DEF o, c, front
      <3> QED
        BY <1>2, <1>3, <3>1, CharacterTaken
    <2> QED
      BY <1>4, <2>1, <2>2, <2>5
  <1> HIDE DEF P
  <1>8. Bad = {}
    <2> SUFFICES ASSUME Bad # {} PROVE FALSE
      OBVIOUS
    <2>1. PICK n \in Bad : \A m \in Bad : n <= m
      <3>1. Bad \subseteq Nat
        OBVIOUS
      <3> QED
        BY <3>1, LeastNatural
    <2>2. n \in 0..Len(cs) /\ n # 0
      BY <1>6, <2>1
    <2>3. n - 1 \in 0..(Len(cs) - 1) /\ n - 1 \notin Bad /\ n - 1 + 1 = n
      BY <2>1, <2>2
    <2> QED
      BY <1>7, <2>1, <2>2, <2>3
  <1>9. g[Len(bytes)] = SubSeq(cs, 1, Len(cs))
    BY <1>4, <1>8 DEF P
  <1>10. SubSeq(cs, 1, Len(cs)) = cs
    OBVIOUS
  <1> QED
    BY <1>1, <1>2, <1>3, <1>9, <1>10 DEF bytes

(* What parse_string has gathered after some items: whole characters, and once  *)
(* it is closed no half of a pair and no more than the limit.                 *)
Gathered == {FlattenSeq(cs) : cs \in Seq(Encoded)}
Halves == {0} \cup (55296..56319)
Scan == [out : Gathered, high : Halves, state : {"open", "closed", "error"}]
Scans == {s \in Scan : s.state = "closed" => s.high = 0 /\ Len(s.out) <= max_string_bytes}

Start == [out |-> <<>>, high |-> 0, state |-> "open"]

LEMMA ScalarEncoded ==
    ASSUME NEW n \in Nat, IsScalar(n)
    PROVE  append_codepoint_utf8(n) \in Encoded
  <1>1. CASE n < 128
    <2>1. append_codepoint_utf8(n) = <<n>> /\ n \in 0..127
      BY <1>1 DEF append_codepoint_utf8
    <2> QED
      BY <2>1 DEF Encoded
  <1>2. CASE n >= 128
    <2>1. AcceptsSequence(append_codepoint_utf8(n))
      BY <1>2, WrittenIsAccepted
    <2>2. append_codepoint_utf8(n) \in ByteSeqs /\ append_codepoint_utf8(n) # <<>>
      <3>1. n <= 1114111
        BY DEF IsScalar
      <3>2. CASE n < 2048
        <4>1. append_codepoint_utf8(n) = <<192 + n \div 64, 128 + (n % 64)>>
          BY <1>2, <3>2 DEF append_codepoint_utf8
        <4>2. 192 + n \div 64 \in Byte /\ 128 + (n % 64) \in Byte
          BY <1>2, <3>2 DEF Byte
        <4> QED
          BY <4>1, <4>2 DEF ByteSeqs
      <3>3. CASE n >= 2048 /\ n < 65536
        <4>1. append_codepoint_utf8(n)
                = <<224 + n \div 4096, 128 + ((n \div 64) % 64), 128 + (n % 64)>>
          BY <1>2, <3>3 DEF append_codepoint_utf8
        <4>2. 224 + n \div 4096 \in Byte /\ 128 + ((n \div 64) % 64) \in Byte
              /\ 128 + (n % 64) \in Byte
          BY <1>2, <3>3 DEF Byte
        <4> QED
          BY <4>1, <4>2 DEF ByteSeqs
      <3>4. CASE n >= 65536
        <4>1. append_codepoint_utf8(n)
                = <<240 + n \div 262144, 128 + ((n \div 4096) % 64),
                    128 + ((n \div 64) % 64), 128 + (n % 64)>>
          BY <1>2, <3>4 DEF append_codepoint_utf8
        <4>2. 240 + n \div 262144 \in Byte /\ 128 + ((n \div 4096) % 64) \in Byte
              /\ 128 + ((n \div 64) % 64) \in Byte /\ 128 + (n % 64) \in Byte
          BY <3>1, <3>4 DEF Byte
        <4> QED
          BY <4>1, <4>2 DEF ByteSeqs
      <3> QED
        BY <3>2, <3>3, <3>4
    <2> QED
      BY <2>1, <2>2 DEF Encoded
  <1> QED
    BY <1>1, <1>2

LEMMA FlattenOneMore ==
    ASSUME NEW S, NEW s \in Seq(Seq(S)), NEW c \in Seq(S)
    PROVE  FlattenSeq(Append(s, c)) = FlattenSeq(s) \o c
  <1> DEFINE t == Append(s, c)
  <1>1. t \in Seq(Seq(S)) /\ Len(t) = Len(s) + 1 /\ t[Len(s) + 1] = c /\ Len(s) \in Nat
    OBVIOUS
  <1>2. Same(s, t, Len(s))
    BY DEF Same
  <1> HIDE DEF t
  <1>3. FlattenSeq(t) = FlattenSeq(s) \o t[Len(s) + 1]
    BY <1>1, <1>2, FlattenLonger
  <1> QED
    BY <1>1, <1>3 DEF t

LEMMA PutsCharacter ==
    ASSUME NEW sofar \in Scans, sofar.state = "open", NEW c \in Encoded
    PROVE  Put(sofar, c) \in Scans /\ [Put(sofar, c) EXCEPT !.high = 0] \in Scans
  <1>1. PICK cs \in Seq(Encoded) : sofar.out = FlattenSeq(cs)
    BY DEF Scans, Scan, Gathered
  <1>2. cs \in Seq(ByteSeqs) /\ c \in ByteSeqs
    BY EncodedIs, ChunksOfText
  <1>3. FlattenSeq(Append(cs, c)) = sofar.out \o c
    BY <1>1, <1>2, FlattenOneMore DEF ByteSeqs
  <1>4. Append(cs, c) \in Seq(Encoded)
    OBVIOUS
  <1>5. sofar.out \o c \in Gathered
    BY <1>3, <1>4 DEF Gathered
  <1>6. sofar \in Scan
    BY DEF Scans
  <1>7. /\ Put(sofar, c) = [sofar EXCEPT !.out = sofar.out \o c]
        /\ [Put(sofar, c) EXCEPT !.high = 0]
              = [[sofar EXCEPT !.out = sofar.out \o c] EXCEPT !.high = 0]
    BY DEF Put
  <1>8. 0 \in Halves
    BY DEF Halves
  <1> HIDE DEF Put
  <1>9. \A w \in Gathered :
           /\ [sofar EXCEPT !.out = w] \in Scan /\ [sofar EXCEPT !.out = w].state = "open"
           /\ [[sofar EXCEPT !.out = w] EXCEPT !.high = 0] \in Scan
           /\ [[sofar EXCEPT !.out = w] EXCEPT !.high = 0].state = "open"
    BY <1>6, <1>8 DEF Scan
  <1> QED
    BY <1>5, <1>7, <1>9 DEF Scans

LEMMA FailsScan == ASSUME NEW sofar \in Scans PROVE Fail(sofar) \in Scans
  <1>1. sofar \in Scan
    BY DEF Scans
  <1>2. Fail(sofar) \in Scan /\ Fail(sofar).state = "error"
    BY <1>1 DEF Fail, Scan
  <1> QED
    BY <1>2 DEF Scans

LEMMA EscapedByte ==
    /\ DOMAIN Escaped = {34, 92, 47, 98, 102, 110, 114, 116}
    /\ \A b \in DOMAIN Escaped : Escaped[b] \in 0..127
    /\ DOMAIN ShortEscape = {34, 92, 10, 13, 9}
    /\ \A b \in DOMAIN ShortEscape :
          ShortEscape[b] \in DOMAIN Escaped /\ Escaped[ShortEscape[b]] = b
  BY DEF Escaped, ShortEscape

LEMMA UnitsAre ==
    ASSUME NEW n \in Int
    PROVE  /\ n \in CodeUnit <=> -1 <= n /\ n <= 65535
           /\ n \in Surrogate <=> 55296 <= n /\ n <= 57343
           /\ High(n) <=> 55296 <= n /\ n <= 56319
           /\ Low(n) <=> 56320 <= n /\ n <= 57343
  <1> DEFINE a == 55296
             b == 56319
             c == 56320
             d == 57343
             e == 65535
  <1>1. a \in Int /\ b \in Int /\ c \in Int /\ d \in Int /\ e \in Int
    OBVIOUS
  <1>2. /\ a = 55296 /\ b = 56319 /\ c = 56320 /\ d = 57343 /\ e = 65535
    OBVIOUS
  <1>3. /\ CodeUnit = -1..e
        /\ Surrogate = a..d
        /\ High(n) <=> n \in a..b
        /\ Low(n) <=> n \in c..d
    BY DEF CodeUnit, Surrogate, High, Low
  <1> HIDE DEF a, b, c, d, e
  <1>4. /\ n \in CodeUnit <=> -1 <= n /\ n <= e
        /\ n \in Surrogate <=> a <= n /\ n <= d
        /\ High(n) <=> a <= n /\ n <= b
        /\ Low(n) <=> c <= n /\ n <= d
    BY <1>1, <1>3
  <1> QED
    BY <1>2, <1>4

LEMMA UnitIsInt == CodeUnit \subseteq Int
  <1> DEFINE e == 65535
  <1>1. e \in Int
    OBVIOUS
  <1>2. CodeUnit = -1..e
    BY DEF CodeUnit
  <1> HIDE DEF e
  <1> QED
    BY <1>1, <1>2

LEMMA UnicodeScanned ==
    ASSUME NEW sofar \in Scans, sofar.state = "open", NEW n \in CodeUnit
    PROVE  append_unicode_escape(sofar, n) \in Scans
  <1>1. CASE sofar.high # 0
    <2>1. CASE Low(n)
      <3> DEFINE cp == 65536 + (sofar.high - 55296) * 1024 + (n - 56320)
      <3>1. sofar.high \in 55296..56319 /\ n \in 56320..57343
        BY <1>1, <2>1 DEF Scans, Scan, Halves, Low
      <3>2. cp \in Nat /\ 65536 <= cp /\ cp <= 1114111
        <4> DEFINE a == sofar.high - 55296
                   b == n - 56320
        <4>1. a \in 0..1023 /\ b \in 0..1023
          BY <3>1
        <4>2. cp = 65536 + a * 1024 + b
          OBVIOUS
        <4> HIDE DEF a, b, cp
        <4> QED
          BY <4>1, <4>2
      <3>3. cp \in Nat /\ IsScalar(cp)
        <4> HIDE DEF cp
        <4> QED
          BY <3>2, UnitsAre DEF IsScalar
      <3>4. append_unicode_escape(sofar, n) = [Put(sofar, append_codepoint_utf8(cp)) EXCEPT !.high = 0]
        BY <1>1, <2>1 DEF append_unicode_escape
      <3> HIDE DEF cp
      <3>5. append_codepoint_utf8(cp) \in Encoded
        BY <3>3, ScalarEncoded
      <3> QED
        BY <3>4, <3>5, PutsCharacter
    <2>2. CASE ~Low(n)
      <3>1. append_unicode_escape(sofar, n) = Fail(sofar)
        BY <1>1, <2>2 DEF append_unicode_escape
      <3> QED
        BY <3>1, FailsScan
    <2> QED
      BY <2>1, <2>2
  <1>2. CASE sofar.high = 0 /\ High(n)
    <2>1. append_unicode_escape(sofar, n) = [sofar EXCEPT !.high = n]
      BY <1>2 DEF append_unicode_escape
    <2>2. n \in Halves
      BY <1>2 DEF High, Halves
    <2>3. sofar \in Scan
      BY DEF Scans
    <2>4. [sofar EXCEPT !.high = n] \in Scan /\ [sofar EXCEPT !.high = n].state = "open"
      BY <2>2, <2>3 DEF Scan
    <2> QED
      BY <2>1, <2>4 DEF Scans
  <1>3. CASE sofar.high = 0 /\ ~High(n) /\ (Low(n) \/ n < 0)
    <2>1. append_unicode_escape(sofar, n) = Fail(sofar)
      BY <1>3 DEF append_unicode_escape
    <2> QED
      BY <2>1, FailsScan
  <1>4. CASE sofar.high = 0 /\ ~High(n) /\ ~(Low(n) \/ n < 0)
    <2>1. append_unicode_escape(sofar, n) = Put(sofar, append_codepoint_utf8(n))
      BY <1>4 DEF append_unicode_escape
    <2>2. n \in Nat /\ IsScalar(n)
      <3>1. n \in Nat /\ n <= 65535
        BY <1>4, UnitsAre, UnitIsInt
      <3>2. ~(55296 <= n /\ n <= 57343)
        BY <1>4, <3>1, UnitsAre
      <3>3. n \notin Surrogate
        BY <3>1, <3>2, UnitsAre
      <3> QED
        BY <3>1, <3>3 DEF IsScalar
    <2> QED
      BY <2>1, <2>2, ScalarEncoded, PutsCharacter
  <1> QED
    BY <1>1, <1>2, <1>3, <1>4

LEMMA ItemScanned ==
    ASSUME NEW sofar \in Scans, NEW item \in TextItem
    PROVE  ScanItem(sofar, item) \in Scans
  <1>1. CASE sofar.state # "open"
    BY <1>1 DEF ScanItem
  <1>2. CASE /\ sofar.state = "open"
             /\ \/ sofar.high # 0 /\ item[1] # "u"
                \/ sofar.high = 0 /\ Len(sofar.out) > max_string_bytes
    <2>1. ScanItem(sofar, item) = Fail(sofar)
      BY <1>2 DEF ScanItem
    <2> QED
      BY <2>1, FailsScan
  <1>3. CASE /\ sofar.state = "open"
             /\ ~(sofar.high # 0 /\ item[1] # "u")
             /\ ~(sofar.high = 0 /\ Len(sofar.out) > max_string_bytes)
             /\ item = Quote
    <2>1. ScanItem(sofar, item) = [sofar EXCEPT !.state = "closed"]
      BY <1>3, Zenon DEF ScanItem
    <2>2. sofar.high = 0
      BY <1>3 DEF Quote
    <2>3. Len(sofar.out) \in Nat
      <3>1. PICK cs \in Seq(Encoded) : sofar.out = FlattenSeq(cs)
        BY DEF Scans, Scan, Gathered
      <3>2. sofar.out \in Seq(Byte)
        BY <3>1, ChunksOfText DEF ByteSeqs
      <3> QED
        BY <3>2
    <2>4. Len(sofar.out) <= max_string_bytes
      BY <1>3, <2>2, <2>3, JsonAssumption
    <2>5. sofar \in Scan
      BY DEF Scans
    <2>6. /\ [sofar EXCEPT !.state = "closed"] \in Scan
          /\ [sofar EXCEPT !.state = "closed"].high = sofar.high
          /\ [sofar EXCEPT !.state = "closed"].out = sofar.out
      BY <2>5 DEF Scan
    <2> QED
      BY <2>1, <2>2, <2>4, <2>6 DEF Scans
  <1>4. CASE /\ sofar.state = "open"
             /\ ~(sofar.high # 0 /\ item[1] # "u")
             /\ ~(sofar.high = 0 /\ Len(sofar.out) > max_string_bytes)
             /\ item # Quote
    <2>1. CASE item \in {"byte"} \X (0..127)
      <3>1. item[1] = "byte" /\ item[2] \in 0..127
        BY <2>1
      <3>2. ScanItem(sofar, item) = IF item[2] < 32 THEN Fail(sofar) ELSE Put(sofar, <<item[2]>>)
        BY <1>4, <3>1 DEF ScanItem
      <3>3. <<item[2]>> \in Encoded
        BY <3>1 DEF Encoded
      <3> QED
        BY <1>4, <3>2, <3>3, FailsScan, PutsCharacter
    <2>2. CASE item \in {"escape"} \X (0..127)
      <3>1. item[1] = "escape" /\ item[2] \in 0..127
        BY <2>2
      <3>2. ScanItem(sofar, item) = IF item[2] \in DOMAIN Escaped
                                     THEN Put(sofar, <<Escaped[item[2]]>>) ELSE Fail(sofar)
        BY <1>4, <3>1 DEF ScanItem
      <3>3. item[2] \in DOMAIN Escaped => <<Escaped[item[2]]>> \in Encoded
        BY EscapedByte DEF Encoded
      <3> QED
        BY <1>4, <3>2, <3>3, FailsScan, PutsCharacter
    <2>3. CASE item \in {"u"} \X CodeUnit
      <3>1. item[1] = "u" /\ item[2] \in CodeUnit
        BY <2>3
      <3>2. ScanItem(sofar, item) = append_unicode_escape(sofar, item[2])
        BY <1>4, <3>1 DEF ScanItem
      <3> QED
        BY <1>4, <3>1, <3>2, UnicodeScanned
    <2>4. CASE item \in {"raw"} \X (Seq(Byte) \ {<<>>})
      <3>1. item[1] = "raw" /\ item[2] \in ByteSeqs /\ item[2] # <<>>
        BY <2>4 DEF ByteSeqs
      <3>2. ScanItem(sofar, item) = IF AcceptsSequence(item[2]) THEN Put(sofar, item[2])
                                                               ELSE Fail(sofar)
        BY <1>4, <3>1 DEF ScanItem
      <3>3. AcceptsSequence(item[2]) => item[2] \in Encoded
        BY <3>1 DEF Encoded
      <3> QED
        BY <1>4, <3>2, <3>3, FailsScan, PutsCharacter
    <2> QED
      BY <2>1, <2>2, <2>3, <2>4 DEF TextItem
  <1> QED
    BY <1>1, <1>2, <1>3, <1>4

ScanFold(f, items) ==
    f = [s \in SUBSET DOMAIN items |->
           IF s = {} THEN Start ELSE ScanItem(f[s \ {Max(s)}], items[Max(s)])]

LEMMA ScanFoldIs ==
    ASSUME NEW items \in Seq(TextItem)
    PROVE  \E f \in [SUBSET (1..Len(items)) -> Scans] :
              ScanFold(f, items) /\ parse_string(items) = f[1..Len(items)]
  <1> DEFINE N == Len(items)
             h == [p \in Scans \X (1..N) |-> ScanItem(p[1], items[p[2]])]
             F == CHOOSE f : ScanFold(f, items)
  <1>1. N \in Nat /\ DOMAIN items = 1..N /\ \A k \in 1..N : items[k] \in TextItem
    OBVIOUS
  <1>2. h \in [Scans \X (1..N) -> Scans]
    <2> HIDE DEF N
    <2> QED
      BY <1>1, ItemScanned
  <1>3. Start \in Scans
    <2>1. FlattenSeq(<<>>) = <<>> /\ <<>> \in Seq(Encoded)
      BY FlattenNone
    <2>2. Start.out \in Gathered /\ 0 \in Halves
      <3>1. <<>> \in Gathered
        BY <2>1, Zenon DEF Gathered
      <3> QED
        BY <3>1 DEF Halves, Start
    <2> QED
      BY <2>2 DEF Start, Scans, Scan
  <1>4. \A c \in Scans, k \in 1..N : h[<<c, k>>] = ScanItem(c, items[k])
    OBVIOUS
  <1> HIDE DEF h, N, F
  <1>5. PICK f \in [SUBSET (1..N) -> Scans] : Folds(f, Start, h, N)
    BY <1>1, <1>2, <1>3, FoldExists
  <1>6. ASSUME NEW s \in SUBSET (1..N), s # {} PROVE Max(s) \in s
    <2>1. s \in SUBSET (1..(N + 1))
      BY <1>1
    <2> QED
      BY <1>1, <1>6, <2>1, MaxOf
  <1>7. ScanFold(f, items)
    <2>1. ASSUME NEW s \in SUBSET (1..N)
          PROVE  f[s] = IF s = {} THEN Start ELSE ScanItem(f[s \ {Max(s)}], items[Max(s)])
      <3>1. f[s] = IF s = {} THEN Start ELSE h[<<f[s \ {Max(s)}], Max(s)>>]
        BY <1>5 DEF Folds
      <3>2. s # {} => Max(s) \in 1..N /\ f[s \ {Max(s)}] \in Scans
        BY <1>5, <1>6
      <3> QED
        BY <1>4, <3>1, <3>2
    <2>2. f = [s \in SUBSET (1..N) |-> f[s]]
      BY <1>5
    <2>3. f = [s \in SUBSET (1..N) |->
                 IF s = {} THEN Start ELSE ScanItem(f[s \ {Max(s)}], items[Max(s)])]
      BY <2>1, <2>2
    <2> QED
      BY <1>1, <2>3 DEF ScanFold
  <1>8. ScanFold(F, items)
    BY <1>7, Zenon DEF F
  <1>9. parse_string(items) = F[DOMAIN items]
    BY Zenon DEF parse_string, FoldLeft, MapThenFoldSet, ScanFold, Start, F
  <1>10. F = f
    <2> DEFINE Bad == {n \in 0..N : \E s \in SUBSET (1..n) : F[s] # f[s]}
    <2>1. /\ \A s \in SUBSET (1..N) :
                F[s] = IF s = {} THEN Start ELSE ScanItem(F[s \ {Max(s)}], items[Max(s)])
          /\ \A s \in SUBSET (1..N) :
                f[s] = IF s = {} THEN Start ELSE ScanItem(f[s \ {Max(s)}], items[Max(s)])
      BY <1>1, <1>7, <1>8 DEF ScanFold
    <2>2. Bad = {}
      <3> SUFFICES ASSUME Bad # {} PROVE FALSE
        OBVIOUS
      <3>1. PICK n \in Bad : \A m \in Bad : n <= m
        <4>1. Bad \subseteq Nat
          OBVIOUS
        <4> QED
          BY <4>1, LeastNatural
      <3>2. PICK s \in SUBSET (1..n) : F[s] # f[s]
        BY <3>1
      <3>3. s \in SUBSET (1..N) /\ s # {} /\ n # 0
        <4>1. n \in 0..N
          BY <3>1
        <4>2. 1..n \subseteq 1..N
          BY <1>1, <4>1
        <4>3. s \in SUBSET (1..N)
          BY <3>2, <4>2
        <4>4. s # {}
          BY <2>1, <3>2, <4>3
        <4>5. n # 0
          <5>1. 1..0 = {}
            OBVIOUS
          <5> QED
            BY <3>2, <4>4, <5>1
        <4> QED
          BY <4>3, <4>4, <4>5
      <3>4. s \in SUBSET (1..((n - 1) + 1)) /\ n - 1 \in Nat
        BY <3>1, <3>3
      <3>5. s \ {Max(s)} \in SUBSET (1..(n - 1))
        <4>1. CASE (n - 1) + 1 \in s
          BY <3>4, <4>1, MaxOf
        <4>2. CASE (n - 1) + 1 \notin s
          <5>1. s \in SUBSET (1..(n - 1))
            BY <3>4, <4>2, MaxOf
          <5> QED
            BY <5>1
        <4> QED
          BY <4>1, <4>2
      <3>6. n - 1 \notin Bad /\ n - 1 \in 0..N
        BY <1>1, <3>1, <3>4
      <3>7. F[s \ {Max(s)}] = f[s \ {Max(s)}]
        BY <3>5, <3>6
      <3> QED
        BY <2>1, <3>2, <3>3, <3>7
    <2>3. N \in 0..N
      BY <1>1
    <2>4. \A s \in SUBSET (1..N) : F[s] = f[s]
      BY <2>2, <2>3
    <2>5. F = [s \in SUBSET (1..N) |-> F[s]]
      BY <1>1, <1>8 DEF ScanFold
    <2>6. f = [s \in SUBSET (1..N) |-> f[s]]
      BY <1>5
    <2> QED
      BY <2>4, <2>5, <2>6
  <1> QED
    BY <1>1, <1>7, <1>9, <1>10 DEF N

(* g[k] is what parse_string has gathered after k items.                     *)
ScanTurns(g, items) ==
    /\ g[0] = Start
    /\ \A k \in 0..(Len(items) - 1) : g[k + 1] = ScanItem(g[k], items[k + 1])

LEMMA ScansTurn ==
    ASSUME NEW items \in Seq(TextItem)
    PROVE  /\ \E g : ScanTurns(g, items) /\ parse_string(items) = g[Len(items)]
           /\ parse_string(items) \in Scans
  <1> DEFINE N == Len(items)
  <1>1. PICK f \in [SUBSET (1..N) -> Scans] :
           ScanFold(f, items) /\ parse_string(items) = f[1..N]
    BY ScanFoldIs
  <1> DEFINE g == [k \in 0..N |-> f[1..k]]
  <1>2. N \in Nat /\ DOMAIN items = 1..N
    OBVIOUS
  <1> HIDE DEF N
  <1>3. \A s \in SUBSET (1..N) :
           f[s] = IF s = {} THEN Start ELSE ScanItem(f[s \ {Max(s)}], items[Max(s)])
    BY <1>1, <1>2 DEF ScanFold
  <1>4. \A k \in 0..N : g[k] = f[1..k]
    OBVIOUS
  <1> HIDE DEF g
  <1>5. g[0] = Start
    <2>1. 1..0 = {} /\ 1..0 \in SUBSET (1..N) /\ 0 \in 0..N
      BY <1>2
    <2> QED
      BY <1>3, <1>4, <2>1
  <1>6. ASSUME NEW k \in 0..(N - 1) PROVE g[k + 1] = ScanItem(g[k], items[k + 1])
    <2>1. k \in 0..N /\ k + 1 \in 0..N
      BY <1>2
    <2>2. /\ 1..(k + 1) \in SUBSET (1..N) /\ 1..(k + 1) # {}
          /\ Max(1..(k + 1)) = k + 1 /\ (1..(k + 1)) \ {k + 1} = 1..k
      BY <1>2, FirstPositions
    <2>3. f[1..(k + 1)] = ScanItem(f[1..k], items[k + 1])
      BY <1>3, <2>2
    <2> QED
      BY <1>4, <2>1, <2>3
  <1>7. g[N] = f[1..N]
    BY <1>2, <1>4
  <1>8. f[1..N] \in Scans
    BY <1>1
  <1>9. ScanTurns(g, items) /\ parse_string(items) = g[N]
    BY <1>1, <1>5, <1>6, <1>7 DEF N, ScanTurns
  <1> QED
    BY <1>1, <1>8, <1>9 DEF N

(* What json_escape writes for one character.                               *)
EscapeOf(c) ==
    IF c[1] \in DOMAIN ShortEscape THEN <<"escape", ShortEscape[c[1]]>>
    ELSE IF c[1] < 32 THEN <<"u", c[1]>>
    ELSE IF Len(c) = 1 THEN <<"byte", c[1]>>
    ELSE <<"raw", c>>

(* A parser that is reading, that has gathered what came before a character and  *)
(* no half of a pair, gathers the character from what was written for it.     *)
LEMMA EscapeRead ==
    ASSUME NEW c \in Encoded, NEW out \in ByteSeqs, Len(out) <= max_string_bytes
    PROVE  /\ EscapeOf(c) \in TextItem
           /\ ScanItem([out |-> out, high |-> 0, state |-> "open"], EscapeOf(c))
                = [out |-> out \o c, high |-> 0, state |-> "open"]
  <1> DEFINE b == c[1]
             sofar == [out |-> out, high |-> 0, state |-> "open"]
             item == EscapeOf(c)
             after == [out |-> out \o c, high |-> 0, state |-> "open"]
  <1>1. /\ Len(c) \in Nat /\ c \in ByteSeqs /\ b \in Byte
        /\ Len(c) = 1 => c = <<b>> /\ b \in 0..127
        /\ Len(c) # 1 => b >= 192 /\ AcceptsSequence(c) /\ c # <<>>
    <2>1. c \in ByteSeqs /\ Len(c) \in 1..4 /\ b \in Byte
      BY EncodedIs
    <2>2. Len(c) \in Nat
      BY <2>1 DEF ByteSeqs
    <2>3. /\ Len(c) = 1 => c = <<b>> /\ b \in 0..127
          /\ Len(c) > 1 => b >= 192 /\ AcceptsSequence(c)
      BY EncodedIs
    <2>4. Len(c) # 1 => Len(c) > 1 /\ c # <<>>
      <3>1. \A n \in 1..4 : n # 0 /\ (n # 1 => n > 1)
        OBVIOUS
      <3>2. Len(<<>>) = 0
        OBVIOUS
      <3> QED
        BY <2>1, <3>1, <3>2, Zenon
    <2> QED
      BY <2>1, <2>2, <2>3, <2>4, Zenon
  <1>2. Len(out) \in Nat /\ ~(Len(out) > max_string_bytes)
    BY JsonAssumption DEF ByteSeqs
  <1>3. ~(sofar.state # "open") /\ ~(sofar.high # 0)
        /\ ~(sofar.high = 0 /\ Len(sofar.out) > max_string_bytes)
    BY <1>2
  <1>4. Put(sofar, c) = after
    <2>1. \A w : [[out |-> out, high |-> 0, state |-> "open"] EXCEPT !.out = w]
                   = [out |-> w, high |-> 0, state |-> "open"]
      OBVIOUS
    <2>2. Put(sofar, c) = [sofar EXCEPT !.out = out \o c]
      BY DEF Put
    <2> QED
      BY <2>1, <2>2
  <1> HIDE DEF sofar, after, b
  <1>5. CASE b \in DOMAIN ShortEscape
    <2>1. item = <<"escape", ShortEscape[b]>>
      BY <1>5 DEF EscapeOf, b
    <2>2. Len(c) = 1
      <3>1. ~(b >= 192)
        BY <1>5, EscapedByte
      <3> QED
        BY <1>1, <3>1, Zenon
    <2>3. /\ ShortEscape[b] \in DOMAIN Escaped /\ Escaped[ShortEscape[b]] = b
          /\ ShortEscape[b] \in 0..127
      BY <1>5, EscapedByte
    <2> HIDE DEF item
    <2>4. item # Quote /\ item[1] = "escape" /\ item[2] = ShortEscape[b]
      BY <2>1 DEF Quote
    <2>5. ScanItem(sofar, item) = Put(sofar, <<Escaped[item[2]]>>)
      BY <1>3, <2>3, <2>4 DEF ScanItem
    <2>6. item \in TextItem
      BY <2>1, <2>3 DEF TextItem
    <2> QED
      BY <1>1, <1>4, <2>2, <2>3, <2>4, <2>5, <2>6 DEF item, sofar, after
  <1>6. CASE b \notin DOMAIN ShortEscape /\ b < 32
    <2>1. item = <<"u", b>>
      BY <1>6 DEF EscapeOf, b
    <2>2. Len(c) = 1 /\ b \in 0..31
      <3>1. ~(b >= 192)
        BY <1>1, <1>6 DEF Byte
      <3>2. Len(c) = 1
        BY <1>1, <3>1, Zenon
      <3>3. b \in 0..31
        BY <1>1, <1>6 DEF Byte
      <3> QED
        BY <3>2, <3>3
    <2> HIDE DEF item
    <2>3. item # Quote /\ item[1] = "u" /\ item[2] = b
      BY <2>1 DEF Quote
    <2>4. ScanItem(sofar, item) = append_unicode_escape(sofar, b)
      BY <1>3, <2>3 DEF ScanItem
    <2>5. ~High(b) /\ ~Low(b) /\ ~(b < 0) /\ append_codepoint_utf8(b) = <<b>>
      <3>1. b \in Int /\ b < 128 /\ ~(b < 0)
        BY <2>2
      <3>2. ~High(b) /\ ~Low(b)
        BY <3>1, UnitsAre
      <3> QED
        BY <3>1, <3>2 DEF append_codepoint_utf8
    <2>6. append_unicode_escape(sofar, b) = Put(sofar, <<b>>)
      BY <1>3, <2>5 DEF append_unicode_escape
    <2>7. item \in TextItem
      <3>1. b \in CodeUnit
        <4>1. b \in Int /\ -1 <= b /\ b <= 65535
          BY <2>2
        <4> QED
          BY <4>1, UnitsAre
      <3> QED
        BY <2>1, <3>1 DEF TextItem
    <2> QED
      BY <1>1, <1>4, <2>2, <2>4, <2>6, <2>7 DEF item, sofar, after
  <1>7. CASE b \notin DOMAIN ShortEscape /\ ~(b < 32) /\ Len(c) = 1
    <2>1. item = <<"byte", b>>
      BY <1>7 DEF EscapeOf, b
    <2>2. b \in 0..127 /\ b # 34
      BY <1>1, <1>7, EscapedByte
    <2> HIDE DEF item
    <2>3. item # Quote /\ item[1] = "byte" /\ item[2] = b
      BY <2>1, <2>2 DEF Quote
    <2>4. ScanItem(sofar, item) = Put(sofar, <<b>>)
      BY <1>3, <1>7, <2>3 DEF ScanItem
    <2>5. item \in TextItem
      BY <2>1, <2>2 DEF TextItem
    <2> QED
      BY <1>1, <1>4, <1>7, <2>4, <2>5 DEF item, sofar, after
  <1>8. CASE b \notin DOMAIN ShortEscape /\ ~(b < 32) /\ Len(c) # 1
    <2>1. item = <<"raw", c>>
      BY <1>8 DEF EscapeOf, b
    <2> HIDE DEF item
    <2>2. item # Quote /\ item[1] = "raw" /\ item[2] = c
      BY <2>1 DEF Quote
    <2>3. ScanItem(sofar, item) = Put(sofar, c)
      BY <1>1, <1>3, <1>8, <2>2 DEF ScanItem
    <2>4. item \in TextItem
      BY <1>1, <1>8, <2>1 DEF TextItem, ByteSeqs
    <2> QED
      BY <1>4, <2>3, <2>4 DEF item, sofar, after
  <1> QED
    BY <1>5, <1>6, <1>7, <1>8

LEMMA EscapeIs ==
    ASSUME NEW cs \in Seq(Encoded)
    PROVE  json_escape(FlattenSeq(cs)) = [k \in 1..Len(cs) |-> EscapeOf(cs[k])]
  <1>1. Chunks(FlattenSeq(cs)) = cs
    BY ChunksOfText
  <1>2. DOMAIN cs = 1..Len(cs)
    OBVIOUS
  <1> QED
    BY <1>1, <1>2 DEF json_escape, EscapeOf

LEMMA UptoWithin ==
    ASSUME NEW S, NEW s \in Seq(Seq(S)), NEW n \in 0..Len(s)
    PROVE  Offset(s, n) <= Len(FlattenSeq(s))
  <1> DEFINE Bad == {m \in Nat : m <= Len(s) /\ ~(Offset(s, Len(s) - m) <= Len(FlattenSeq(s)))}
  <1>1. /\ \A k \in 0..Len(s) : Offset(s, k) \in Nat
        /\ \A k \in 0..(Len(s) - 1) : Offset(s, k + 1) = Offset(s, k) + Len(s[k + 1])
        /\ Offset(s, Len(s)) = Len(FlattenSeq(s))
    BY Offsets
  <1>2. Len(s) \in Nat /\ \A k \in 0..(Len(s) - 1) : Len(s[k + 1]) \in Nat
    OBVIOUS
  <1>3. Bad = {}
    <2> SUFFICES ASSUME Bad # {} PROVE FALSE
      OBVIOUS
    <2>1. PICK m \in Bad : \A k \in Bad : m <= k
      <3>1. Bad \subseteq Nat
        OBVIOUS
      <3> QED
        BY <3>1, LeastNatural
    <2>2. m \in Nat /\ m <= Len(s) /\ m # 0
      BY <1>1, <1>2, <2>1
    <2>3. m - 1 \in Nat /\ m - 1 <= Len(s) /\ ~(m <= m - 1)
      BY <1>2, <2>2
    <2>4. Offset(s, Len(s) - (m - 1)) <= Len(FlattenSeq(s))
      BY <2>1, <2>3, Zenon
    <2>5. Len(s) - m \in 0..(Len(s) - 1) /\ Len(s) - m + 1 = Len(s) - (m - 1)
          /\ Len(s) - m \in 0..Len(s)
      BY <1>2, <2>2
    <2>6. Offset(s, Len(s) - m) <= Len(FlattenSeq(s))
      <3> DEFINE o == Offset(s, Len(s) - m)
                 l == Len(s[Len(s) - m + 1])
      <3>1. /\ o \in Nat /\ l \in Nat /\ Len(FlattenSeq(s)) \in Nat
            /\ Offset(s, Len(s) - (m - 1)) = o + l
        <4>1. Len(s) \in 0..Len(s)
          BY <1>2
        <4> QED
          BY <1>1, <1>2, <2>5, <4>1
      <3> HIDE DEF o, l
      <3>2. o <= Len(FlattenSeq(s))
        BY <2>4, <3>1
      <3> QED
        BY <3>2 DEF o
    <2> QED
      BY <2>1, <2>6
  <1>4. Len(s) - n \in Nat /\ Len(s) - n <= Len(s) /\ Len(s) - (Len(s) - n) = n
    BY <1>2
  <1> QED
    BY <1>3, <1>4

LEMMA TextReadBack ==
    ASSUME NEW cs \in Seq(Encoded), Len(FlattenSeq(cs)) <= max_string_bytes
    PROVE  parse_string(Append(json_escape(FlattenSeq(cs)), Quote))
              = [out |-> FlattenSeq(cs), high |-> 0, state |-> "closed"]
  <1> DEFINE text == FlattenSeq(cs)
             n == Len(cs)
             items == Append(json_escape(text), Quote)
             ReadSoFar(w) == [out |-> w, high |-> 0, state |-> "open"]
  <1>1. text \in ByteSeqs /\ cs \in Seq(ByteSeqs) /\ n \in Nat /\ Len(text) \in Nat
    <2>1. text \in ByteSeqs /\ cs \in Seq(ByteSeqs)
      BY ChunksOfText
    <2>2. Len(text) \in Nat
      BY <2>1 DEF ByteSeqs
    <2> QED
      BY <2>1, <2>2
  <1>2. \A k \in 0..n : Upto(cs, k) \in ByteSeqs /\ Len(Upto(cs, k)) <= max_string_bytes
    <2> TAKE k \in 0..n
    <2>1. Upto(cs, k) \in ByteSeqs
      BY <1>1, UptoTyped DEF ByteSeqs
    <2>2. Len(Upto(cs, k)) <= Len(text)
      BY <1>1, UptoWithin DEF ByteSeqs, Offset
    <2>3. Len(Upto(cs, k)) \in Nat
      BY <2>1 DEF ByteSeqs
    <2> QED
      BY <1>1, <2>1, <2>2, <2>3, JsonAssumption
  <1>3. \A k \in 1..n : EscapeOf(cs[k]) \in TextItem
    <2> TAKE k \in 1..n
    <2>1. cs[k] \in Encoded /\ 0 \in 0..n
      BY <1>1
    <2>2. Upto(cs, 0) \in ByteSeqs /\ Len(Upto(cs, 0)) <= max_string_bytes
      BY <1>2, <2>1
    <2> QED
      BY <2>1, <2>2, EscapeRead
  <1>4. /\ items \in Seq(TextItem) /\ Len(items) = n + 1 /\ items[n + 1] = Quote
        /\ \A k \in 1..n : items[k] = EscapeOf(cs[k])
    <2> DEFINE e == [k \in 1..n |-> EscapeOf(cs[k])]
    <2>1. e \in Seq(TextItem) /\ Len(e) = n /\ \A k \in 1..n : e[k] = EscapeOf(cs[k])
      <3>1. e \in [1..n -> TextItem]
        BY <1>3
      <3> HIDE DEF n
      <3> QED
        BY <1>1, <3>1, FunctionIsSeq
    <2>2. items = Append(e, Quote)
      BY EscapeIs
    <2>3. Quote \in TextItem
      BY DEF Quote, TextItem
    <2> HIDE DEF e, items
    <2> QED
      BY <1>1, <2>1, <2>2, <2>3
  <1> HIDE DEF items, text
  <1>5. PICK g : ScanTurns(g, items) /\ parse_string(items) = g[n + 1]
    BY <1>4, ScansTurn
  <1> DEFINE P(k) == g[k] = ReadSoFar(Upto(cs, k))
             Bad == {k \in 0..n : ~P(k)}
  <1>6. P(0)
    <2>1. Upto(cs, 0) = <<>>
      BY <1>1, UptoNone DEF ByteSeqs
    <2> QED
      BY <1>5, <2>1 DEF ScanTurns, Start
  <1>7. ASSUME NEW k \in 0..(n - 1), P(k) PROVE P(k + 1)
    <2>1. k \in 0..n /\ k + 1 \in 1..n /\ cs[k + 1] \in Encoded /\ k \in 0..(n + 1 - 1)
      BY <1>1
    <2>2. g[k + 1] = ScanItem(g[k], items[k + 1])
      BY <1>4, <1>5, <2>1 DEF ScanTurns
    <2>3. items[k + 1] = EscapeOf(cs[k + 1])
      BY <1>4, <2>1
    <2>4. ScanItem(ReadSoFar(Upto(cs, k)), EscapeOf(cs[k + 1]))
             = ReadSoFar(Upto(cs, k) \o cs[k + 1])
      BY <1>2, <2>1, EscapeRead
    <2>5. Upto(cs, k + 1) = Upto(cs, k) \o cs[k + 1]
      BY <1>1, <2>1, UptoMore DEF ByteSeqs
    <2> QED
      BY <1>7, <2>2, <2>3, <2>4, <2>5
  <1> HIDE DEF P
  <1>8. Bad = {}
    <2> SUFFICES ASSUME Bad # {} PROVE FALSE
      OBVIOUS
    <2>1. PICK k \in Bad : \A m \in Bad : k <= m
      <3>1. Bad \subseteq Nat
        OBVIOUS
      <3> QED
        BY <3>1, LeastNatural
    <2>2. k \in 0..n /\ k # 0
      BY <1>6, <2>1
    <2>3. k - 1 \in 0..(n - 1) /\ k - 1 \notin Bad /\ k - 1 + 1 = k
      BY <1>1, <2>1, <2>2
    <2> QED
      BY <1>7, <2>1, <2>2, <2>3
  <1>9. P(n)
    <2>1. n \in 0..n
      BY <1>1
    <2> QED
      BY <1>8, <2>1
  <1>10. g[n] = ReadSoFar(text)
    BY <1>1, <1>9, UptoAll DEF P, text, ByteSeqs
  <1>11. g[n + 1] = ScanItem(g[n], Quote)
    BY <1>1, <1>4, <1>5 DEF ScanTurns
  <1>12. ~(Len(text) > max_string_bytes)
    BY <1>1, JsonAssumption DEF text
  <1>13. ScanItem(ReadSoFar(text), Quote) = [out |-> text, high |-> 0, state |-> "closed"]
    <2>1. /\ ~(ReadSoFar(text).state # "open") /\ ReadSoFar(text).high = 0
          /\ ReadSoFar(text).out = text
      OBVIOUS
    <2>2. ScanItem(ReadSoFar(text), Quote) = [ReadSoFar(text) EXCEPT !.state = "closed"]
      <3> HIDE DEF ReadSoFar
      <3> QED
        BY <1>12, <2>1 DEF ScanItem
    <2> QED
      BY <2>2
  <1> QED
    BY <1>5, <1>10, <1>11, <1>13 DEF items, text

AllTokens == FirstTokens \cup ValueTokens \cup OtherTokens

(* The parser at work is the one its stage is for, and a string it has gone past *)
(* is one that parse_string closed.                                          *)
TextInv ==
    /\ grammar = "json" => stage # "xml" /\ read \in Seq(AllTokens)
    /\ TextIsRead => parse_string(Last(read)[2]).state = "closed"

LEMMA TextUnread == grammar' # "json" => TextInv'
  BY DEF TextInv, TextIsRead

LEMMA TextStays ==
    ASSUME TextInv, UNCHANGED document, stage' # "xml" \/ stage' = stage
    PROVE  TextInv'
  BY DEF TextInv, TextIsRead, document

LEMMA TextBegins == JsonBegins /\ stage' = "json" => TextInv'
  BY DEF JsonBegins, Turn, TextInv, TextIsRead

LEMMA StringPassed ==
    ASSUME NEW t, t[1] = "string", ScalarOf(t) # {}
    PROVE  parse_string(t[2]).state = "closed"
  BY DEF ScalarOf

LEMMA TextGoesOn == TextInv /\ ParseJson => TextInv'
  <1> SUFFICES ASSUME TextInv, ParseJson PROVE TextInv'
    OBVIOUS
  <1>1. stage = "json" /\ stage' = "json" /\ JsonNext
    BY DEF ParseJson, fetch
  <1>2. PICK t \in JsonTokens :
           \/ OpenContainer(t)
           \/ CloseContainer(t)
           \/ ReadScalar(t)
           \/ ReadKey(t)
           \/ ReadColon(t)
           \/ ReadComma(t)
           \/ ReadEnd(t)
           \/ RefuseToken(t)
    BY <1>1 DEF JsonNext
  <1>3. t \in AllTokens
    BY DEF JsonTokens, AllTokens
  <1>4. read' = Append(read, t) /\ grammar' = grammar
    BY <1>2 DEF OpenContainer, CloseContainer, ReadScalar, ReadKey, ReadColon, ReadComma,
                ReadEnd, RefuseToken, Refuse, Consume
  <1> SUFFICES ASSUME grammar = "json" PROVE TextInv'
    BY <1>4, TextUnread
  <1>5. read \in Seq(AllTokens)
    BY DEF TextInv
  <1>6. read' \in Seq(AllTokens) /\ Last(read') = t
    BY <1>3, <1>4, <1>5 DEF Last
  <1>7. TextIsRead' => parse_string(t[2]).state = "closed"
    <2> SUFFICES ASSUME t[1] = "string", verdict' \in {Pending, Accepted}
                 PROVE  parse_string(t[2]).state = "closed"
      BY <1>6 DEF TextIsRead
    <2>1. CASE ReadScalar(t) \/ ReadKey(t)
      <3>1. ScalarOf(t) # {}
        BY <2>1 DEF ReadScalar, ReadKey
      <3> QED
        BY <3>1, StringPassed
    <2>2. CASE OpenContainer(t) \/ CloseContainer(t) \/ ReadColon(t) \/ ReadComma(t) \/ ReadEnd(t)
      <3>1. t[1] = "mark"
        <4>1. t \in Opening => t = Mark("{") \/ t = Mark("[")
          BY Zenon DEF Opening
        <4>2. \A kind : Closing(kind)[1] = "mark"
          BY DEF Closing, Mark
        <4>3. \A m : Mark(m)[1] = "mark"
          BY DEF Mark
        <4>4. Eof[1] = "mark"
          BY DEF Eof
        <4>5. \/ t \in Opening \/ t = Closing(Innermost.kind)
              \/ t = Mark(":") \/ t = Mark(",") \/ t = Eof
          BY <2>2, Zenon DEF OpenContainer, CloseContainer, ReadColon, ReadComma, ReadEnd
        <4> QED
          BY <4>1, <4>2, <4>3, <4>4, <4>5, Zenon
      <3> QED
        BY <3>1
    <2>3. CASE RefuseToken(t)
      <3>1. verdict' = "syntax"
        BY <2>3 DEF RefuseToken, Refuse
      <3> QED
        BY <3>1 DEF Pending, Accepted
    <2> QED
      BY <1>2, <2>1, <2>2, <2>3
  <1> QED
    BY <1>1, <1>6, <1>7 DEF TextInv

LEMMA OtherStages == TextInv /\ ParseXml => TextInv'
  <1> SUFFICES ASSUME TextInv, ParseXml PROVE TextInv'
    OBVIOUS
  <1>1. stage = "xml" /\ XmlNext
    BY DEF ParseXml
  <1>2. grammar # "json"
    BY <1>1 DEF TextInv
  <1>3. grammar' = grammar
    BY <1>1 DEF XmlNext, SkipMarkup, OpenElement, CloseElement, AddText, RefuseMarkup, Refuse,
                Consume
  <1> QED
    BY <1>2, <1>3, TextUnread

(* A string the parser goes past is one that its scan closed.                *)
LEMMA TextInductive == Spec => []TextInv
  <1>1. Init => TextInv
    BY DEF Init, NoDocument, TextInv, TextIsRead
  <1>2. TextInv /\ [Next]_vars => TextInv'
    <2> SUFFICES ASSUME TextInv, [Next]_vars PROVE TextInv'
      OBVIOUS
    <2>1. CASE UNCHANGED vars
      BY <2>1, TextStays DEF vars, fetch
    <2>2. CASE Transfer
      BY <2>2, TextStays DEF Transfer, fetch
    <2>3. CASE AskFirms \/ http_fetch \/ FetchPart \/ OpenFile
      BY <2>3, NotParsing, TextStays DEF Formats
    <2>5. ASSUME NEW format \in Formats, BeginParse(format) PROVE TextInv'
      <3>1. CASE UNCHANGED document /\ stage' = "done"
        BY <3>1, TextStays
      <3>2. CASE format = "json" /\ JsonBegins /\ stage' = "json"
        BY <3>2, TextBegins
      <3>3. CASE format = "xml" /\ XmlBegins
        <4>1. grammar' = "xml"
          BY <3>3 DEF XmlBegins, Turn
        <4> QED
          BY <4>1, TextUnread
      <3>4. CASE format = "csv" /\ UNCHANGED document /\ stage' = "csv"
        BY <3>4, TextStays
      <3> QED
        BY <2>5, <3>1, <3>2, <3>3, <3>4 DEF BeginParse, Fails, Ends, Formats
    <2>6. CASE ParseCsv
      BY <2>6, TextStays DEF ParseCsv, fetch
    <2>7. CASE ParseReturns
      <3>1. grammar' = ""
        BY <2>7 DEF ParseReturns, Turn
      <3> QED
        BY <3>1, TextUnread
    <2>8. ASSUME NEW r \in Records[stage], stage \in Layouts, ReadRecord(r) PROVE TextInv'
      <3>1. UNCHANGED document /\ stage' # "xml"
        BY <2>8 DEF ReadRecord, Layouts
      <3> QED
        BY <3>1, TextStays
    <2>9. CASE EndRecords
      BY <2>9, TextStays DEF EndRecords, Ends
    <2> QED
      BY <2>1, <2>2, <2>3, <2>5, <2>6, <2>7, <2>8, <2>9, TextGoesOn, OtherStages DEF Next
  <1> QED
    BY <1>1, <1>2, PTL DEF Spec

(* Whatever text the parser has read, written with json_escape it is a string   *)
(* that the parser reads as the same text: for every token, every character of  *)
(* the text and every limit.                                                *)
THEOREM EscapedIsReadBack == Spec => []WrittenIsReadBack
  <1>1. TextInv => WrittenIsReadBack
    <2> SUFFICES ASSUME TextInv, TextIsRead
                 PROVE  LET text == parse_string(Last(read)[2]).out
                        IN  parse_string(Append(json_escape(text), Quote))
                               = [out |-> text, high |-> 0, state |-> "closed"]
      BY DEF WrittenIsReadBack
    <2> DEFINE items == Last(read)[2]
               text == parse_string(items).out
    <2>1. Last(read) \in AllTokens
      <3>1. read \in Seq(AllTokens) /\ read # <<>>
        BY DEF TextInv, TextIsRead
      <3> QED
        BY <3>1 DEF Last
    <2>2. items \in Seq(TextItem)
      <3>1. Last(read)[1] = "string"
        BY DEF TextIsRead
      <3> QED
        BY <2>1, <3>1, TokensAssumption, Zenon DEF AllTokens
    <2>3. parse_string(items).state = "closed"
      BY DEF TextInv
    <2> HIDE DEF items
    <2>4. parse_string(items) \in Scans
      BY <2>2, ScansTurn
    <2>5. PICK cs \in Seq(Encoded) : text = FlattenSeq(cs)
      BY <2>4 DEF Scans, Scan, Gathered
    <2>6. Len(text) <= max_string_bytes
      BY <2>3, <2>4 DEF Scans
    <2> HIDE DEF text
    <2>7. parse_string(Append(json_escape(text), Quote))
             = [out |-> text, high |-> 0, state |-> "closed"]
      BY <2>5, <2>6, TextReadBack
    <2> QED
      BY <2>7 DEF text, items
  <1> QED
    BY <1>1, TextInductive, PTL

-----------------------------------------------------------------------------
(* A document's tree, from its tags.                                        *)

(* Flattenings of parts that are given by their positions.                   *)
LEMMA FlattenGrown ==
    ASSUME NEW S, NEW n \in Nat, NEW p \in [1..n -> Seq(S)], NEW q \in [1..(n + 1) -> Seq(S)],
           \A k \in 1..n : q[k] = p[k]
    PROVE  FlattenSeq(q) = FlattenSeq(p) \o q[n + 1]
  <1>1. p \in Seq(Seq(S)) /\ Len(p) = n
    BY FunctionIsSeq
  <1>2. q \in Seq(Seq(S)) /\ Len(q) = n + 1
    <2>1. n + 1 \in Nat
      OBVIOUS
    <2> QED
      BY <2>1, FunctionIsSeq
  <1>3. Same(p, q, n)
    BY DEF Same
  <1> QED
    BY <1>1, <1>2, <1>3, FlattenLonger

LEMMA FlattenQuiet ==
    ASSUME NEW S, NEW n \in Nat, NEW p \in [1..n -> Seq(S)], NEW m \in 0..n,
           \A k \in (m + 1)..n : p[k] = <<>>
    PROVE  FlattenSeq(p) = Upto(p, m)
  <1>1. p \in Seq(Seq(S)) /\ Len(p) = n
    BY FunctionIsSeq
  <1> DEFINE Bad == {j \in m..n : Upto(p, j) # Upto(p, m)}
  <1>2. Bad = {}
    <2> SUFFICES ASSUME Bad # {} PROVE FALSE
      OBVIOUS
    <2>1. PICK j \in Bad : \A i \in Bad : j <= i
      <3>1. Bad \subseteq Nat
        OBVIOUS
      <3> QED
        BY <3>1, LeastNatural
    <2>2. j \in m..n /\ j # m
      BY <2>1
    <2>3. j - 1 \in m..n /\ j - 1 \notin Bad /\ j - 1 \in 0..(n - 1) /\ (j - 1) + 1 = j
      BY <2>1, <2>2
    <2>4. Upto(p, j) = Upto(p, j - 1) \o p[j]
      BY <1>1, <2>3, UptoMore
    <2>5. p[j] = <<>> /\ Upto(p, j - 1) \in Seq(S)
      BY <1>1, <2>2, <2>3, UptoTyped
    <2>6. Upto(p, j) = Upto(p, j - 1)
      BY <2>4, <2>5
    <2> QED
      BY <2>1, <2>3, <2>6
  <1>3. Upto(p, n) = Upto(p, m)
    BY <1>2
  <1> QED
    BY <1>1, <1>3, UptoAll

LEMMA FlattenSilent ==
    ASSUME NEW n \in Nat, NEW p, p = [k \in 1..n |-> <<>>]
    PROVE  FlattenSeq(p) = <<>>
  <1>1. p \in [1..n -> Seq({})] /\ 0 \in 0..n /\ \A k \in (0 + 1)..n : p[k] = <<>>
    OBVIOUS
  <1>2. FlattenSeq(p) = Upto(p, 0)
    BY <1>1, FlattenQuiet
  <1>3. p \in Seq(Seq({}))
    BY <1>1, FunctionIsSeq
  <1> QED
    BY <1>2, <1>3, UptoNone

LEMMA FirstOf ==
    ASSUME NEW T, NEW w \in Seq(T), NEW j \in 0..Len(w)
    PROVE  SubSeq(w, 1, j) \in Seq(T) /\ Len(SubSeq(w, 1, j)) = j
  OBVIOUS

(* One part more among them, the last that is not empty.                     *)
Inserts(S, p, q, n, m, x) ==
    /\ n \in Nat /\ m \in 1..n /\ x \in S
    /\ p \in [1..n -> Seq(S)] /\ q \in [1..n -> Seq(S)]
    /\ \A k \in 1..n : k # m => p[k] = q[k]
    /\ p[m] = <<x>>
    /\ q[m] = <<>>
    /\ \A k \in (m + 1)..n : q[k] = <<>>

LEMMA FlattenInsert ==
    ASSUME NEW S, NEW p, NEW q, NEW n, NEW m, NEW x, Inserts(S, p, q, n, m, x)
    PROVE  FlattenSeq(p) = Append(FlattenSeq(q), x)
  <1> USE DEF Inserts
  <1>1. p \in Seq(Seq(S)) /\ Len(p) = n /\ q \in Seq(Seq(S)) /\ Len(q) = n
    BY FunctionIsSeq
  <1>2. m \in 0..n /\ m - 1 \in 0..n /\ m - 1 \in 0..(n - 1) /\ (m - 1) + 1 = m
    OBVIOUS
  <1>3. \A k \in (m + 1)..n : p[k] = <<>>
    OBVIOUS
  <1>4. FlattenSeq(p) = Upto(p, m) /\ FlattenSeq(q) = Upto(q, m)
    BY <1>2, <1>3, FlattenQuiet
  <1>5. Upto(p, m) = Upto(p, m - 1) \o p[m] /\ Upto(q, m) = Upto(q, m - 1) \o q[m]
    BY <1>1, <1>2, UptoMore
  <1>6. SubSeq(p, 1, m - 1) = SubSeq(q, 1, m - 1)
    <2> DEFINE a == SubSeq(p, 1, m - 1)
               b == SubSeq(q, 1, m - 1)
    <2>1. a \in Seq(Seq(S)) /\ b \in Seq(Seq(S)) /\ Len(a) = m - 1 /\ Len(b) = m - 1
      BY <1>1, <1>2, FirstOf
    <2>2. \A k \in 1..(m - 1) : a[k] = p[k] /\ b[k] = q[k] /\ k # m /\ k \in 1..n
      BY <1>1
    <2> HIDE DEF a, b
    <2>3. \A k \in 1..(m - 1) : a[k] = b[k]
      BY <2>2
    <2>4. a = b
      BY <2>1, <2>3
    <2> QED
      BY <2>4 DEF a, b
  <1>7. Upto(p, m - 1) = Upto(q, m - 1) /\ Upto(q, m - 1) \in Seq(S)
    BY <1>1, <1>2, <1>6, UptoTyped DEF Upto
  <1>8. Upto(q, m) = Upto(q, m - 1)
    BY <1>5, <1>7
  <1>9. Upto(p, m) = Append(Upto(q, m), x)
    <2>1. \A w \in Seq(S) : w \o <<x>> = Append(w, x)
      OBVIOUS
    <2> QED
      BY <1>5, <1>7, <1>8, <2>1
  <1> QED
    BY <1>4, <1>9

(* As many as there are parts that are not empty, if none has more than one. *)
LEMMA FlattenSingles ==
    ASSUME NEW S, NEW n \in Nat, NEW p \in [1..n -> Seq(S)],
           \A k \in 1..n : p[k] # <<>> => Len(p[k]) = 1
    PROVE  Len(FlattenSeq(p)) = Cardinality({k \in 1..n : p[k] # <<>>})
  <1>1. p \in Seq(Seq(S)) /\ Len(p) = n
    BY FunctionIsSeq
  <1> DEFINE C(j) == {k \in 1..j : p[k] # <<>>}
             Bad == {j \in 0..n : ~(IsFiniteSet(C(j)) /\ Offset(p, j) = Cardinality(C(j)))}
  <1>2. C(0) = {}
    OBVIOUS
  <1>3. ASSUME NEW j \in 0..(n - 1)
        PROVE  C(j + 1) = IF p[j + 1] = <<>> THEN C(j) ELSE C(j) \cup {j + 1}
    OBVIOUS
  <1>4. \A j \in 0..n : j + 1 \notin C(j)
    OBVIOUS
  <1> HIDE DEF C
  <1>5. Bad = {}
    <2> SUFFICES ASSUME Bad # {} PROVE FALSE
      OBVIOUS
    <2>1. PICK j \in Bad : \A i \in Bad : j <= i
      <3>1. Bad \subseteq Nat
        OBVIOUS
      <3> QED
        BY <3>1, LeastNatural
    <2>2. j # 0
      <3>1. Offset(p, 0) = 0 /\ Cardinality(C(0)) = 0 /\ IsFiniteSet(C(0))
        BY <1>1, <1>2, Offsets, FS_EmptySet
      <3> QED
        BY <2>1, <3>1
    <2>3. j - 1 \in 0..(n - 1) /\ j - 1 \in 0..n /\ j - 1 \notin Bad /\ (j - 1) + 1 = j
      BY <2>1, <2>2
    <2>4. IsFiniteSet(C(j - 1)) /\ Offset(p, j - 1) = Cardinality(C(j - 1))
      BY <2>3
    <2>5. Offset(p, j) = Offset(p, j - 1) + Len(p[j]) /\ Offset(p, j - 1) \in Nat
      BY <1>1, <2>3, Offsets
    <2>6. j \in 1..n
      BY <2>3
    <2>7. CASE p[j] = <<>>
      <3>1. C(j) = C(j - 1) /\ Len(p[j]) = 0
        BY <1>3, <2>3, <2>7
      <3> QED
        BY <2>1, <2>4, <2>5, <3>1
    <2>8. CASE p[j] # <<>>
      <3>1. C(j) = C(j - 1) \cup {j} /\ j \notin C(j - 1) /\ Len(p[j]) = 1
        <4>1. C((j - 1) + 1) = C(j - 1) \cup {(j - 1) + 1}
          BY <1>3, <2>3, <2>8
        <4>2. (j - 1) + 1 \notin C(j - 1)
          BY <1>4, <2>3
        <4>3. Len(p[j]) = 1
          BY <2>6, <2>8
        <4> QED
          BY <2>3, <4>1, <4>2, <4>3
      <3>2. /\ IsFiniteSet(C(j - 1) \cup {j})
            /\ Cardinality(C(j - 1) \cup {j}) = Cardinality(C(j - 1)) + 1
        BY <2>4, <3>1, FS_AddElement
      <3>3. IsFiniteSet(C(j)) /\ Cardinality(C(j)) = Cardinality(C(j - 1)) + 1
        BY <3>1, <3>2
      <3> QED
        BY <2>1, <2>4, <2>5, <3>1, <3>3
    <2> QED
      BY <2>7, <2>8
  <1>6. Offset(p, n) = Cardinality(C(n))
    <2>1. n \in 0..n
      OBVIOUS
    <2> QED
      BY <1>5, <2>1
  <1> QED
    BY <1>1, <1>6, Offsets DEF C

(* The levels of a document that grows.                                     *)
Steps(s, n) == (IF Enters(s, n) THEN 1 ELSE 0) - (IF Leaves(s, n) THEN 1 ELSE 0)

LEMMA LevelSteps ==
    ASSUME NEW s
    PROVE  /\ Level(s, 1) = 0
           /\ \A n \in Nat \ {0} : /\ Level(s, n) \in Int
                                   /\ Level(s, n + 1) = Level(s, n) + Steps(s, n)
  <1> DEFINE E(n) == {m \in 1..(n - 1) : Enters(s, m)}
             L(n) == {m \in 1..(n - 1) : Leaves(s, m)}
  <1>1. E(1) = {} /\ L(1) = {}
    OBVIOUS
  <1>2. Level(s, 1) = 0
    <2>1. Cardinality(E(1)) = 0 /\ Cardinality(L(1)) = 0
      BY <1>1, FS_EmptySet
    <2> HIDE DEF E, L
    <2> QED
      BY <2>1 DEF Level, E, L
  <1>3. ASSUME NEW n \in Nat \ {0}
        PROVE  /\ Level(s, n) \in Int
               /\ Level(s, n + 1) = Level(s, n) + Steps(s, n)
    <2>1. E(n + 1) = IF Enters(s, n) THEN E(n) \cup {n} ELSE E(n)
      OBVIOUS
    <2>2. L(n + 1) = IF Leaves(s, n) THEN L(n) \cup {n} ELSE L(n)
      OBVIOUS
    <2>3. n \notin E(n) /\ n \notin L(n)
      OBVIOUS
    <2>4. E(n) \in SUBSET (1..n) /\ L(n) \in SUBSET (1..n)
      OBVIOUS
    <2>5. Level(s, n) = Cardinality(E(n)) - Cardinality(L(n))
      BY DEF Level
    <2>6. Level(s, n + 1) = Cardinality(E(n + 1)) - Cardinality(L(n + 1))
      BY DEF Level
    <2> HIDE DEF E, L
    <2>7. IsFiniteSet(E(n)) /\ IsFiniteSet(L(n))
      <3>1. IsFiniteSet(1..n)
        BY FS_Interval
      <3> QED
        BY <2>4, <3>1, FS_Subset
    <2>8. Cardinality(E(n)) \in Nat /\ Cardinality(L(n)) \in Nat
      BY <2>7, FS_CardinalityType
    <2>9. Cardinality(E(n + 1)) = Cardinality(E(n)) + IF Enters(s, n) THEN 1 ELSE 0
      <3>1. Cardinality(E(n) \cup {n}) = Cardinality(E(n)) + 1
        BY <2>3, <2>7, FS_AddElement
      <3> QED
        BY <2>1, <2>8, <3>1
    <2>10. Cardinality(L(n + 1)) = Cardinality(L(n)) + IF Leaves(s, n) THEN 1 ELSE 0
      <3>1. Cardinality(L(n) \cup {n}) = Cardinality(L(n)) + 1
        BY <2>3, <2>7, FS_AddElement
      <3> QED
        BY <2>2, <2>8, <3>1
    <2> QED
      BY <2>5, <2>6, <2>8, <2>9, <2>10 DEF Steps
  <1> QED
    BY <1>2, <1>3

LEMMA LevelKept ==
    ASSUME NEW S, NEW s \in Seq(S), NEW t
    PROVE  /\ \A n \in 1..Len(s) : Append(s, t)[n] = s[n]
           /\ \A n \in 1..(Len(s) + 1) : Level(Append(s, t), n) = Level(s, n)
           /\ \A n \in 1..(Len(s) + 1), m \in 1..Len(s) :
                 DirectlyIn(Append(s, t), n, m) <=> DirectlyIn(s, n, m)
           /\ \A n \in 1..Len(s), m \in 1..Len(s) :
                 ChildOf(Append(s, t), n, m) <=> ChildOf(s, n, m)
  <1> DEFINE u == Append(s, t)
  <1>1. \A n \in 1..Len(s) : u[n] = s[n]
    OBVIOUS
  <1> HIDE DEF u
  <1>2. \A n \in 1..Len(s) : (Enters(u, n) <=> Enters(s, n)) /\ (Leaves(u, n) <=> Leaves(s, n))
                             /\ (IsTag(u, n) <=> IsTag(s, n))
    BY <1>1 DEF Enters, Leaves, IsTag
  <1>3. ASSUME NEW n \in 1..(Len(s) + 1) PROVE Level(u, n) = Level(s, n)
    <2>1. \A m \in 1..(n - 1) : m \in 1..Len(s)
      OBVIOUS
    <2>2. {m \in 1..(n - 1) : Enters(u, m)} = {m \in 1..(n - 1) : Enters(s, m)}
      BY <1>2, <2>1
    <2>3. {m \in 1..(n - 1) : Leaves(u, m)} = {m \in 1..(n - 1) : Leaves(s, m)}
      BY <1>2, <2>1
    <2> QED
      BY <2>2, <2>3 DEF Level
  <1>4. ASSUME NEW n \in 1..(Len(s) + 1), NEW m \in 1..Len(s)
        PROVE  DirectlyIn(u, n, m) <=> DirectlyIn(s, n, m)
    <2>1. \A k \in (m + 1)..n : k \in 1..(Len(s) + 1)
      OBVIOUS
    <2>2. Level(u, n) = Level(s, n) /\ Level(u, m) = Level(s, m)
          /\ \A k \in (m + 1)..n : Level(u, k) = Level(s, k)
      BY <1>3, <2>1
    <2> QED
      BY <1>2, <2>2 DEF DirectlyIn
  <1>5. ASSUME NEW n \in 1..Len(s), NEW m \in 1..Len(s)
        PROVE  ChildOf(u, n, m) <=> ChildOf(s, n, m)
    BY <1>2, <1>4 DEF ChildOf
  <1> QED
    BY <1>1, <1>3, <1>4, <1>5 DEF u

-----------------------------------------------------------------------------
(* Character data.                                                          *)

(* The bytes of a reference, and what else character data is made of.         *)
DataByte == Byte \cup UNION {{append_codepoint_utf8(CodeOf(r))[k] : k \in 1..4} : r \in Reference}
DataBytes == Seq(DataByte)

LEMMA EntityDecoded ==
    ASSUME NEW r \in Reference
    PROVE  decode_entity(r) = {} \/ \E w \in DataBytes : decode_entity(r) = {w}
  <1>1. CASE r \in {"named"} \X Byte
    <2>1. r[1] = "named" /\ r[2] \in Byte
      BY <1>1
    <2>2. r[2] \in DataByte
      BY <2>1 DEF DataByte
    <2>3. <<r[2]>> \in DataBytes
      BY <2>2 DEF DataBytes
    <2>4. decode_entity(r) = {<<r[2]>>}
      BY <2>1 DEF decode_entity
    <2> QED
      BY <2>3, <2>4
  <1>2. CASE r = <<"unknown">>
    <2>1. r[1] = "unknown"
      BY <1>2
    <2> QED
      BY <2>1 DEF decode_entity
  <1>3. CASE r \in {"decimal", "hex"} \X Seq(0..15)
    <2> DEFINE w == append_codepoint_utf8(CodeOf(r))
    <2>1. r[1] # "named" /\ r[1] # "unknown"
      BY <1>3
    <2>2. decode_entity(r) = {} \/ decode_entity(r) = {w}
      BY <2>1 DEF decode_entity
    <2>3. \E a, b, c, d : w = <<a>> \/ w = <<a, b>> \/ w = <<a, b, c>> \/ w = <<a, b, c, d>>
      <3> DEFINE cp == CodeOf(r)
                 w1 == <<cp>>
                 w2 == <<192 + cp \div 64, 128 + (cp % 64)>>
                 w3 == <<224 + cp \div 4096, 128 + ((cp \div 64) % 64), 128 + (cp % 64)>>
                 w4 == <<240 + cp \div 262144, 128 + ((cp \div 4096) % 64),
                         128 + ((cp \div 64) % 64), 128 + (cp % 64)>>
      <3>1. w = IF cp < 128 THEN w1 ELSE IF cp < 2048 THEN w2 ELSE IF cp < 65536 THEN w3 ELSE w4
        BY SMT DEF append_codepoint_utf8
      <3>2. \A a, b, c, d : /\ \E x : <<a>> = <<x>>
                            /\ \E x, y : <<a, b>> = <<x, y>>
                            /\ \E x, y, z : <<a, b, c>> = <<x, y, z>>
                            /\ \E x, y, z, v : <<a, b, c, d>> = <<x, y, z, v>>
        BY Zenon
      <3>3. (\E a : w1 = <<a>>) /\ \E a, b : w2 = <<a, b>>
        BY <3>2, SMT
      <3>4. (\E a, b, c : w3 = <<a, b, c>>) /\ \E a, b, c, d : w4 = <<a, b, c, d>>
        BY <3>2, SMT
      <3> HIDE DEF w1, w2, w3, w4, w
      <3>5. w = w1 \/ w = w2 \/ w = w3 \/ w = w4
        BY <3>1, SMT
      <3> QED
        BY <3>3, <3>4, <3>5, Zenon
    <2>4. \A k \in 1..4 : w[k] \in DataByte
      BY DEF DataByte
    <2> HIDE DEF w
    <2>5. w \in DataBytes
      <3>1. PICK a, b, c, d : w = <<a>> \/ w = <<a, b>> \/ w = <<a, b, c>> \/ w = <<a, b, c, d>>
        BY <2>3
      <3>2. CASE w = <<a>>
        BY <2>4, <3>2 DEF DataBytes
      <3>3. CASE w = <<a, b>>
        BY <2>4, <3>3 DEF DataBytes
      <3>4. CASE w = <<a, b, c>>
        BY <2>4, <3>4 DEF DataBytes
      <3>5. CASE w = <<a, b, c, d>>
        BY <2>4, <3>5 DEF DataBytes
      <3> QED
        BY <3>1, <3>2, <3>3, <3>4, <3>5
    <2> QED
      BY <2>2, <2>5
  <1> QED
    BY <1>1, <1>2, <1>3 DEF Reference

(* The tokens that carry character data, and what keeps one from being added. *)
Data == Piece \cup ({"cdata"} \X Seq(Byte) \X BOOLEAN)

Unfit(text, t) ==
    \/ t[1] = "byte" /\ Len(text) + 1 > max_text_bytes
    \/ t[1] = "entity" /\ decode_entity(t[2]) = {}
    \/ t[1] = "cdata" /\ ~t[3]

LEMMA DataKinds ==
    ASSUME NEW t \in Data
    PROVE  \/ t[1] = "byte" /\ t \in {"byte"} \X Byte
           \/ t[1] = "entity" /\ t[2] \in Reference /\ t \in Piece
           \/ t[1] = "cdata" /\ t[2] \in Seq(Byte)
  BY DEF Data, Piece

LEMMA DataIsText ==
    ASSUME NEW t \in Data, t[1] = "entity" => decode_entity(t[2]) # {}
    PROVE  DataOf(t) \in DataBytes
  <1>1. CASE t[1] = "byte" /\ t \in {"byte"} \X Byte
    <2>1. t[2] \in DataByte
      BY <1>1 DEF DataByte
    <2> QED
      BY <1>1, <2>1 DEF DataOf, DataBytes
  <1>2. CASE t[1] = "entity" /\ t[2] \in Reference
    <2>1. PICK w \in DataBytes : decode_entity(t[2]) = {w}
      BY <1>2, EntityDecoded
    <2>2. DataOf(t) = CHOOSE bytes \in decode_entity(t[2]) : TRUE
      BY <1>2 DEF DataOf
    <2> QED
      BY <2>1, <2>2
  <1>3. CASE t[1] = "cdata" /\ t[2] \in Seq(Byte)
    <2>1. DataOf(t) = t[2]
      BY <1>3 DEF DataOf
    <2>2. Seq(Byte) \subseteq DataBytes
      <3>1. Byte \subseteq DataByte
        BY DEF DataByte
      <3> QED
        BY <3>1, WiderSeq DEF DataBytes
    <2> QED
      BY <1>3, <2>1, <2>2
  <1> QED
    BY <1>1, <1>2, <1>3, DataKinds

LEMMA ItemAdded ==
    ASSUME NEW text \in DataBytes, NEW t \in Data
    PROVE  /\ Unfit(text, t) => WithItem(text, t) = {}
           /\ ~Unfit(text, t) => /\ WithItem(text, t) = {text \o DataOf(t)}
                                 /\ DataOf(t) \in DataBytes
  <1>1. CASE t[1] = "byte" /\ t \in {"byte"} \X Byte
    <2>1. DataOf(t) = <<t[2]>>
      BY <1>1 DEF DataOf
    <2>2. WithItem(text, t) = IF Len(text) + 1 > max_text_bytes THEN {} ELSE {Append(text, t[2])}
      BY <1>1 DEF WithItem
    <2>3. DataOf(t) \in DataBytes
      BY <1>1, DataIsText
    <2>4. Append(text, t[2]) = text \o <<t[2]>>
      <3>1. t[2] \in DataByte
        BY <1>1 DEF DataByte
      <3> QED
        BY <3>1 DEF DataBytes
    <2>5. Unfit(text, t) <=> Len(text) + 1 > max_text_bytes
      BY <1>1 DEF Unfit
    <2> QED
      BY <2>1, <2>2, <2>3, <2>4, <2>5
  <1>2. CASE t[1] = "entity" /\ t[2] \in Reference
    <2>1. WithItem(text, t) = {text \o bytes : bytes \in decode_entity(t[2])}
      BY <1>2 DEF WithItem
    <2>2. Unfit(text, t) <=> decode_entity(t[2]) = {}
      BY <1>2 DEF Unfit
    <2>3. DataOf(t) = CHOOSE bytes \in decode_entity(t[2]) : TRUE
      BY <1>2 DEF DataOf
    <2>4. CASE decode_entity(t[2]) = {}
      BY <2>1, <2>2, <2>4
    <2>5. CASE decode_entity(t[2]) # {}
      <3>1. PICK w \in DataBytes : decode_entity(t[2]) = {w}
        BY <1>2, <2>5, EntityDecoded
      <3>2. DataOf(t) = w
        BY <2>3, <3>1
      <3>3. WithItem(text, t) = {text \o w}
        BY <2>1, <3>1
      <3> QED
        BY <2>2, <2>5, <3>2, <3>3
    <2> QED
      BY <2>4, <2>5
  <1>3. CASE t[1] = "cdata" /\ t[2] \in Seq(Byte)
    <2>1. DataOf(t) = t[2]
      BY <1>3 DEF DataOf
    <2>2. DataOf(t) \in DataBytes
      BY <1>3, DataIsText
    <2>3. WithItem(text, t) = IF t[3] THEN {text \o t[2]} ELSE {}
      BY <1>3 DEF WithItem
    <2>4. Unfit(text, t) <=> ~t[3]
      BY <1>3 DEF Unfit
    <2> QED
      BY <2>1, <2>2, <2>3, <2>4
  <1> QED
    BY <1>1, <1>2, <1>3, DataKinds

(* An attribute's value: a fold over its items.                              *)
Added(texts, item) == UNION {WithItem(text, item) : text \in texts}

ValueFold(f, items) ==
    f = [s \in SUBSET DOMAIN items |->
           IF s = {} THEN {<<>>} ELSE Added(f[s \ {Max(s)}], items[Max(s)])]

LEMMA ValueFoldIs ==
    ASSUME NEW items \in Seq(Piece)
    PROVE  \E f : ValueFold(f, items) /\ AttributeValue(items) = f[1..Len(items)]
  <1> DEFINE N == Len(items)
             X == SUBSET DataBytes
             h == [p \in X \X (1..N) |-> Added(p[1], items[p[2]])]
             F == CHOOSE f : ValueFold(f, items)
  <1>1. N \in Nat /\ DOMAIN items = 1..N /\ \A k \in 1..N : items[k] \in Piece
    OBVIOUS
  <1>2. \A c \in X, t \in Piece : Added(c, t) \in X
    <2> SUFFICES ASSUME NEW c \in X, NEW t \in Piece, NEW text \in c
                 PROVE  WithItem(text, t) \subseteq DataBytes
      BY DEF Added
    <2>1. t \in Data /\ text \in DataBytes
      BY DEF Data
    <2>2. DataOf(t) \in DataBytes => text \o DataOf(t) \in DataBytes
      BY <2>1 DEF DataBytes
    <2> QED
      BY <2>1, <2>2, ItemAdded
  <1>3. {<<>>} \in X
    BY DEF DataBytes
  <1>4. \A c \in X, k \in 1..N : h[<<c, k>>] = Added(c, items[k])
    OBVIOUS
  <1>5. h \in [X \X (1..N) -> X]
    BY <1>1, <1>2
  <1> HIDE DEF X, h, N
  <1>6. PICK f \in [SUBSET (1..N) -> X] : Folds(f, {<<>>}, h, N)
    BY <1>1, <1>3, <1>5, FoldExists
  <1>7. ASSUME NEW s \in SUBSET (1..N), s # {} PROVE Max(s) \in s
    <2>1. s \in SUBSET (1..(N + 1))
      BY <1>1
    <2> QED
      BY <1>1, <1>7, <2>1, MaxOf
  <1>8. ValueFold(f, items)
    <2>1. ASSUME NEW s \in SUBSET (1..N)
          PROVE  f[s] = IF s = {} THEN {<<>>} ELSE Added(f[s \ {Max(s)}], items[Max(s)])
      <3>1. f[s] = IF s = {} THEN {<<>>} ELSE h[<<f[s \ {Max(s)}], Max(s)>>]
        BY <1>6 DEF Folds
      <3>2. s # {} => Max(s) \in 1..N /\ f[s \ {Max(s)}] \in X
        BY <1>6, <1>7
      <3> QED
        BY <1>4, <3>1, <3>2
    <2>2. f = [s \in SUBSET (1..N) |-> f[s]]
      BY <1>6
    <2>3. f = [s \in SUBSET (1..N) |->
                 IF s = {} THEN {<<>>} ELSE Added(f[s \ {Max(s)}], items[Max(s)])]
      BY <2>1, <2>2
    <2> QED
      BY <1>1, <2>3 DEF ValueFold
  <1>9. ValueFold(F, items)
    BY <1>8, Zenon
  <1>10. AttributeValue(items) = F[DOMAIN items]
    BY Zenon DEF AttributeValue, FoldLeft, MapThenFoldSet, ValueFold, Added
  <1> HIDE DEF F
  <1> QED
    BY <1>1, <1>9, <1>10 DEF N

(* g[k] is what has been put together after k items.                         *)
ValueTurns(g, items) ==
    /\ g[0] = {<<>>}
    /\ \A k \in 0..(Len(items) - 1) : g[k + 1] = Added(g[k], items[k + 1])

LEMMA ValuesTurn ==
    ASSUME NEW items \in Seq(Piece)
    PROVE  \E g : ValueTurns(g, items) /\ AttributeValue(items) = g[Len(items)]
  <1>1. PICK f : ValueFold(f, items) /\ AttributeValue(items) = f[1..Len(items)]
    BY ValueFoldIs
  <1> DEFINE N == Len(items)
             g == [k \in 0..N |-> f[1..k]]
  <1>2. N \in Nat /\ DOMAIN items = 1..N
    OBVIOUS
  <1>3. \A s \in SUBSET (1..N) :
           f[s] = IF s = {} THEN {<<>>} ELSE Added(f[s \ {Max(s)}], items[Max(s)])
    BY <1>1, <1>2 DEF ValueFold
  <1>4. \A k \in 0..N : g[k] = f[1..k]
    OBVIOUS
  <1> HIDE DEF g, N
  <1>5. g[0] = {<<>>}
    <2>1. 1..0 = {} /\ 1..0 \in SUBSET (1..N) /\ 0 \in 0..N
      BY <1>2
    <2> QED
      BY <1>3, <1>4, <2>1
  <1>6. ASSUME NEW k \in 0..(N - 1) PROVE g[k + 1] = Added(g[k], items[k + 1])
    <2>1. k \in 0..N /\ k + 1 \in 0..N
      BY <1>2
    <2>2. /\ 1..(k + 1) \in SUBSET (1..N) /\ 1..(k + 1) # {}
          /\ Max(1..(k + 1)) = k + 1 /\ (1..(k + 1)) \ {k + 1} = 1..k
      BY <1>2, FirstPositions
    <2>3. f[1..(k + 1)] = Added(f[1..k], items[k + 1])
      BY <1>3, <2>2
    <2> QED
      BY <1>4, <2>1, <2>3
  <1>7. g[N] = f[1..N]
    BY <1>2, <1>4
  <1> QED
    BY <1>1, <1>5, <1>6, <1>7 DEF N, ValueTurns

IllegalAt(items, k) ==
    \/ items[k][1] = "entity" /\ decode_entity(items[k][2]) = {}
    \/ items[k][1] = "byte" /\ Len(DataOfItems(items, k)) > max_text_bytes

LEMMA ItemsRead ==
    ASSUME NEW items \in Seq(Piece), NEW k \in 0..(Len(items) - 1),
           \A j \in 1..(k + 1) : items[j][1] = "entity" => decode_entity(items[j][2]) # {}
    PROVE  /\ DataOfItems(items, k) \in DataBytes
           /\ DataOfItems(items, k + 1) = DataOfItems(items, k) \o DataOf(items[k + 1])
  <1> DEFINE p == [j \in 1..k |-> DataOf(items[j])]
             q == [j \in 1..(k + 1) |-> DataOf(items[j])]
  <1>1. k \in Nat /\ \A j \in 1..(k + 1) : items[j] \in Piece
    OBVIOUS
  <1>2. \A j \in 1..(k + 1) : DataOf(items[j]) \in Seq(DataByte)
    <2> TAKE j \in 1..(k + 1)
    <2>1. items[j] \in Data
      BY <1>1 DEF Data
    <2> QED
      BY <2>1, DataIsText DEF DataBytes
  <1>3. p \in [1..k -> Seq(DataByte)] /\ q \in [1..(k + 1) -> Seq(DataByte)]
        /\ (\A j \in 1..k : q[j] = p[j]) /\ q[k + 1] = DataOf(items[k + 1])
    BY <1>2
  <1>4. DataOfItems(items, k) = FlattenSeq(p) /\ DataOfItems(items, k + 1) = FlattenSeq(q)
    BY DEF DataOfItems
  <1> HIDE DEF p, q
  <1>5. p \in Seq(Seq(DataByte))
    BY <1>1, <1>3, FunctionIsSeq
  <1>6. FlattenSeq(p) \in Seq(DataByte)
    BY <1>5, FlattenTyped
  <1>7. FlattenSeq(q) = FlattenSeq(p) \o q[k + 1]
    BY <1>1, <1>3, FlattenGrown
  <1> QED
    BY <1>3, <1>4, <1>6, <1>7 DEF DataBytes

LEMMA NoItems == ASSUME NEW items PROVE DataOfItems(items, 0) = <<>>
  <1>1. [j \in 1..0 |-> DataOf(items[j])] = <<>>
    OBVIOUS
  <1> QED
    BY <1>1, FlattenNone DEF DataOfItems

(* No value for the items that have a wrong one among them, and one for others. *)
LEMMA AttributeRead ==
    ASSUME NEW items \in Seq(Piece)
    PROVE  AttributeValue(items)
              = IF Illegal(items) THEN {} ELSE {DataOfItems(items, Len(items))}
  <1> DEFINE n == Len(items)
             Ill(k) == \E j \in 1..k : IllegalAt(items, j)
             P(g, k) == g[k] = IF Ill(k) THEN {} ELSE {DataOfItems(items, k)}
  <1>1. PICK g : ValueTurns(g, items) /\ AttributeValue(items) = g[n]
    BY ValuesTurn
  <1> DEFINE Bad == {k \in 0..n : ~P(g, k)}
  <1>2. n \in Nat
    OBVIOUS
  <1>3. P(g, 0)
    BY <1>1, NoItems DEF ValueTurns
  <1>4. ASSUME NEW k \in 0..(n - 1), P(g, k) PROVE P(g, k + 1)
    <2>1. g[k + 1] = Added(g[k], items[k + 1])
      BY <1>1 DEF ValueTurns
    <2>2. Ill(k + 1) <=> Ill(k) \/ IllegalAt(items, k + 1)
      BY <1>2
    <2>3. CASE Ill(k)
      <3>1. g[k] = {}
        BY <1>4, <2>3
      <3>2. g[k + 1] = {}
        BY <2>1, <3>1 DEF Added
      <3> QED
        BY <2>2, <2>3, <3>2
    <2>4. CASE ~Ill(k)
      <3> DEFINE text == DataOfItems(items, k)
                 item == items[k + 1]
      <3>1. g[k] = {text}
        BY <1>4, <2>4
      <3>2. g[k + 1] = WithItem(text, item)
        BY <2>1, <3>1 DEF Added
      <3>3. item \in Data /\ item[1] # "cdata"
        BY <1>2 DEF Data, Piece
      <3>4. \A j \in 1..k : items[j][1] = "entity" => decode_entity(items[j][2]) # {}
        BY <2>4 DEF IllegalAt
      <3>5. CASE item[1] = "entity" /\ decode_entity(item[2]) = {}
        <4>1. IllegalAt(items, k + 1)
          BY <3>5 DEF IllegalAt
        <4>2. WithItem(text, item) = {}
          BY <3>5 DEF WithItem
        <4> QED
          BY <2>2, <3>2, <4>1, <4>2
      <3>6. CASE ~(item[1] = "entity" /\ decode_entity(item[2]) = {})
        <4>1. \A j \in 1..(k + 1) : items[j][1] = "entity" => decode_entity(items[j][2]) # {}
          <5> TAKE j \in 1..(k + 1)
          <5>1. j = k + 1 \/ j \in 1..k
            BY <1>2
          <5> QED
            BY <3>4, <3>6, <5>1
        <4>2. text \in DataBytes /\ DataOfItems(items, k + 1) = text \o DataOf(item)
          BY <1>2, <4>1, ItemsRead
        <4>3. /\ Unfit(text, item) => WithItem(text, item) = {}
              /\ ~Unfit(text, item) => WithItem(text, item) = {text \o DataOf(item)}
          BY <3>3, <4>2, ItemAdded
        <4>4. Unfit(text, item) <=> IllegalAt(items, k + 1)
          <5>1. item[1] = "byte" => Len(text \o DataOf(item)) = Len(text) + 1
            <6> SUFFICES ASSUME item[1] = "byte"
                         PROVE  Len(text \o DataOf(item)) = Len(text) + 1
              OBVIOUS
            <6>1. DataOf(item) = <<item[2]>>
              BY DEF DataOf
            <6>2. DataOf(item) \in DataBytes
              BY <3>3, DataIsText
            <6> QED
              BY <4>2, <6>1, <6>2 DEF DataBytes
          <5> HIDE DEF text
          <5> QED
            BY <3>3, <3>6, <4>2, <5>1 DEF Unfit, IllegalAt
        <4> QED
          BY <2>2, <2>4, <3>2, <4>2, <4>3, <4>4
      <3> QED
        BY <3>5, <3>6
    <2> QED
      BY <2>3, <2>4
  <1> HIDE DEF P, Ill
  <1>5. Bad = {}
    <2> SUFFICES ASSUME Bad # {} PROVE FALSE
      OBVIOUS
    <2>1. PICK k \in Bad : \A m \in Bad : k <= m
      <3>1. Bad \subseteq Nat
        OBVIOUS
      <3> QED
        BY <3>1, LeastNatural
    <2>2. k \in 0..n /\ k # 0
      BY <1>3, <2>1
    <2>3. k - 1 \in 0..(n - 1) /\ k - 1 \notin Bad /\ k - 1 + 1 = k
      BY <1>2, <2>1, <2>2
    <2> QED
      BY <1>4, <2>1, <2>2, <2>3
  <1>6. P(g, n)
    BY <1>2, <1>5
  <1>7. Ill(n) <=> Illegal(items)
    <2>1. DOMAIN items = 1..n
      OBVIOUS
    <2> QED
      BY <2>1 DEF Ill, Illegal, IllegalAt
  <1> QED
    BY <1>1, <1>6, <1>7 DEF P

Ill(attribute) == NoName(attribute[1]) \/ Illegal(attribute[2])

LEMMA AttributesRead ==
    ASSUME NEW t, t[3] \in Seq(Name \X Seq(Piece))
    PROVE  parse_attributes(t[3])
              = IF \E k \in DOMAIN t[3] : Ill(t[3][k]) THEN {} ELSE {AttributesOf(t)}
  <1> DEFINE a == t[3]
  <1>1. \A k \in DOMAIN a : a[k][2] \in Seq(Piece)
    OBVIOUS
  <1>2. \A k \in DOMAIN a : AttributeValue(a[k][2])
           = IF Illegal(a[k][2]) THEN {} ELSE {DataOfItems(a[k][2], Len(a[k][2]))}
    BY <1>1, AttributeRead
  <1>3. (\E k \in DOMAIN a : NoName(a[k][1]) \/ AttributeValue(a[k][2]) = {})
           <=> \E k \in DOMAIN a : Ill(a[k])
    BY <1>2 DEF Ill
  <1>4. CASE \E k \in DOMAIN a : Ill(a[k])
    BY <1>3, <1>4 DEF parse_attributes
  <1>5. CASE ~ \E k \in DOMAIN a : Ill(a[k])
    <2>1. \A k \in DOMAIN a : (CHOOSE text \in AttributeValue(a[k][2]) : TRUE)
                                 = DataOfItems(a[k][2], Len(a[k][2]))
      <3> TAKE k \in DOMAIN a
      <3>1. AttributeValue(a[k][2]) = {DataOfItems(a[k][2], Len(a[k][2]))}
        BY <1>2, <1>5 DEF Ill
      <3>2. \A v : (CHOOSE text \in {v} : TRUE) = v
        OBVIOUS
      <3> QED
        BY <3>1, <3>2
    <2> DEFINE x == [k \in DOMAIN a |-> <<LocalName(a[k][1]),
                                          CHOOSE text \in AttributeValue(a[k][2]) : TRUE>>]
    <2>2. x = [k \in DOMAIN a |-> <<LocalName(a[k][1]), DataOfItems(a[k][2], Len(a[k][2]))>>]
      <3> DEFINE V(k) == CHOOSE text \in AttributeValue(a[k][2]) : TRUE
                 W(k) == DataOfItems(a[k][2], Len(a[k][2]))
      <3>1. \A k \in DOMAIN a : V(k) = W(k)
        BY <2>1
      <3> HIDE DEF V, W
      <3>2. [k \in DOMAIN a |-> <<LocalName(a[k][1]), V(k)>>]
               = [k \in DOMAIN a |-> <<LocalName(a[k][1]), W(k)>>]
        BY <3>1
      <3> QED
        BY <3>2 DEF V, W
    <2>3. x = AttributesOf(t)
      BY <2>2 DEF AttributesOf
    <2>4. parse_attributes(a) = {x}
      BY <1>3, <1>5 DEF parse_attributes
    <2> HIDE DEF x
    <2> QED
      BY <1>5, <2>3, <2>4
  <1> QED
    BY <1>4, <1>5

-----------------------------------------------------------------------------
(* What is directly in an element.                                          *)

(* What is directly in an element, as a document grows.                      *)

LEMMA DataGrown ==
    ASSUME NEW S, NEW s \in Seq(S), NEW t, NEW m \in 1..Len(s),
           \A k \in 1..Len(s) : DataOf(s[k]) \in DataBytes,
           DirectlyIn(s, Len(s) + 1, m) => DataOf(t) \in DataBytes
    PROVE  /\ DataIn(s, m, Len(s)) \in DataBytes
           /\ DataIn(Append(s, t), m, Len(s) + 1)
                 = IF DirectlyIn(s, Len(s) + 1, m) THEN DataIn(s, m, Len(s)) \o DataOf(t)
                   ELSE DataIn(s, m, Len(s))
  <1> DEFINE n == Len(s)
             u == Append(s, t)
             p == [k \in 1..n |-> IF DirectlyIn(s, k, m) THEN DataOf(s[k]) ELSE <<>>]
             q == [k \in 1..(n + 1) |-> IF DirectlyIn(u, k, m) THEN DataOf(u[k]) ELSE <<>>]
  <1>1. n \in Nat /\ u[n + 1] = t /\ \A k \in 1..n : u[k] = s[k] /\ k \in 1..(n + 1)
    OBVIOUS
  <1>2. \A k \in 1..(n + 1) : DirectlyIn(u, k, m) <=> DirectlyIn(s, k, m)
    BY LevelKept
  <1>3. DataIn(s, m, n) = FlattenSeq(p) /\ DataIn(u, m, n + 1) = FlattenSeq(q)
    BY DEF DataIn
  <1>4. <<>> \in DataBytes
    BY DEF DataBytes
  <1> HIDE DEF n, u
  <1>5. p \in [1..n -> DataBytes]
    BY <1>1, <1>4 DEF n
  <1>6. n + 1 \in 1..(n + 1)
    BY <1>1
  <1>7. q[n + 1] = IF DirectlyIn(s, n + 1, m) THEN DataOf(t) ELSE <<>>
    BY <1>1, <1>2, <1>6
  <1>8. \A k \in 1..n : q[k] = p[k]
    BY <1>1, <1>2
  <1>9. q \in [1..(n + 1) -> DataBytes]
    <2>1. \A k \in 1..(n + 1) : q[k] \in DataBytes
      <3> TAKE k \in 1..(n + 1)
      <3>1. k \in 1..n \/ k = n + 1
        BY <1>1
      <3> HIDE DEF p, q
      <3> QED
        BY <1>4, <1>5, <1>7, <1>8, <3>1 DEF n
    <2>2. q = [k \in 1..(n + 1) |-> q[k]]
      OBVIOUS
    <2> HIDE DEF q
    <2> QED
      BY <2>1, <2>2
  <1> HIDE DEF p, q
  <1>10. FlattenSeq(q) = FlattenSeq(p) \o q[n + 1]
    BY <1>1, <1>5, <1>8, <1>9, FlattenGrown DEF DataBytes
  <1>11. FlattenSeq(p) \in DataBytes
    <2>1. p \in Seq(Seq(DataByte))
      BY <1>1, <1>5, FunctionIsSeq DEF DataBytes
    <2> QED
      BY <2>1, FlattenTyped DEF DataBytes
  <1>12. FlattenSeq(p) \o <<>> = FlattenSeq(p)
    BY <1>11 DEF DataBytes
  <1> QED
    BY <1>3, <1>7, <1>10, <1>11, <1>12 DEF n, u

(* The elements in the m-th token that are no longer open, from a tree for each. *)
Kid(s, tree, m, opened, k) == IF ChildOf(s, k, m) /\ k \notin opened THEN <<tree[k]>> ELSE <<>>

Kids(s, tree, m, opened) == FlattenSeq([k \in 1..Len(s) |-> Kid(s, tree, m, opened, k)])

LEMMA KidTyped ==
    ASSUME NEW s, NEW tree, NEW m, NEW opened, NEW k, NEW S, tree[k] \in S
    PROVE  Kid(s, tree, m, opened, k) \in Seq(S)
  <1>1. <<tree[k]>> \in Seq(S) /\ <<>> \in Seq(S)
    OBVIOUS
  <1> QED
    BY <1>1 DEF Kid

(* What is in the m-th token is the same, whatever of it is open.               *)
SameKids(s, m, tree, tree2, opened, opened2) ==
    \A k \in 1..Len(s) : ChildOf(s, k, m) =>
       (k \in opened2 <=> k \in opened) /\ (k \notin opened => tree2[k] = tree[k])

LEMMA KidsGrown ==
    ASSUME NEW S, NEW s \in Seq(S), NEW t, NEW m \in 1..Len(s),
           NEW tree, NEW tree2, NEW opened, NEW opened2,
           SameKids(s, m, tree, tree2, opened, opened2)
    PROVE  Kids(Append(s, t), tree2, m, opened2)
              = Kids(s, tree, m, opened)
                   \o Kid(Append(s, t), tree2, m, opened2, Len(s) + 1)
  <1> DEFINE n == Len(s)
             u == Append(s, t)
             p == [k \in 1..n |-> Kid(s, tree, m, opened, k)]
             q == [k \in 1..(n + 1) |-> Kid(u, tree2, m, opened2, k)]
             T == {tree[k] : k \in 1..n} \cup {tree2[k] : k \in 1..(n + 1)}
  <1>1. n \in Nat /\ n + 1 \in Nat /\ Len(u) = n + 1 /\ n + 1 \in 1..(n + 1)
        /\ \A k \in 1..n : k \in 1..(n + 1)
    OBVIOUS
  <1>2. \A k \in 1..n : ChildOf(u, k, m) <=> ChildOf(s, k, m)
    BY LevelKept
  <1>3. (\A k \in 1..n : tree[k] \in T) /\ \A k \in 1..(n + 1) : tree2[k] \in T
    OBVIOUS
  <1>4. Kids(s, tree, m, opened) = FlattenSeq(p) /\ Kids(u, tree2, m, opened2) = FlattenSeq(q)
    BY <1>1 DEF Kids
  <1>5. \A k \in 1..n : Kid(u, tree2, m, opened2, k) = Kid(s, tree, m, opened, k)
    BY <1>2 DEF Kid, SameKids
  <1> HIDE DEF n, u, T
  <1>6. p \in [1..n -> Seq(T)] /\ q \in [1..(n + 1) -> Seq(T)]
    <2>1. \A k \in 1..n : Kid(s, tree, m, opened, k) \in Seq(T)
      BY <1>3, KidTyped
    <2>2. \A k \in 1..(n + 1) : Kid(u, tree2, m, opened2, k) \in Seq(T)
      BY <1>3, KidTyped
    <2> QED
      BY <2>1, <2>2
  <1>7. (\A k \in 1..n : q[k] = p[k]) /\ q[n + 1] = Kid(u, tree2, m, opened2, n + 1)
    BY <1>1, <1>5
  <1> HIDE DEF p, q
  <1>8. FlattenSeq(q) = FlattenSeq(p) \o q[n + 1]
    BY <1>1, <1>6, <1>7, FlattenGrown
  <1> QED
    BY <1>4, <1>7, <1>8 DEF n, u

LastChild(s, m, above) ==
    ChildOf(s, m, above) /\ \A k \in (m + 1)..Len(s) : ~ChildOf(s, k, above)

LEMMA KidsInsert ==
    ASSUME NEW S, NEW s \in Seq(S), NEW m \in 1..Len(s), NEW above, NEW tree, NEW opened,
           LastChild(s, m, above), m \in opened, NEW opened2, opened2 = opened \ {m}
    PROVE  Kids(s, tree, above, opened2) = Append(Kids(s, tree, above, opened), tree[m])
  <1> DEFINE n == Len(s)
             q == [k \in 1..n |-> Kid(s, tree, above, opened, k)]
             p == [k \in 1..n |-> Kid(s, tree, above, opened2, k)]
             T == {tree[k] : k \in 1..n}
  <1>1. n \in Nat /\ m \in 1..n
    OBVIOUS
  <1>2. (\A k \in 1..n : tree[k] \in T) /\ tree[m] \in T
    OBVIOUS
  <1>3. \A k \in 1..n : k # m => Kid(s, tree, above, opened2, k) = Kid(s, tree, above, opened, k)
    BY DEF Kid
  <1>4. Kid(s, tree, above, opened2, m) = <<tree[m]>> /\ Kid(s, tree, above, opened, m) = <<>>
    BY DEF Kid, LastChild
  <1>5. \A k \in (m + 1)..n : Kid(s, tree, above, opened, k) = <<>> /\ k \in 1..n
    BY <1>1 DEF Kid, LastChild
  <1>6. /\ Kids(s, tree, above, opened) = FlattenSeq(q)
        /\ Kids(s, tree, above, opened2) = FlattenSeq(p)
    BY DEF Kids
  <1> HIDE DEF n, T
  <1>7. p \in [1..n -> Seq(T)] /\ q \in [1..n -> Seq(T)]
    <2>1. \A k \in 1..n : Kid(s, tree, above, opened, k) \in Seq(T)
      BY <1>2, KidTyped
    <2>2. \A k \in 1..n : Kid(s, tree, above, opened2, k) \in Seq(T)
      BY <1>2, KidTyped
    <2> QED
      BY <2>1, <2>2
  <1>8. /\ \A k \in 1..n : k # m => p[k] = q[k]
        /\ p[m] = <<tree[m]>> /\ q[m] = <<>>
        /\ \A k \in (m + 1)..n : q[k] = <<>>
    BY <1>1, <1>3, <1>4, <1>5
  <1> HIDE DEF p, q
  <1>9. FlattenSeq(p) = Append(FlattenSeq(q), tree[m])
    <2>1. n \in Nat /\ m \in 1..n /\ tree[m] \in T
      BY <1>1, <1>2
    <2>2. Inserts(T, p, q, n, m, tree[m])
      BY <1>7, <1>8, <2>1 DEF Inserts
    <2> QED
      BY <2>2, FlattenInsert
  <1> QED
    BY <1>6, <1>9

LEMMA KidsCount ==
    ASSUME NEW S, NEW s \in Seq(S), NEW m, NEW tree, NEW opened
    PROVE  Len(Kids(s, tree, m, opened))
              = Cardinality({k \in 1..Len(s) : ChildOf(s, k, m) /\ k \notin opened})
  <1> DEFINE n == Len(s)
             p == [k \in 1..n |-> Kid(s, tree, m, opened, k)]
             T == {tree[k] : k \in 1..n}
  <1>1. n \in Nat /\ \A k \in 1..n : tree[k] \in T
    OBVIOUS
  <1>2. \A k \in 1..n : /\ p[k] # <<>> => Len(p[k]) = 1
                        /\ p[k] # <<>> <=> ChildOf(s, k, m) /\ k \notin opened
    <2> TAKE k \in 1..n
    <2>1. <<tree[k]>> # <<>> /\ Len(<<tree[k]>>) = 1
      OBVIOUS
    <2>2. p[k] = Kid(s, tree, m, opened, k)
      OBVIOUS
    <2> HIDE DEF p
    <2> QED
      BY <2>1, <2>2 DEF Kid
  <1>3. Kids(s, tree, m, opened) = FlattenSeq(p)
    BY DEF Kids
  <1> HIDE DEF n, T
  <1>4. p \in [1..n -> Seq(T)]
    <2>1. \A k \in 1..n : Kid(s, tree, m, opened, k) \in Seq(T)
      BY <1>1, KidTyped
    <2> QED
      BY <2>1
  <1> HIDE DEF p
  <1>5. Len(FlattenSeq(p)) = Cardinality({k \in 1..n : p[k] # <<>>})
    <2>1. n \in Nat
      BY <1>1
    <2>2. \A k \in 1..n : p[k] # <<>> => Len(p[k]) = 1
      BY <1>2
    <2> QED
      BY <2>1, <2>2, <1>4, FlattenSingles
  <1>6. {k \in 1..n : p[k] # <<>>} = {k \in 1..n : ChildOf(s, k, m) /\ k \notin opened}
    BY <1>2
  <1> QED
    BY <1>3, <1>5, <1>6 DEF n

(* Nothing is in a token that opens no element, or in the last one.            *)
LEMMA NothingIn ==
    ASSUME NEW S, NEW s \in Seq(S), NEW m, NEW tree, NEW opened,
           \A k \in 1..Len(s) : ~DirectlyIn(s, k, m)
    PROVE  DataIn(s, m, Len(s)) = <<>> /\ Kids(s, tree, m, opened) = <<>>
  <1>1. \A k \in 1..Len(s) : Kid(s, tree, m, opened, k) = <<>>
    BY DEF Kid, ChildOf
  <1>2. [k \in 1..Len(s) |-> Kid(s, tree, m, opened, k)] = [k \in 1..Len(s) |-> <<>>]
    BY <1>1
  <1>3. [k \in 1..Len(s) |-> IF DirectlyIn(s, k, m) THEN DataOf(s[k]) ELSE <<>>]
           = [k \in 1..Len(s) |-> <<>>]
    OBVIOUS
  <1>4. FlattenSeq([k \in 1..Len(s) |-> <<>>]) = <<>>
    BY FlattenSilent
  <1> QED
    BY <1>2, <1>3, <1>4 DEF Kids, DataIn

-----------------------------------------------------------------------------
(* The elements that are open.                                              *)

(* An element that has been closed, if it was opened at all.                  *)
Complete(s, m) ==
    Enters(s, m) => \E k \in (m + 1)..(Len(s) + 1) : Level(s, k) <= Level(s, m)

Opened(stack) == {stack[i] : i \in DOMAIN stack}

(* The start tags of the d calls in progress, outermost first: each has only  *)
(* what is deeper after it, and every other tag's element is complete.        *)
Stacked(s, stack, d) ==
    /\ stack \in [1..d -> 1..Len(s)]
    /\ \A i \in 1..d : /\ Enters(s, stack[i])
                       /\ Level(s, stack[i]) = i - 1
                       /\ \A k \in (stack[i] + 1)..(Len(s) + 1) : Level(s, k) >= i
    /\ Level(s, Len(s) + 1) = d
    /\ \A k \in 1..Len(s) : IsTag(s, k) /\ k \notin Opened(stack) => Complete(s, k)

LEMMA LevelsInt ==
    ASSUME NEW s PROVE \A n \in Nat \ {0} : Level(s, n) \in Int
  BY LevelSteps

LEMMA CompleteShut ==
    ASSUME NEW S, NEW s \in Seq(S), NEW d \in Nat, NEW stack, Stacked(s, stack, d),
           NEW m \in 1..Len(s), Complete(s, m)
    PROVE  /\ ~DirectlyIn(s, Len(s) + 1, m)
           /\ \A k \in 1..Len(s) : DirectlyIn(s, k, m) => k \notin Opened(stack)
  <1> SUFFICES ASSUME Enters(s, m) PROVE ~DirectlyIn(s, Len(s) + 1, m)
              /\ \A k \in 1..Len(s) : DirectlyIn(s, k, m) => k \notin Opened(stack)
    BY DEF DirectlyIn
  <1>1. PICK j \in (m + 1)..(Len(s) + 1) : Level(s, j) <= Level(s, m)
    BY DEF Complete
  <1>2. Level(s, j) \in Int /\ Level(s, m) \in Int
    BY LevelsInt
  <1>3. ~DirectlyIn(s, Len(s) + 1, m)
    BY <1>1, <1>2 DEF DirectlyIn
  <1>4. ASSUME NEW k \in 1..Len(s), DirectlyIn(s, k, m), k \in Opened(stack)
        PROVE  FALSE
    <2>1. PICK i \in 1..d : k = stack[i]
      BY <1>4 DEF Opened, Stacked
    <2>2. m < k /\ Level(s, k) = Level(s, m) + 1 /\ \A h \in (m + 1)..k : Level(s, h) > Level(s, m)
      BY <1>4 DEF DirectlyIn
    <2>3. j \in (k + 1)..(Len(s) + 1)
      BY <1>1, <1>2, <2>2
    <2>4. Level(s, k) = i - 1 /\ Level(s, j) >= i
      BY <2>1, <2>3 DEF Stacked
    <2> QED
      BY <1>1, <1>2, <2>2, <2>4
  <1> QED
    BY <1>3, <1>4

LEMMA CompleteKept ==
    ASSUME NEW S, NEW s \in Seq(S), NEW t, NEW m \in 1..Len(s), Complete(s, m)
    PROVE  Complete(Append(s, t), m)
  <1> DEFINE u == Append(s, t)
  <1>1. Len(u) = Len(s) + 1 /\ u[m] = s[m] /\ Len(s) \in Nat
    OBVIOUS
  <1>2. Enters(u, m) <=> Enters(s, m)
    BY <1>1 DEF Enters, IsTag
  <1>3. \A k \in 1..(Len(s) + 1) : Level(u, k) = Level(s, k)
    BY LevelKept
  <1> HIDE DEF u
  <1> SUFFICES ASSUME Enters(s, m)
               PROVE  \E k \in (m + 1)..(Len(u) + 1) : Level(u, k) <= Level(u, m)
    BY <1>2 DEF Complete, u
  <1>4. PICK k \in (m + 1)..(Len(s) + 1) : Level(s, k) <= Level(s, m)
    BY DEF Complete
  <1>5. k \in 1..(Len(s) + 1) /\ m \in 1..(Len(s) + 1) /\ k \in (m + 1)..(Len(u) + 1)
    BY <1>1
  <1> QED
    BY <1>3, <1>4, <1>5

(* The next token is in the innermost element.                              *)
LEMMA InnermostIs ==
    ASSUME NEW S, NEW s \in Seq(S), NEW d \in Nat, NEW stack, Stacked(s, stack, d)
    PROVE  \A m \in 1..Len(s) : DirectlyIn(s, Len(s) + 1, m) <=> d > 0 /\ m = stack[d]
  <1> TAKE m \in 1..Len(s)
  <1>1. Level(s, Len(s) + 1) = d /\ Level(s, m) \in Int
    BY LevelsInt DEF Stacked
  <1>2. ASSUME d > 0, m = stack[d] PROVE DirectlyIn(s, Len(s) + 1, m)
    <2>1. d \in 1..d
      BY <1>2
    <2>2. Enters(s, m) /\ Level(s, m) = d - 1
          /\ \A k \in (m + 1)..(Len(s) + 1) : Level(s, k) >= d
      BY <1>2, <2>1 DEF Stacked
    <2>3. \A k \in (m + 1)..(Len(s) + 1) : Level(s, k) \in Int
      <3>1. \A k \in (m + 1)..(Len(s) + 1) : k \in Nat \ {0}
        OBVIOUS
      <3> QED
        BY <3>1, LevelsInt
    <2> QED
      BY <1>1, <2>2, <2>3 DEF DirectlyIn
  <1>3. ASSUME DirectlyIn(s, Len(s) + 1, m) PROVE d > 0 /\ m = stack[d]
    <2>1. Enters(s, m) /\ Level(s, m) = d - 1
      BY <1>1, <1>3 DEF DirectlyIn
    <2>2. m \in Opened(stack)
      <3>1. ~Complete(s, m)
        BY <1>3, CompleteShut
      <3>2. IsTag(s, m)
        BY <2>1 DEF Enters
      <3> QED
        BY <3>1, <3>2 DEF Stacked
    <2>3. PICK i \in 1..d : m = stack[i]
      BY <2>2 DEF Opened, Stacked
    <2>4. Level(s, m) = i - 1
      BY <2>3 DEF Stacked
    <2> QED
      BY <2>1, <2>3, <2>4
  <1> QED
    BY <1>2, <1>3

(* An open element is in the one before, and nothing after it is in one further out. *)
Chained(s, stack, d) ==
    /\ \A i, j \in 1..d : DirectlyIn(s, stack[i], stack[j]) => i = j + 1
    /\ \A i, j \in 1..d : j < i =>
          \A k \in (stack[i] + 1)..(Len(s) + 1) : ~DirectlyIn(s, k, stack[j])
    /\ d > 1 => DirectlyIn(s, stack[d], stack[d - 1])

LEMMA OpenInOpen ==
    ASSUME NEW S, NEW s \in Seq(S), NEW d \in Nat, NEW stack, Stacked(s, stack, d)
    PROVE  /\ Chained(s, stack, d)
           /\ \A i, j \in 1..d : stack[i] = stack[j] => i = j
  <1>1. \A i \in 1..d : stack[i] \in 1..Len(s) /\ Level(s, stack[i]) = i - 1
    BY DEF Stacked
  <1>2. \A i \in 1..d : \A k \in (stack[i] + 1)..(Len(s) + 1) : Level(s, k) >= i
    BY DEF Stacked
  <1>3. \A i, j \in 1..d : DirectlyIn(s, stack[i], stack[j]) => i = j + 1
    BY <1>1 DEF DirectlyIn
  <1>4. ASSUME NEW i \in 1..d, NEW j \in 1..d, j < i,
               NEW k \in (stack[i] + 1)..(Len(s) + 1), DirectlyIn(s, k, stack[j])
        PROVE  FALSE
    <2>1. Level(s, k) = Level(s, stack[j]) + 1
      BY <1>4 DEF DirectlyIn
    <2>2. Level(s, k) >= i /\ Level(s, stack[j]) = j - 1
      BY <1>1, <1>2
    <2> QED
      BY <1>4, <2>1, <2>2
  <1>5. ASSUME d > 1 PROVE DirectlyIn(s, stack[d], stack[d - 1])
    <2>1. d \in 1..d /\ d - 1 \in 1..d
      BY <1>5
    <2>2. stack[d] \in 1..Len(s) /\ stack[d - 1] \in 1..Len(s)
      BY <1>1, <2>1
    <2>3. Level(s, stack[d]) = d - 1 /\ Level(s, stack[d - 1]) = (d - 1) - 1
      BY <1>1, <2>1
    <2>4. stack[d - 1] < stack[d]
      <3> SUFFICES ASSUME ~(stack[d - 1] < stack[d]) PROVE FALSE
        OBVIOUS
      <3>1. stack[d] # stack[d - 1]
        BY <2>3
      <3>2. stack[d - 1] \in (stack[d] + 1)..(Len(s) + 1)
        BY <2>2, <3>1
      <3>3. Level(s, stack[d - 1]) >= d
        BY <1>2, <2>1, <3>2
      <3> QED
        BY <2>3, <3>3
    <2>5. \A k \in (stack[d - 1] + 1)..stack[d] : Level(s, k) > Level(s, stack[d - 1])
      <3> TAKE k \in (stack[d - 1] + 1)..stack[d]
      <3>1. k \in (stack[d - 1] + 1)..(Len(s) + 1) /\ k \in Nat \ {0}
        BY <2>2
      <3>2. Level(s, k) >= d - 1 /\ Level(s, k) \in Int
        BY <1>2, <2>1, <3>1, LevelsInt
      <3> QED
        BY <2>3, <3>2
    <2>6. Enters(s, stack[d - 1])
      BY <2>1 DEF Stacked
    <2>7. Level(s, stack[d]) = Level(s, stack[d - 1]) + 1
      BY <2>3
    <2> QED
      BY <2>4, <2>5, <2>6, <2>7 DEF DirectlyIn
  <1>6. \A i, j \in 1..d : stack[i] = stack[j] => i = j
    BY <1>1
  <1> QED
    BY <1>3, <1>4, <1>5, <1>6 DEF Chained

(* One more token.                                                          *)
LEMMA StackGrown ==
    ASSUME NEW S, NEW s \in Seq(S), NEW d \in Nat, NEW stack, Stacked(s, stack, d), NEW t
    PROVE  LET u == Append(s, t)
               n == Len(s)
           IN  /\ Len(u) = n + 1 /\ n \in Nat
               /\ Level(u, n + 1) = d /\ Level(u, n + 2) = d + Steps(u, n + 1)
               /\ \A i \in 1..d : /\ stack[i] \in 1..n /\ stack[i] \in 1..(n + 1)
                                  /\ Enters(u, stack[i]) /\ Level(u, stack[i]) = i - 1
                                  /\ \A k \in (stack[i] + 1)..(n + 1) : Level(u, k) >= i
               /\ \A k \in 1..n : IsTag(u, k) /\ k \notin Opened(stack) => Complete(u, k)
  <1> DEFINE u == Append(s, t)
             n == Len(s)
  <1>1. Len(u) = n + 1 /\ n \in Nat /\ n + 1 \in Nat \ {0} /\ n + 1 \in 1..(n + 1)
        /\ \A k \in 1..n : u[k] = s[k] /\ k \in 1..(n + 1)
    OBVIOUS
  <1>2. \A k \in 1..(n + 1) : Level(u, k) = Level(s, k)
    BY LevelKept
  <1>3. \A k \in 1..n : (Enters(u, k) <=> Enters(s, k)) /\ (IsTag(u, k) <=> IsTag(s, k))
    BY <1>1 DEF Enters, IsTag
  <1>4. \A k \in 1..n : Complete(s, k) => Complete(u, k)
    BY CompleteKept
  <1> HIDE DEF u
  <1>5. Level(u, n + 1) = d
    BY <1>1, <1>2 DEF Stacked
  <1>6. Level(u, n + 2) = d + Steps(u, n + 1)
    <2>1. \A k \in Nat \ {0} : Level(u, k + 1) = Level(u, k) + Steps(u, k)
      BY LevelSteps
    <2>2. n + 1 \in Nat \ {0} /\ (n + 1) + 1 = n + 2
      BY <1>1
    <2>3. Level(u, (n + 1) + 1) = Level(u, n + 1) + Steps(u, n + 1)
      BY <2>1, <2>2
    <2> QED
      BY <1>5, <2>2, <2>3
  <1>7. ASSUME NEW i \in 1..d
        PROVE  /\ stack[i] \in 1..n /\ stack[i] \in 1..(n + 1)
               /\ Enters(u, stack[i]) /\ Level(u, stack[i]) = i - 1
               /\ \A k \in (stack[i] + 1)..(n + 1) : Level(u, k) >= i
    <2>1. stack[i] \in 1..n /\ Enters(s, stack[i]) /\ Level(s, stack[i]) = i - 1
          /\ \A k \in (stack[i] + 1)..(n + 1) : Level(s, k) >= i
      BY DEF Stacked
    <2>2. \A k \in (stack[i] + 1)..(n + 1) : k \in 1..(n + 1)
      BY <2>1
    <2> QED
      BY <1>1, <1>2, <1>3, <2>1, <2>2
  <1>8. \A k \in 1..n : IsTag(u, k) /\ k \notin Opened(stack) => Complete(u, k)
    BY <1>3, <1>4 DEF Stacked
  <1> QED
    BY <1>1, <1>5, <1>6, <1>7, <1>8 DEF u

(* A token that is no tag, or a tag that is closed at once.                   *)
LEMMA StackStays ==
    ASSUME NEW S, NEW s \in Seq(S), NEW d \in Nat, NEW stack, Stacked(s, stack, d), NEW t,
           t[1] # "close", t[1] = "tag" => t[4]
    PROVE  Stacked(Append(s, t), stack, d) /\ Complete(Append(s, t), Len(s) + 1)
  <1> DEFINE u == Append(s, t)
             n == Len(s)
  <1>1. /\ Len(u) = n + 1 /\ n \in Nat
        /\ Level(u, n + 1) = d /\ Level(u, n + 2) = d + Steps(u, n + 1)
        /\ \A i \in 1..d : /\ stack[i] \in 1..n /\ stack[i] \in 1..(n + 1)
                           /\ Enters(u, stack[i]) /\ Level(u, stack[i]) = i - 1
                           /\ \A k \in (stack[i] + 1)..(n + 1) : Level(u, k) >= i
        /\ \A k \in 1..n : IsTag(u, k) /\ k \notin Opened(stack) => Complete(u, k)
    BY StackGrown
  <1>2. u[n + 1] = t
    OBVIOUS
  <1> HIDE DEF u, n
  <1>3. ~Enters(u, n + 1) /\ ~Leaves(u, n + 1)
    BY <1>2 DEF Enters, Leaves, IsTag
  <1>4. Level(u, n + 2) = d
    BY <1>1, <1>3 DEF Steps
  <1>5. Complete(u, n + 1)
    BY <1>3 DEF Complete
  <1>6. \A i \in 1..d : \A k \in (stack[i] + 1)..(n + 2) : Level(u, k) >= i
    <2> TAKE i \in 1..d
    <2> TAKE k \in (stack[i] + 1)..(n + 2)
    <2>1. CASE k = n + 2
      BY <1>4, <2>1
    <2>2. CASE k # n + 2
      <3>1. k \in (stack[i] + 1)..(n + 1)
        BY <1>1, <2>2
      <3> QED
        BY <1>1, <3>1
    <2> QED
      BY <2>1, <2>2
  <1>7. \A k \in 1..(n + 1) : IsTag(u, k) /\ k \notin Opened(stack) => Complete(u, k)
    <2> TAKE k \in 1..(n + 1)
    <2>1. k = n + 1 \/ k \in 1..n
      BY <1>1
    <2> QED
      BY <1>1, <1>5, <2>1
  <1>8. stack \in [1..d -> 1..(n + 1)]
    <2>1. stack = [i \in 1..d |-> stack[i]]
      BY DEF Stacked
    <2> QED
      BY <1>1, <2>1
  <1>9. Len(u) + 1 = n + 2
    BY <1>1
  <1>10. Stacked(u, stack, d)
    BY <1>1, <1>4, <1>6, <1>7, <1>8, <1>9 DEF Stacked
  <1> QED
    BY <1>5, <1>10 DEF u, n

(* A start tag.                                                             *)
Pushed(stack, d, m) == [i \in 1..(d + 1) |-> IF i = d + 1 THEN m ELSE stack[i]]

LEMMA StackPushed ==
    ASSUME NEW S, NEW s \in Seq(S), NEW d \in Nat, NEW stack, Stacked(s, stack, d), NEW t,
           t[1] = "tag", ~t[4]
    PROVE  /\ Stacked(Append(s, t), Pushed(stack, d, Len(s) + 1), d + 1)
           /\ Opened(Pushed(stack, d, Len(s) + 1)) = Opened(stack) \cup {Len(s) + 1}
  <1> DEFINE u == Append(s, t)
             n == Len(s)
             longer == Pushed(stack, d, n + 1)
  <1>1. /\ Len(u) = n + 1 /\ n \in Nat
        /\ Level(u, n + 1) = d /\ Level(u, n + 2) = d + Steps(u, n + 1)
        /\ \A i \in 1..d : /\ stack[i] \in 1..n /\ stack[i] \in 1..(n + 1)
                           /\ Enters(u, stack[i]) /\ Level(u, stack[i]) = i - 1
                           /\ \A k \in (stack[i] + 1)..(n + 1) : Level(u, k) >= i
        /\ \A k \in 1..n : IsTag(u, k) /\ k \notin Opened(stack) => Complete(u, k)
    BY StackGrown
  <1>2. u[n + 1] = t
    OBVIOUS
  <1> HIDE DEF u, n
  <1>3. Enters(u, n + 1) /\ ~Leaves(u, n + 1)
    BY <1>2 DEF Enters, Leaves, IsTag
  <1>4. Level(u, n + 2) = d + 1
    BY <1>1, <1>3 DEF Steps
  <1>5. /\ longer[d + 1] = n + 1 /\ d + 1 \in 1..(d + 1)
        /\ \A i \in 1..d : longer[i] = stack[i] /\ i \in 1..(d + 1)
    BY DEF Pushed
  <1>6. DOMAIN longer = 1..(d + 1) /\ longer = [i \in 1..(d + 1) |-> longer[i]]
    BY DEF Pushed
  <1> HIDE DEF longer
  <1>7. \A i \in 1..(d + 1) : i = d + 1 \/ i \in 1..d
    OBVIOUS
  <1>8. ASSUME NEW i \in 1..(d + 1)
        PROVE  /\ longer[i] \in 1..(n + 1)
               /\ Enters(u, longer[i]) /\ Level(u, longer[i]) = i - 1
               /\ \A k \in (longer[i] + 1)..(n + 2) : Level(u, k) >= i
    <2>1. CASE i = d + 1
      <3>1. \A k \in (longer[i] + 1)..(n + 2) : k = n + 2
        BY <1>1, <1>5, <2>1
      <3> QED
        BY <1>1, <1>3, <1>4, <1>5, <2>1, <3>1
    <2>2. CASE i \in 1..d
      <3>1. longer[i] = stack[i]
        BY <1>5, <2>2
      <3>2. \A k \in (stack[i] + 1)..(n + 2) : k = n + 2 \/ k \in (stack[i] + 1)..(n + 1)
        BY <1>1, <2>2
      <3> QED
        BY <1>1, <1>4, <2>2, <3>1, <3>2
    <2> QED
      BY <1>7, <2>1, <2>2
  <1>9. Opened(longer) = Opened(stack) \cup {n + 1}
    <2>1. DOMAIN stack = 1..d
      BY DEF Stacked
    <2>2. Opened(longer) = {longer[i] : i \in 1..(d + 1)} /\ Opened(stack) = {stack[i] : i \in 1..d}
      BY <1>6, <2>1 DEF Opened
    <2>3. ASSUME NEW x \in Opened(longer) PROVE x \in Opened(stack) \cup {n + 1}
      <3>1. PICK i \in 1..(d + 1) : x = longer[i]
        BY <2>2
      <3> QED
        BY <1>5, <1>7, <2>2, <3>1
    <2>4. ASSUME NEW x \in Opened(stack) PROVE x \in Opened(longer)
      <3>1. PICK i \in 1..d : x = stack[i]
        BY <2>2
      <3>2. x = longer[i] /\ i \in 1..(d + 1)
        BY <1>5, <3>1
      <3> QED
        BY <2>2, <3>2
    <2>5. n + 1 \in Opened(longer)
      BY <1>5, <2>2
    <2> QED
      BY <2>3, <2>4, <2>5
  <1>10. \A k \in 1..(n + 1) : IsTag(u, k) /\ k \notin Opened(longer) => Complete(u, k)
    <2> TAKE k \in 1..(n + 1)
    <2>1. k = n + 1 \/ k \in 1..n
      BY <1>1
    <2> QED
      BY <1>1, <1>9, <2>1
  <1>11. longer \in [1..(d + 1) -> 1..(n + 1)]
    BY <1>6, <1>8
  <1>12. Len(u) + 1 = n + 2
    BY <1>1
  <1>13. Stacked(u, longer, d + 1)
    BY <1>1, <1>4, <1>8, <1>10, <1>11, <1>12 DEF Stacked
  <1> QED
    BY <1>9, <1>13 DEF u, n, longer

(* An end tag.                                                              *)
Popped(stack, d) == [i \in 1..(d - 1) |-> stack[i]]

LEMMA StackPopped ==
    ASSUME NEW S, NEW s \in Seq(S), NEW d \in Nat \ {0}, NEW stack, Stacked(s, stack, d), NEW t,
           t[1] = "close"
    PROVE  /\ Stacked(Append(s, t), Popped(stack, d), d - 1)
           /\ Opened(Popped(stack, d)) = Opened(stack) \ {stack[d]}
  <1> DEFINE u == Append(s, t)
             n == Len(s)
             shorter == Popped(stack, d)
             m == stack[d]
  <1>1. /\ Len(u) = n + 1 /\ n \in Nat
        /\ Level(u, n + 1) = d /\ Level(u, n + 2) = d + Steps(u, n + 1)
        /\ \A i \in 1..d : /\ stack[i] \in 1..n /\ stack[i] \in 1..(n + 1)
                           /\ Enters(u, stack[i]) /\ Level(u, stack[i]) = i - 1
                           /\ \A k \in (stack[i] + 1)..(n + 1) : Level(u, k) >= i
        /\ \A k \in 1..n : IsTag(u, k) /\ k \notin Opened(stack) => Complete(u, k)
    BY StackGrown
  <1>2. u[n + 1] = t
    OBVIOUS
  <1>3. \A i, j \in 1..d : stack[i] = stack[j] => i = j
    BY OpenInOpen
  <1> HIDE DEF u, n
  <1>4. ~Enters(u, n + 1) /\ Leaves(u, n + 1) /\ ~IsTag(u, n + 1)
    BY <1>2 DEF Enters, Leaves, IsTag
  <1>5. Level(u, n + 2) = d - 1
    BY <1>1, <1>4 DEF Steps
  <1>6. /\ \A i \in 1..(d - 1) : shorter[i] = stack[i] /\ i \in 1..d /\ i # d
        /\ DOMAIN shorter = 1..(d - 1) /\ shorter = [i \in 1..(d - 1) |-> shorter[i]]
    BY DEF Popped
  <1>7. d \in 1..d /\ \A i \in 1..d : i = d \/ i \in 1..(d - 1)
    OBVIOUS
  <1> HIDE DEF shorter
  <1>8. ASSUME NEW i \in 1..(d - 1)
        PROVE  /\ shorter[i] \in 1..(n + 1)
               /\ Enters(u, shorter[i]) /\ Level(u, shorter[i]) = i - 1
               /\ \A k \in (shorter[i] + 1)..(n + 2) : Level(u, k) >= i
    <2>1. shorter[i] = stack[i] /\ i \in 1..d
      BY <1>6
    <2>2. \A k \in (stack[i] + 1)..(n + 2) : k = n + 2 \/ k \in (stack[i] + 1)..(n + 1)
      BY <1>1, <2>1
    <2> QED
      BY <1>1, <1>5, <2>1, <2>2
  <1>9. Opened(shorter) = Opened(stack) \ {m}
    <2>1. DOMAIN stack = 1..d
      BY DEF Stacked
    <2> QED
      BY <1>3, <1>6, <1>7, <2>1 DEF Opened
  <1>10. Complete(u, m)
    <2>1. n + 2 \in (m + 1)..(Len(u) + 1)
      BY <1>1, <1>7
    <2>2. Level(u, n + 2) <= Level(u, m)
      BY <1>1, <1>5, <1>7
    <2> QED
      BY <2>1, <2>2 DEF Complete
  <1>11. \A k \in 1..(n + 1) : IsTag(u, k) /\ k \notin Opened(shorter) => Complete(u, k)
    <2> TAKE k \in 1..(n + 1)
    <2>1. k = n + 1 \/ k \in 1..n
      BY <1>1
    <2> QED
      BY <1>1, <1>4, <1>9, <1>10, <2>1
  <1>12. shorter \in [1..(d - 1) -> 1..(n + 1)]
    BY <1>6, <1>8
  <1>13. Len(u) + 1 = n + 2
    BY <1>1
  <1>14. Stacked(u, shorter, d - 1)
    BY <1>1, <1>5, <1>8, <1>11, <1>12, <1>13 DEF Stacked
  <1> QED
    BY <1>9, <1>14 DEF u, n, shorter, m

-----------------------------------------------------------------------------
(* The calls in progress.                                                   *)

(* The element of the m-th token, with this text and these children.          *)
Element(s, m, text, children) ==
    [name |-> LocalName(s[m][2]), attributes |-> AttributesOf(s[m]),
     text |-> text, children |-> children]

Drawn(s, tree, m) == Element(s, m, Trim(DataIn(s, m, Len(s))), Kids(s, tree, m, {}))

(* The same while it is open.                                               *)
Partly(s, tree, opened, m) == Element(s, m, DataIn(s, m, Len(s)), Kids(s, tree, m, opened))

Readable(s) == \A k \in 1..Len(s) : DataOf(s[k]) \in DataBytes

LEMMA ElementKept ==
    ASSUME NEW S, NEW s \in Seq(S), NEW t, NEW m \in 1..Len(s), NEW text, NEW children
    PROVE  Element(Append(s, t), m, text, children) = Element(s, m, text, children)
  <1>1. Append(s, t)[m] = s[m]
    OBVIOUS
  <1> QED
    BY <1>1 DEF Element

LEMMA KidsTyped ==
    ASSUME NEW S, NEW s \in Seq(S), NEW m, NEW tree, NEW opened
    PROVE  Kids(s, tree, m, opened) \in Seq({tree[k] : k \in 1..Len(s)})
  <1> DEFINE n == Len(s)
             T == {tree[k] : k \in 1..n}
             p == [k \in 1..n |-> Kid(s, tree, m, opened, k)]
  <1>1. n \in Nat /\ \A k \in 1..n : tree[k] \in T
    OBVIOUS
  <1> HIDE DEF T
  <1>2. \A k \in 1..n : Kid(s, tree, m, opened, k) \in Seq(T)
    BY <1>1, KidTyped
  <1>3. p \in [1..n -> Seq(T)]
    BY <1>2
  <1>4. Kids(s, tree, m, opened) = FlattenSeq(p)
    BY DEF Kids
  <1> HIDE DEF p, n
  <1>5. p \in Seq(Seq(T))
    BY <1>1, <1>3, FunctionIsSeq
  <1>6. FlattenSeq(p) \in Seq(T)
    BY <1>5, FlattenTyped
  <1> QED
    BY <1>4, <1>6 DEF T, n

(* Two trees are alike but for the elements that are open.                    *)
Alike(tree, tree2, n, opened) == \A k \in 1..n : k \notin opened => tree2[k] = tree[k]

(* What a token adds to an element that is open.                             *)
Grown(s, t, m, tree, tree2, opened, opened2) ==
    IF DirectlyIn(s, Len(s) + 1, m)
    THEN Element(s, m, DataIn(s, m, Len(s)) \o DataOf(t),
                 Kids(s, tree, m, opened) \o Kid(Append(s, t), tree2, m, opened2, Len(s) + 1))
    ELSE Partly(s, tree, opened, m)

LEMMA PartlyGrown ==
    ASSUME NEW S, NEW s \in Seq(S), NEW t, NEW m \in 1..Len(s),
           NEW tree, NEW tree2, NEW opened, NEW opened2,
           SameKids(s, m, tree, tree2, opened, opened2),
           Readable(s), DataOf(t) \in DataBytes
    PROVE  Partly(Append(s, t), tree2, opened2, m) = Grown(s, t, m, tree, tree2, opened, opened2)
  <1> DEFINE n == Len(s)
             u == Append(s, t)
             D == DirectlyIn(s, n + 1, m)
  <1>1. Len(u) = n + 1 /\ n \in Nat /\ n + 1 \in 1..(n + 1)
    OBVIOUS
  <1>2. DataIn(u, m, n + 1) = IF D THEN DataIn(s, m, n) \o DataOf(t) ELSE DataIn(s, m, n)
    BY DataGrown DEF Readable
  <1>3. Kids(u, tree2, m, opened2)
           = Kids(s, tree, m, opened) \o Kid(u, tree2, m, opened2, n + 1)
    BY KidsGrown
  <1>4. ~D => Kid(u, tree2, m, opened2, n + 1) = <<>>
    <2>1. DirectlyIn(u, n + 1, m) <=> D
      BY <1>1, LevelKept
    <2> QED
      BY <2>1 DEF Kid, ChildOf
  <1>5. Kids(s, tree, m, opened) \o <<>> = Kids(s, tree, m, opened)
    <2>1. Kids(s, tree, m, opened) \in Seq({tree[k] : k \in 1..Len(s)})
      BY KidsTyped
    <2>2. \A T : \A w \in Seq(T) : w \o <<>> = w
      OBVIOUS
    <2> QED
      BY <2>1, <2>2
  <1>6. Partly(u, tree2, opened2, m)
           = Element(s, m, DataIn(u, m, n + 1), Kids(u, tree2, m, opened2))
    BY <1>1, ElementKept DEF Partly
  <1> HIDE DEF u, n
  <1>7. CASE D
    BY <1>2, <1>3, <1>6, <1>7 DEF u, n, Grown
  <1>8. CASE ~D
    <2>1. Kids(u, tree2, m, opened2) = Kids(s, tree, m, opened)
      BY <1>3, <1>4, <1>5, <1>8
    <2>2. DataIn(u, m, n + 1) = DataIn(s, m, n)
      BY <1>2, <1>8
    <2> QED
      BY <1>6, <1>8, <2>1, <2>2 DEF Partly, u, n, Grown
  <1> QED
    BY <1>7, <1>8

(* An element that is complete stays as it is.                               *)
LEMMA DrawnKept ==
    ASSUME NEW S, NEW s \in Seq(S), NEW t, NEW d \in Nat, NEW stack, Stacked(s, stack, d),
           NEW m \in 1..Len(s), Complete(s, m),
           NEW tree, NEW tree2, Alike(tree, tree2, Len(s), Opened(stack)),
           Readable(s)
    PROVE  Drawn(Append(s, t), tree2, m) = Drawn(s, tree, m)
  <1> DEFINE n == Len(s)
             u == Append(s, t)
  <1>1. Len(u) = n + 1 /\ n \in Nat /\ n + 1 \in 1..(n + 1)
    OBVIOUS
  <1>2. /\ ~DirectlyIn(s, n + 1, m)
        /\ \A k \in 1..n : DirectlyIn(s, k, m) => k \notin Opened(stack)
    BY CompleteShut
  <1>3. DataIn(u, m, n + 1) = DataIn(s, m, n)
    BY <1>2, DataGrown DEF Readable
  <1>4. \A k \in 1..n : ChildOf(s, k, m) => tree2[k] = tree[k]
    BY <1>2 DEF ChildOf, Alike
  <1>5. Kids(u, tree2, m, {}) = Kids(s, tree, m, {}) \o Kid(u, tree2, m, {}, n + 1)
    <2>1. SameKids(s, m, tree, tree2, {}, {})
      BY <1>4 DEF SameKids
    <2> QED
      BY <2>1, KidsGrown
  <1>6. Kid(u, tree2, m, {}, n + 1) = <<>>
    <2>1. ~DirectlyIn(u, n + 1, m)
      BY <1>1, <1>2, LevelKept
    <2> QED
      BY <2>1 DEF Kid, ChildOf
  <1>7. Kids(s, tree, m, {}) \o <<>> = Kids(s, tree, m, {})
    <2>1. Kids(s, tree, m, {}) \in Seq({tree[k] : k \in 1..Len(s)})
      BY KidsTyped
    <2>2. \A T : \A w \in Seq(T) : w \o <<>> = w
      OBVIOUS
    <2> QED
      BY <2>1, <2>2
  <1>8. Drawn(u, tree2, m) = Element(s, m, Trim(DataIn(u, m, n + 1)), Kids(u, tree2, m, {}))
    BY <1>1, ElementKept DEF Drawn
  <1> HIDE DEF u, n
  <1> QED
    BY <1>3, <1>5, <1>6, <1>7, <1>8 DEF Drawn, u, n

(* The calls in progress hold what the tokens read so far draw of their elements, *)
(* and tree what they draw of the others.                                     *)
Nested(s, calls, stack, tree) ==
    /\ Stacked(s, stack, Len(calls))
    /\ Readable(s)
    /\ \A k \in 1..Len(s) : IsTag(s, k) /\ k \notin Opened(stack) => tree[k] = Drawn(s, tree, k)
    /\ \A i \in 1..Len(calls) : calls[i] = Partly(s, tree, Opened(stack), stack[i])

(* What the innermost call holds after a token that adds a child or none.       *)
Fuller(s, t, stack, tree, tree2, opened2, d) ==
    Element(s, stack[d], DataIn(s, stack[d], Len(s)) \o DataOf(t),
            Kids(s, tree, stack[d], Opened(stack))
              \o Kid(Append(s, t), tree2, stack[d], opened2, Len(s) + 1))

AlikeOpen(s, opened, opened2) == \A k \in 1..Len(s) : k \in opened2 <=> k \in opened

NestedOn(s, t, calls, stack, tree, tree2, opened2) ==
    /\ Readable(Append(s, t))
    /\ \A k \in 1..Len(s) : IsTag(Append(s, t), k) /\ k \notin Opened(stack) =>
          tree2[k] = Drawn(Append(s, t), tree2, k)
    /\ \A i \in 1..Len(calls) :
          Partly(Append(s, t), tree2, opened2, stack[i])
             = IF i = Len(calls) THEN Fuller(s, t, stack, tree, tree2, opened2, Len(calls))
               ELSE calls[i]

LEMMA NestedGrown ==
    ASSUME NEW S, NEW s \in Seq(S), NEW t, NEW C, NEW calls \in Seq(C), NEW stack, NEW tree,
           Nested(s, calls, stack, tree), DataOf(t) \in DataBytes,
           NEW tree2, Alike(tree, tree2, Len(s), Opened(stack)),
           NEW opened2, AlikeOpen(s, Opened(stack), opened2)
    PROVE  NestedOn(s, t, calls, stack, tree, tree2, opened2)
  <1> DEFINE n == Len(s)
             u == Append(s, t)
             d == Len(calls)
  <1>1. /\ n \in Nat /\ d \in Nat /\ Len(u) = n + 1
        /\ u[n + 1] = t /\ \A k \in 1..n : u[k] = s[k]
    OBVIOUS
  <1>2. Stacked(s, stack, d) /\ Readable(s)
    BY DEF Nested
  <1> HIDE DEF n, u, d
  <1>3. Readable(u)
    <2> SUFFICES \A k \in 1..(n + 1) : DataOf(u[k]) \in DataBytes
      BY <1>1 DEF Readable
    <2> TAKE k \in 1..(n + 1)
    <2>1. k = n + 1 \/ k \in 1..n
      BY <1>1
    <2> QED
      BY <1>1, <1>2, <2>1 DEF Readable, n
  <1>4. ASSUME NEW k \in 1..n, IsTag(u, k), k \notin Opened(stack)
        PROVE  tree2[k] = Drawn(u, tree2, k)
    <2>1. IsTag(s, k)
      BY <1>1, <1>4 DEF IsTag
    <2>2. tree[k] = Drawn(s, tree, k) /\ Complete(s, k)
      BY <1>4, <2>1 DEF Nested, Stacked, n
    <2>3. tree2[k] = tree[k]
      BY <1>4 DEF Alike, n
    <2>4. Drawn(u, tree2, k) = Drawn(s, tree, k)
      BY <1>1, <1>2, <2>2, DrawnKept DEF n, u
    <2> QED
      BY <2>2, <2>3, <2>4
  <1>5. ASSUME NEW i \in 1..d
        PROVE  Partly(u, tree2, opened2, stack[i])
                    = IF i = d THEN Fuller(s, t, stack, tree, tree2, opened2, d) ELSE calls[i]
    <2> DEFINE m == stack[i]
    <2>1. m \in 1..n /\ d \in 1..d /\ d > 0
      BY <1>1, <1>2 DEF Stacked, n
    <2>2. DirectlyIn(s, n + 1, m) <=> i = d
      <3>1. DirectlyIn(s, n + 1, m) <=> m = stack[d]
        BY <1>1, <1>2, <2>1, InnermostIs DEF n
      <3>2. m = stack[d] => i = d
        BY <1>1, <1>2, <2>1, OpenInOpen
      <3> QED
        BY <3>1, <3>2
    <2>3. calls[i] = Partly(s, tree, Opened(stack), m)
      BY DEF Nested, d
    <2> HIDE DEF m
    <2>4. SameKids(s, m, tree, tree2, Opened(stack), opened2)
      BY DEF SameKids, Alike, AlikeOpen
    <2>5. Partly(u, tree2, opened2, m) = Grown(s, t, m, tree, tree2, Opened(stack), opened2)
      BY <1>2, <2>1, <2>4, PartlyGrown DEF n, u
    <2>6. CASE i = d
      <3>1. Fuller(s, t, stack, tree, tree2, opened2, d)
               = Element(s, m, DataIn(s, m, n) \o DataOf(t),
                         Kids(s, tree, m, Opened(stack)) \o Kid(u, tree2, m, opened2, n + 1))
        BY <2>6 DEF Fuller, m, n, u
      <3> QED
        BY <2>2, <2>5, <2>6, <3>1 DEF m, Grown, n, u
    <2>7. CASE i # d
      BY <2>2, <2>3, <2>5, <2>7 DEF m, Grown, n
    <2> QED
      BY <2>6, <2>7
  <1> QED
    BY <1>3, <1>4, <1>5 DEF n, u, d, NestedOn

(* The calls after a token that adds no child.                               *)
Adds(s, t, calls, calls2, stack, tree) ==
    /\ Len(calls2) = Len(calls)
    /\ \A i \in 1..(Len(calls) - 1) : calls2[i] = calls[i]
    /\ Len(calls) > 0 =>
          calls2[Len(calls)] = Element(s, stack[Len(calls)],
                                       DataIn(s, stack[Len(calls)], Len(s)) \o DataOf(t),
                                       Kids(s, tree, stack[Len(calls)], Opened(stack)))

LEMMA NestedData ==
    ASSUME NEW S, NEW s \in Seq(S), NEW t, NEW C, NEW calls \in Seq(C), NEW stack, NEW tree,
           Nested(s, calls, stack, tree), DataOf(t) \in DataBytes,
           t[1] \notin {"tag", "close"},
           NEW calls2, Adds(s, t, calls, calls2, stack, tree)
    PROVE  Nested(Append(s, t), calls2, stack, tree)
  <1> DEFINE n == Len(s)
             u == Append(s, t)
             d == Len(calls)
             opened == Opened(stack)
  <1>1. n \in Nat /\ d \in Nat /\ u[n + 1] = t /\ Len(u) = n + 1 /\ n + 1 \in 1..(n + 1)
    OBVIOUS
  <1>2. Stacked(s, stack, d)
    BY DEF Nested
  <1>3. Stacked(u, stack, d)
    BY <1>1, <1>2, StackStays
  <1>4. Alike(tree, tree, n, opened)
    BY DEF Alike
  <1>5. /\ Readable(u)
        /\ \A k \in 1..n : IsTag(u, k) /\ k \notin opened => tree[k] = Drawn(u, tree, k)
        /\ \A i \in 1..d : Partly(u, tree, opened, stack[i])
              = IF i = d THEN Fuller(s, t, stack, tree, tree, opened, d) ELSE calls[i]
    <2>1. AlikeOpen(s, opened, opened)
      BY DEF AlikeOpen
    <2>2. NestedOn(s, t, calls, stack, tree, tree, opened)
      BY <1>4, <2>1, NestedGrown
    <2> QED
      BY <2>2 DEF NestedOn
  <1>6. ~IsTag(u, n + 1)
    BY <1>1 DEF IsTag
  <1> HIDE DEF n, u, d, opened
  <1>7. \A k \in 1..(n + 1) : IsTag(u, k) /\ k \notin opened => tree[k] = Drawn(u, tree, k)
    <2> TAKE k \in 1..(n + 1)
    <2>1. k = n + 1 \/ k \in 1..n
      BY <1>1
    <2> QED
      BY <1>5, <1>6, <2>1
  <1>8. d > 0 => Fuller(s, t, stack, tree, tree, opened, d) = calls2[d]
    <2>1. Kid(u, tree, stack[d], opened, n + 1) = <<>>
      BY <1>6 DEF Kid, ChildOf
    <2>2. Kids(s, tree, stack[d], opened) \o <<>> = Kids(s, tree, stack[d], opened)
      <3>1. Kids(s, tree, stack[d], opened) \in Seq({tree[k] : k \in 1..Len(s)})
        BY KidsTyped
      <3>2. \A T : \A w \in Seq(T) : w \o <<>> = w
        OBVIOUS
      <3> QED
        BY <3>1, <3>2
    <2>3. d > 0 => calls2[d] = Element(s, stack[d], DataIn(s, stack[d], n) \o DataOf(t),
                                       Kids(s, tree, stack[d], opened))
      BY DEF Adds, d, n, opened
    <2> QED
      BY <2>1, <2>2, <2>3 DEF Fuller, u, n, opened
  <1>9. \A i \in 1..d : calls2[i] = Partly(u, tree, opened, stack[i])
    <2> TAKE i \in 1..d
    <2>1. CASE i = d
      <3>1. d > 0
        BY <1>1, <2>1
      <3> QED
        BY <1>5, <1>8, <2>1, <3>1
    <2>2. CASE i # d
      <3>1. i \in 1..(d - 1)
        BY <1>1, <2>2
      <3>2. calls2[i] = calls[i]
        BY <3>1 DEF Adds, d
      <3> QED
        BY <1>5, <2>2, <3>2
    <2> QED
      BY <2>1, <2>2
  <1>10. Len(calls2) = d
    BY DEF Adds, d
  <1> QED
    BY <1>1, <1>3, <1>5, <1>7, <1>9, <1>10 DEF Nested, u, opened

LEMMA NoMore ==
    /\ \A T : \A w \in Seq(T) : w \o <<>> = w
    /\ \A T : \A w \in Seq(T) : \A x : w \o <<x>> = Append(w, x)
  OBVIOUS

LEMMA DataTyped ==
    ASSUME NEW S, NEW s \in Seq(S), NEW m \in 1..Len(s), Readable(s)
    PROVE  DataIn(s, m, Len(s)) \in DataBytes
  <1> DEFINE t == <<"doctype">>
  <1>1. DataOf(t) \in DataBytes
    BY DEF DataOf, DataBytes
  <1> HIDE DEF t
  <1> QED
    BY <1>1, DataGrown DEF Readable

LEMMA KidsSame ==
    ASSUME NEW s, NEW m, NEW tree, NEW opened, NEW opened2,
           \A k \in 1..Len(s) : ChildOf(s, k, m) => (k \in opened2 <=> k \in opened)
    PROVE  Kids(s, tree, m, opened2) = Kids(s, tree, m, opened)
  <1>1. \A k \in 1..Len(s) : Kid(s, tree, m, opened2, k) = Kid(s, tree, m, opened, k)
    BY DEF Kid
  <1>2. [k \in 1..Len(s) |-> Kid(s, tree, m, opened2, k)]
           = [k \in 1..Len(s) |-> Kid(s, tree, m, opened, k)]
    BY <1>1
  <1> QED
    BY <1>2 DEF Kids

(* The element of a start tag, as it begins.                                 *)
Leaf(t) == [name |-> LocalName(t[2]), attributes |-> AttributesOf(t),
            text |-> <<>>, children |-> <<>>]

With(tree, n, m, element) == [k \in 1..n |-> IF k = m THEN element ELSE tree[k]]

LEMMA LeafIs ==
    ASSUME NEW S, NEW s \in Seq(S), NEW t, NEW tree, NEW opened
    PROVE  /\ Partly(Append(s, t), tree, opened, Len(s) + 1) = Leaf(t)
           /\ Drawn(Append(s, t), tree, Len(s) + 1) = Leaf(t)
  <1> DEFINE u == Append(s, t)
             n == Len(s) + 1
  <1>1. u \in Seq(S \cup {t}) /\ Len(u) = n /\ u[n] = t /\ n \in Nat
    OBVIOUS
  <1> HIDE DEF u, n
  <1>2. \A k \in 1..Len(u) : ~DirectlyIn(u, k, n)
    BY <1>1 DEF DirectlyIn
  <1>3. /\ DataIn(u, n, Len(u)) = <<>>
        /\ Kids(u, tree, n, opened) = <<>> /\ Kids(u, tree, n, {}) = <<>>
    BY <1>1, <1>2, NothingIn
  <1>4. Trim(<<>>) = <<>>
    <2>1. {k \in DOMAIN <<>> : <<>>[k] # 32} = {}
      OBVIOUS
    <2> QED
      BY <2>1 DEF Trim
  <1> QED
    BY <1>1, <1>3, <1>4 DEF Partly, Drawn, Element, Leaf, u, n

LEMMA RecordUpdates ==
    ASSUME NEW a, NEW b, NEW c, NEW f, NEW e,
           e = [name |-> a, attributes |-> b, text |-> c, children |-> f], NEW x
    PROVE  /\ e.text = c /\ e.children = f /\ e.name = a /\ e.attributes = b
           /\ [e EXCEPT !.children = x] = [name |-> a, attributes |-> b, text |-> c, children |-> x]
           /\ [e EXCEPT !.text = x] = [name |-> a, attributes |-> b, text |-> x, children |-> f]
  <1>1. e.text = c /\ e.children = f /\ e.name = a /\ e.attributes = b
    OBVIOUS
  <1>2. [e EXCEPT !.children = x] = [name |-> a, attributes |-> b, text |-> c, children |-> x]
    OBVIOUS
  <1>3. [e EXCEPT !.text = x] = [name |-> a, attributes |-> b, text |-> x, children |-> f]
    OBVIOUS
  <1> QED
    BY <1>1, <1>2, <1>3
(* An element with one child more, with other text, and when it has been read.  *)
Adopting(e, child) == [e EXCEPT !.children = Append(@, child)]
Holding(e, text) == [e EXCEPT !.text = text]
Trimmed(e) == [e EXCEPT !.text = Trim(@)]

Gains(calls, calls2, element) ==
    /\ Len(calls2) = Len(calls)
    /\ \A i \in 1..(Len(calls) - 1) : calls2[i] = calls[i]
    /\ Len(calls) > 0 =>
          calls2[Len(calls)] = Adopting(calls[Len(calls)], element)

LEMMA ElementUpdates ==
    ASSUME NEW s, NEW m, NEW text, NEW children, NEW e, e = Element(s, m, text, children)
    PROVE  /\ e.text = text /\ e.children = children /\ e.name = LocalName(s[m][2])
           /\ \A x : Adopting(e, x) = Element(s, m, text, Append(children, x))
           /\ \A x : Holding(e, x) = Element(s, m, x, children)
           /\ Trimmed(e) = Element(s, m, Trim(text), children)
  <1>1. e = [name |-> LocalName(s[m][2]), attributes |-> AttributesOf(s[m]),
             text |-> text, children |-> children]
    BY DEF Element
  <1>2. e.text = text /\ e.children = children /\ e.name = LocalName(s[m][2])
    BY <1>1, RecordUpdates
  <1>3. \A y : /\ [e EXCEPT !.children = y] = Element(s, m, text, y)
               /\ [e EXCEPT !.text = y] = Element(s, m, y, children)
    BY <1>1, RecordUpdates DEF Element
  <1>4. \A x : Adopting(e, x) = Element(s, m, text, Append(children, x))
    BY <1>2, <1>3 DEF Adopting
  <1>5. Trimmed(e) = Element(s, m, Trim(text), children)
    BY <1>2, <1>3 DEF Trimmed
  <1>6. \A x : Holding(e, x) = Element(s, m, x, children)
    BY <1>3 DEF Holding
  <1> QED
    BY <1>2, <1>4, <1>5, <1>6

(* An empty element.                                                        *)
LEMMA NestedLeaf ==
    ASSUME NEW S, NEW s \in Seq(S), NEW t, NEW C, NEW calls \in Seq(C), NEW stack, NEW tree,
           Nested(s, calls, stack, tree), t[1] = "tag", t[4],
           NEW calls2, Gains(calls, calls2, Leaf(t))
    PROVE  Nested(Append(s, t), calls2, stack, With(tree, Len(s) + 1, Len(s) + 1, Leaf(t)))
  <1> DEFINE n == Len(s)
             u == Append(s, t)
             d == Len(calls)
             opened == Opened(stack)
             tree2 == With(tree, n + 1, n + 1, Leaf(t))
  <1>1. n \in Nat /\ d \in Nat /\ u[n + 1] = t /\ Len(u) = n + 1 /\ n + 1 \in 1..(n + 1)
    OBVIOUS
  <1>2. Stacked(s, stack, d) /\ Readable(s)
    BY DEF Nested
  <1>3. Stacked(u, stack, d)
    BY <1>1, <1>2, StackStays
  <1>4. /\ tree2[n + 1] = Leaf(t)
        /\ \A k \in 1..n : tree2[k] = tree[k]
    BY <1>1 DEF With
  <1>5. DataOf(t) = <<>> /\ DataOf(t) \in DataBytes
    BY DEF DataOf, DataBytes
  <1> HIDE DEF n, u, d, opened, tree2
  <1>6. Alike(tree, tree2, n, opened) /\ AlikeOpen(s, opened, opened)
    BY <1>4 DEF Alike, AlikeOpen
  <1>7. NestedOn(s, t, calls, stack, tree, tree2, opened)
    BY <1>5, <1>6, NestedGrown DEF n, opened
  <1>8. opened \subseteq 1..n
    <2>1. stack \in [1..d -> 1..n]
      BY <1>2 DEF Stacked, n
    <2> QED
      BY <2>1 DEF Opened, opened
  <1>9. \A k \in 1..(n + 1) : IsTag(u, k) /\ k \notin opened => tree2[k] = Drawn(u, tree2, k)
    <2> TAKE k \in 1..(n + 1)
    <2>1. CASE k = n + 1
      BY <1>4, <2>1, LeafIs DEF n, u
    <2>2. CASE k \in 1..n
      BY <1>7, <2>2 DEF NestedOn, n, u, opened
    <2> QED
      BY <1>1, <2>1, <2>2
  <1>10. d > 0 => Fuller(s, t, stack, tree, tree2, opened, d) = calls2[d]
    <2> SUFFICES ASSUME d > 0 PROVE Fuller(s, t, stack, tree, tree2, opened, d) = calls2[d]
      OBVIOUS
    <2> DEFINE m == stack[d]
               kids == Kids(s, tree, m, opened)
               data == DataIn(s, m, n)
    <2>1. d \in 1..d /\ m \in 1..n
      BY <1>1, <1>2 DEF Stacked, n
    <2>2. calls[d] = Element(s, m, data, kids)
      BY <2>1 DEF Nested, Partly, n, d, opened
    <2>3. calls2[d] = Adopting(calls[d], Leaf(t))
      BY DEF Gains, d
    <2>4. calls2[d] = Element(s, m, data, Append(kids, Leaf(t)))
      <3> HIDE DEF m, kids, data
      <3>1. Adopting(calls[d], Leaf(t))
               = Element(s, m, data, Append(kids, Leaf(t)))
        BY <2>2, ElementUpdates
      <3> QED
        BY <2>3, <3>1
    <2>5. Kid(u, tree2, m, opened, n + 1) = <<Leaf(t)>>
      <3>1. n + 1 \notin opened /\ IsTag(u, n + 1)
        BY <1>1, <1>8 DEF IsTag
      <3>2. DirectlyIn(s, n + 1, m)
        BY <1>2, <2>1, InnermostIs DEF n
      <3>3. DirectlyIn(u, n + 1, m)
        BY <1>1, <2>1, <3>2, LevelKept DEF n, u
      <3> QED
        BY <1>4, <3>1, <3>3 DEF Kid, ChildOf
    <2>6. data \in DataBytes /\ kids \in Seq({tree[k] : k \in 1..n})
      BY <1>2, <2>1, DataTyped, KidsTyped DEF n
    <2>7. Fuller(s, t, stack, tree, tree2, opened, d)
             = Element(s, m, data \o <<>>, kids \o <<Leaf(t)>>)
      BY <1>5, <2>5 DEF Fuller, n, u, opened
    <2> HIDE DEF m, kids, data
    <2>8. data \o <<>> = data /\ kids \o <<Leaf(t)>> = Append(kids, Leaf(t))
      BY <2>6, NoMore DEF DataBytes
    <2> QED
      BY <2>4, <2>7, <2>8
  <1>11. \A i \in 1..d : calls2[i] = Partly(u, tree2, opened, stack[i])
    <2> TAKE i \in 1..d
    <2>1. Partly(u, tree2, opened, stack[i])
             = IF i = d THEN Fuller(s, t, stack, tree, tree2, opened, d) ELSE calls[i]
      BY <1>7 DEF NestedOn, u, d
    <2>2. CASE i = d
      <3>1. d > 0
        BY <1>1, <2>2
      <3> QED
        BY <1>10, <2>1, <2>2, <3>1
    <2>3. CASE i # d
      <3>1. i \in 1..(d - 1)
        BY <1>1, <2>3
      <3>2. calls2[i] = calls[i]
        BY <3>1 DEF Gains, d
      <3> QED
        BY <2>1, <2>3, <3>2
    <2> QED
      BY <2>2, <2>3
  <1>12. Len(calls2) = d /\ Readable(u)
    BY <1>7 DEF Gains, NestedOn, d, u
  <1> QED
    BY <1>1, <1>3, <1>9, <1>11, <1>12 DEF Nested, u, opened, tree2, n

(* A token that is in no way a child.                                        *)
LEMMA NestedQuiet ==
    ASSUME NEW S, NEW s \in Seq(S), NEW t, NEW C, NEW calls \in Seq(C), NEW stack, NEW tree,
           Nested(s, calls, stack, tree), DataOf(t) = <<>>,
           NEW tree2, NEW opened2, t[1] = "tag" => Len(s) + 1 \in opened2,
           Len(calls) > 0
    PROVE  Fuller(s, t, stack, tree, tree2, opened2, Len(calls)) = calls[Len(calls)]
  <1> DEFINE n == Len(s)
             u == Append(s, t)
             d == Len(calls)
             opened == Opened(stack)
             m == stack[d]
             kids == Kids(s, tree, m, opened)
             data == DataIn(s, m, n)
  <1>1. n \in Nat /\ d \in 1..d /\ u[n + 1] = t
    OBVIOUS
  <1>2. Stacked(s, stack, d) /\ Readable(s)
    BY DEF Nested
  <1>3. m \in 1..n
    BY <1>1, <1>2 DEF Stacked
  <1>4. calls[d] = Element(s, m, data, kids)
    BY <1>1 DEF Nested, Partly
  <1>5. Kid(u, tree2, m, opened2, n + 1) = <<>>
    BY <1>1 DEF Kid, ChildOf, IsTag
  <1>6. data \in DataBytes /\ kids \in Seq({tree[k] : k \in 1..n})
    BY <1>2, <1>3, DataTyped, KidsTyped
  <1>7. Fuller(s, t, stack, tree, tree2, opened2, d) = Element(s, m, data \o <<>>, kids \o <<>>)
    BY <1>5 DEF Fuller
  <1> HIDE DEF m, kids, data
  <1>8. data \o <<>> = data /\ kids \o <<>> = kids
    BY <1>6, NoMore DEF DataBytes
  <1> QED
    BY <1>4, <1>7, <1>8

(* A start tag whose element has content.                                    *)
LEMMA NestedPush ==
    ASSUME NEW S, NEW s \in Seq(S), NEW t, NEW C, NEW calls \in Seq(C), NEW stack, NEW tree,
           Nested(s, calls, stack, tree), t[1] = "tag", ~t[4]
    PROVE  Nested(Append(s, t), Append(calls, Leaf(t)),
                  Pushed(stack, Len(calls), Len(s) + 1), tree)
  <1> DEFINE n == Len(s)
             u == Append(s, t)
             d == Len(calls)
             opened == Opened(stack)
             longer == Pushed(stack, d, n + 1)
             opened2 == Opened(longer)
             calls2 == Append(calls, Leaf(t))
  <1>1. /\ n \in Nat /\ d \in Nat /\ u[n + 1] = t /\ Len(u) = n + 1 /\ n + 1 \in 1..(n + 1)
        /\ Len(calls2) = d + 1 /\ calls2[d + 1] = Leaf(t) /\ \A i \in 1..d : calls2[i] = calls[i]
    OBVIOUS
  <1>2. Stacked(s, stack, d) /\ Readable(s)
    BY DEF Nested
  <1>3. Stacked(u, longer, d + 1) /\ opened2 = opened \cup {n + 1}
    BY <1>1, <1>2, StackPushed
  <1>4. longer[d + 1] = n + 1 /\ \A i \in 1..d : longer[i] = stack[i]
    BY <1>1 DEF Pushed
  <1>5. DataOf(t) = <<>> /\ DataOf(t) \in DataBytes
    BY DEF DataOf, DataBytes
  <1> HIDE DEF n, u, d, opened, opened2, longer, calls2
  <1>6. Alike(tree, tree, n, opened) /\ AlikeOpen(s, opened, opened2)
    BY <1>1, <1>3 DEF Alike, AlikeOpen, n
  <1>7. NestedOn(s, t, calls, stack, tree, tree, opened2)
    BY <1>5, <1>6, NestedGrown DEF n, opened
  <1>8. \A k \in 1..(n + 1) : IsTag(u, k) /\ k \notin opened2 => tree[k] = Drawn(u, tree, k)
    <2> TAKE k \in 1..(n + 1)
    <2>1. k = n + 1 \/ k \in 1..n
      BY <1>1
    <2> QED
      BY <1>3, <1>7, <2>1 DEF NestedOn, n, u, opened
  <1>9. \A i \in 1..(d + 1) : calls2[i] = Partly(u, tree, opened2, longer[i])
    <2> TAKE i \in 1..(d + 1)
    <2>1. CASE i = d + 1
      BY <1>1, <1>4, <2>1, LeafIs DEF n, u
    <2>2. CASE i \in 1..d
      <3>1. Partly(u, tree, opened2, stack[i])
               = IF i = d THEN Fuller(s, t, stack, tree, tree, opened2, d) ELSE calls[i]
        BY <1>7, <2>2 DEF NestedOn, u, d
      <3>2. i = d => Fuller(s, t, stack, tree, tree, opened2, d) = calls[d]
        <4> SUFFICES ASSUME i = d PROVE Fuller(s, t, stack, tree, tree, opened2, d) = calls[d]
          OBVIOUS
        <4>1. d > 0 /\ n + 1 \in opened2
          BY <1>1, <1>3, <2>2
        <4> QED
          BY <1>5, <4>1, NestedQuiet DEF n, d
      <3> QED
        BY <1>1, <1>4, <2>2, <3>1, <3>2
    <2> QED
      BY <1>1, <2>1, <2>2
  <1>10. Readable(u)
    BY <1>7 DEF NestedOn, u
  <1> QED
    BY <1>1, <1>3, <1>8, <1>9, <1>10 DEF Nested, u, opened2, n, d, longer, calls2

LEMMA FrontIs ==
    ASSUME NEW S, NEW w \in Seq(S), Len(w) > 0
    PROVE  /\ Front(w) \in Seq(S) /\ Len(Front(w)) = Len(w) - 1
           /\ \A i \in 1..(Len(w) - 1) : Front(w)[i] = w[i]
  <1>1. Len(w) - 1 \in 0..Len(w)
    OBVIOUS
  <1>2. Front(w) = SubSeq(w, 1, Len(w) - 1)
    BY DEF Front
  <1>3. SubSeq(w, 1, Len(w) - 1) \in Seq(S) /\ Len(SubSeq(w, 1, Len(w) - 1)) = Len(w) - 1
    BY <1>1, FirstOf
  <1>4. \A i \in 1..(Len(w) - 1) : SubSeq(w, 1, Len(w) - 1)[i] = w[i]
    OBVIOUS
  <1> QED
    BY <1>2, <1>3, <1>4

(* An end tag: the innermost element is complete, and in the one around it.     *)
LEMMA NestedPop ==
    ASSUME NEW S, NEW s \in Seq(S), NEW t, NEW C, NEW calls \in Seq(C), NEW stack, NEW tree,
           Nested(s, calls, stack, tree), t[1] = "close", Len(calls) > 0,
           NEW e, e = Trimmed(calls[Len(calls)]),
           NEW calls2, Gains(Front(calls), calls2, e)
    PROVE  Nested(Append(s, t), calls2, Popped(stack, Len(calls)),
                  With(tree, Len(s), stack[Len(calls)], e))
  <1> DEFINE n == Len(s)
             u == Append(s, t)
             d == Len(calls)
             opened == Opened(stack)
             m == stack[d]
             shorter == Popped(stack, d)
             opened2 == Opened(shorter)
             tree2 == With(tree, n, m, e)
  <1>1. /\ n \in Nat /\ d \in Nat \ {0} /\ d \in Nat /\ u[n + 1] = t /\ Len(u) = n + 1
        /\ n + 1 \in 1..(n + 1) /\ \A k \in 1..n : k \in 1..(n + 1)
    OBVIOUS
  <1>2. Stacked(s, stack, d) /\ Readable(s)
    BY DEF Nested
  <1>3. Stacked(u, shorter, d - 1) /\ opened2 = opened \ {m}
    BY <1>1, <1>2, StackPopped
  <1>4. \A i \in 1..(d - 1) : shorter[i] = stack[i]
    BY DEF Popped
  <1>5. DataOf(t) = <<>> /\ DataOf(t) \in DataBytes
    BY DEF DataOf, DataBytes
  <1>6. m \in 1..n /\ d \in 1..d /\ m \in opened /\ \A i \in 1..d : stack[i] \in 1..n
    <2>1. d \in 1..d /\ stack \in [1..d -> 1..n]
      BY <1>1, <1>2 DEF Stacked
    <2>2. DOMAIN stack = 1..d /\ \A i \in 1..d : stack[i] \in 1..n
      BY <2>1
    <2> QED
      BY <2>1, <2>2 DEF Opened
  <1>7. /\ \A i, j \in 1..d : DirectlyIn(s, stack[i], stack[j]) => i = j + 1
        /\ \A i, j \in 1..d : j < i =>
              \A k \in (stack[i] + 1)..(n + 1) : ~DirectlyIn(s, k, stack[j])
        /\ d > 1 => DirectlyIn(s, m, stack[d - 1])
    <2>1. Chained(s, stack, d)
      BY <1>1, <1>2, OpenInOpen
    <2> QED
      BY <2>1 DEF Chained
  <1>8. /\ \A k \in 1..(n + 1), j \in 1..n : DirectlyIn(u, k, j) <=> DirectlyIn(s, k, j)
        /\ \A k \in 1..n, j \in 1..n : ChildOf(u, k, j) <=> ChildOf(s, k, j)
    BY LevelKept
  <1>9. \A k \in opened : \E i \in 1..d : k = stack[i]
    BY <1>2 DEF Opened, Stacked
  <1>10. Len(Front(calls)) = d - 1 /\ \A i \in 1..(d - 1) : Front(calls)[i] = calls[i]
    BY <1>1, FrontIs
  <1>11. IsTag(s, m) /\ ~IsTag(u, n + 1)
    BY <1>1, <1>2, <1>6 DEF Stacked, Enters, IsTag
  <1>12. tree2[m] = e /\ \A k \in 1..n : k # m => tree2[k] = tree[k]
    BY <1>6 DEF With
  <1> HIDE DEF n, u, d, opened, opened2, m, shorter, tree2
  <1>13. Alike(tree, tree2, n, opened) /\ AlikeOpen(s, opened, opened)
    BY <1>6, <1>12 DEF Alike, AlikeOpen
  <1>14. NestedOn(s, t, calls, stack, tree, tree2, opened)
    BY <1>5, <1>13, NestedGrown DEF n, opened
  <1>15. \A i \in 1..d : Partly(u, tree2, opened, stack[i]) = calls[i]
    <2> TAKE i \in 1..d
    <2>1. Partly(u, tree2, opened, stack[i])
             = IF i = d THEN Fuller(s, t, stack, tree, tree2, opened, d) ELSE calls[i]
      BY <1>14 DEF NestedOn, u, d
    <2>2. Fuller(s, t, stack, tree, tree2, opened, d) = calls[d]
      BY <1>1, <1>5, NestedQuiet DEF n, d
    <2> QED
      BY <2>1, <2>2
  <1>16. Drawn(u, tree2, m) = e
    <2>1. calls[d] = Element(u, m, DataIn(u, m, n + 1), Kids(u, tree2, m, opened))
      BY <1>1, <1>6, <1>15 DEF Partly, m
    <2>2. e = Element(u, m, Trim(DataIn(u, m, n + 1)), Kids(u, tree2, m, opened))
      <3>1. Trimmed(calls[d])
               = Element(u, m, Trim(DataIn(u, m, n + 1)), Kids(u, tree2, m, opened))
        <4> DEFINE data == DataIn(u, m, n + 1)
                   kids == Kids(u, tree2, m, opened)
        <4>1. calls[d] = Element(u, m, data, kids)
          BY <2>1
        <4> HIDE DEF data, kids
        <4>2. Trimmed(calls[d]) = Element(u, m, Trim(data), kids)
          BY <4>1, ElementUpdates
        <4> QED
          BY <4>2 DEF data, kids
      <3> QED
        BY <3>1 DEF d
    <2>3. Kids(u, tree2, m, {}) = Kids(u, tree2, m, opened)
      <3>1. ASSUME NEW k \in 1..Len(u), ChildOf(u, k, m) PROVE k \in {} <=> k \in opened
        <4>1. DirectlyIn(u, k, m) /\ k # n + 1 /\ k \in 1..n
          BY <1>1, <1>11, <3>1 DEF ChildOf
        <4>2. DirectlyIn(s, k, m)
          BY <1>1, <1>6, <1>8, <4>1
        <4> SUFFICES ASSUME k \in opened PROVE FALSE
          OBVIOUS
        <4>3. PICK i \in 1..d : k = stack[i]
          BY <1>9
        <4>4. i = d + 1
          BY <1>6, <1>7, <4>2, <4>3 DEF m
        <4> QED
          BY <1>1, <4>3, <4>4
      <3> QED
        BY <3>1, KidsSame
    <2> QED
      BY <1>1, <2>2, <2>3 DEF Drawn
  <1>17. \A k \in 1..(n + 1) : IsTag(u, k) /\ k \notin opened2 => tree2[k] = Drawn(u, tree2, k)
    <2> TAKE k \in 1..(n + 1)
    <2> HAVE IsTag(u, k) /\ k \notin opened2
    <2>1. k # n + 1
      BY <1>11
    <2>2. k \in 1..n
      BY <1>1, <2>1
    <2>3. CASE k = m
      BY <1>12, <1>16, <2>3
    <2>4. CASE k # m
      <3>1. k \notin opened
        BY <1>3, <2>4
      <3> QED
        BY <1>14, <2>2, <3>1 DEF NestedOn, n, u, opened
    <2> QED
      BY <2>3, <2>4
  <1>18. ASSUME NEW i \in 1..(d - 1)
         PROVE  calls2[i] = Partly(u, tree2, opened2, stack[i])
    <2> DEFINE a == stack[i]
    <2>1. i \in 1..d /\ a \in 1..n /\ i < d
      BY <1>1, <1>6
    <2>2. Partly(u, tree2, opened, a) = calls[i]
      BY <1>15, <2>1
    <2>3. CASE i # d - 1
      <3>1. i \in 1..((d - 1) - 1)
        BY <1>1, <2>3
      <3>2. calls2[i] = calls[i]
        BY <1>10, <3>1 DEF Gains
      <3>3. Kids(u, tree2, a, opened2) = Kids(u, tree2, a, opened)
        <4>1. ASSUME NEW k \in 1..Len(u), ChildOf(u, k, a) PROVE k \in opened2 <=> k \in opened
          <5>1. k # m
            <6> SUFFICES ASSUME k = m PROVE FALSE
              OBVIOUS
            <6>1. DirectlyIn(s, m, a)
              BY <1>1, <1>6, <1>8, <2>1, <4>1 DEF ChildOf
            <6>2. d = i + 1
              BY <1>6, <1>7, <2>1, <6>1 DEF m
            <6> QED
              BY <1>1, <2>3, <6>2
          <5> QED
            BY <1>3, <5>1
        <4> QED
          BY <4>1, KidsSame
      <3> QED
        BY <2>2, <3>2, <3>3 DEF Partly
    <2>4. CASE i = d - 1
      <3>1. d > 1
        BY <1>1, <2>1, <2>4
      <3>2. calls2[i] = Adopting(calls[i], e)
        <4>1. Len(Front(calls)) > 0 /\ Front(calls)[d - 1] = calls[d - 1]
          BY <1>1, <1>10, <3>1
        <4> QED
          BY <1>10, <2>4, <4>1 DEF Gains
      <3>3. Kids(u, tree2, a, opened2) = Append(Kids(u, tree2, a, opened), tree2[m])
        <4>1. u \in Seq(S \cup {t}) /\ m \in 1..Len(u)
          BY <1>1, <1>6 DEF u
        <4>2. ChildOf(u, m, a)
          <5>1. DirectlyIn(s, m, a)
            BY <1>7, <2>4, <3>1
          <5>2. ChildOf(s, m, a)
            BY <1>11, <5>1 DEF ChildOf
          <5> QED
            BY <1>6, <1>8, <2>1, <5>2
        <4>3. \A k \in (m + 1)..Len(u) : ~ChildOf(u, k, a)
          <5> TAKE k \in (m + 1)..Len(u)
          <5>1. k \in 1..(n + 1) /\ k \in (stack[d] + 1)..(n + 1)
            BY <1>1, <1>6 DEF m
          <5>2. ~DirectlyIn(s, k, a)
            BY <1>6, <1>7, <2>1, <5>1
          <5> QED
            BY <1>8, <2>1, <5>1, <5>2 DEF ChildOf
        <4> QED
          <5>1. LastChild(u, m, a)
            BY <4>2, <4>3 DEF LastChild
          <5> HIDE DEF a
          <5> QED
            BY <1>3, <1>6, <4>1, <5>1, KidsInsert
      <3>4. Adopting(calls[i], e)
               = Element(u, a, DataIn(u, a, n + 1), Append(Kids(u, tree2, a, opened), e))
        <4> DEFINE data == DataIn(u, a, n + 1)
                   kids == Kids(u, tree2, a, opened)
        <4>1. calls[i] = Element(u, a, data, kids)
          BY <1>1, <2>2 DEF Partly
        <4> HIDE DEF a, data, kids
        <4>2. Adopting(calls[i], e) = Element(u, a, data, Append(kids, e))
          BY <4>1, ElementUpdates
        <4> QED
          BY <4>2 DEF data, kids
      <3> QED
        BY <1>1, <1>3, <1>12, <3>2, <3>3, <3>4 DEF Partly
    <2> QED
      BY <2>3, <2>4
  <1>19. \A i \in 1..(d - 1) : calls2[i] = Partly(u, tree2, opened2, shorter[i])
    BY <1>4, <1>18
  <1>20. Len(calls2) = d - 1 /\ Readable(u)
    BY <1>10, <1>14 DEF Gains, NestedOn, u
  <1> QED
    BY <1>1, <1>3, <1>17, <1>19, <1>20 DEF Nested, u, opened2, n, d, m, shorter, tree2

-----------------------------------------------------------------------------
(* What is wrong, and what is refused.                                      *)

(* What a token may be, case by case.                                        *)
StartTag(t) == /\ t[1] = "tag" /\ t[2] \in Name /\ t[3] \in Seq(Name \X Seq(Piece))
               /\ t[4] \in BOOLEAN

LEMMA MarkupKinds ==
    ASSUME NEW t \in Markup
    PROVE  \/ t = Eof \/ t = <<"doctype">>
           \/ t[1] \in {"pi", "comment"} /\ t[2] \in BOOLEAN
           \/ StartTag(t)
           \/ t[1] = "close" /\ t[2] \in Name
           \/ t \in Data
  BY DEF Markup, Data, StartTag

LEMMA DataNames == ASSUME NEW t \in Data PROVE t[1] \in {"byte", "entity", "cdata"}
  BY DEF Data, Piece

(* The innermost call, in terms of its tag.                                  *)
LEMMA InnermostHolds ==
    ASSUME NEW S, read \in Seq(S), NEW C, open \in Seq(C), NEW stack, NEW tree,
           Nested(read, open, stack, tree), open # <<>>
    PROVE  /\ Len(open) \in Nat /\ Len(open) > 0 /\ Innermost = open[Len(open)]
           /\ stack[Len(open)] \in 1..Len(read)
           /\ Innermost = Partly(read, tree, Opened(stack), stack[Len(open)])
           /\ Innermost.name = LocalName(read[stack[Len(open)]][2])
           /\ Innermost.text = DataIn(read, stack[Len(open)], Len(read))
           /\ Innermost.text \in DataBytes
           /\ Innermost.children = Kids(read, tree, stack[Len(open)], Opened(stack))
  <1> DEFINE d == Len(open)
             m == stack[d]
  <1>1. d \in Nat /\ d > 0 /\ d \in 1..d
    BY EmptySeq
  <1>2. Innermost = open[d]
    BY DEF Innermost, Last
  <1>3. m \in 1..Len(read) /\ Readable(read)
    BY <1>1 DEF Nested, Stacked
  <1>4. open[d] = Partly(read, tree, Opened(stack), m)
    BY <1>1 DEF Nested
  <1>5. open[d] = Element(read, m, DataIn(read, m, Len(read)), Kids(read, tree, m, Opened(stack)))
    BY <1>4 DEF Partly
  <1>6. DataIn(read, m, Len(read)) \in DataBytes
    BY <1>3, DataTyped
  <1> HIDE DEF d, m
  <1>7. /\ Innermost.name = LocalName(read[m][2])
        /\ Innermost.text = DataIn(read, m, Len(read))
        /\ Innermost.children = Kids(read, tree, m, Opened(stack))
    BY <1>2, <1>5, ElementUpdates
  <1> QED
    BY <1>1, <1>2, <1>3, <1>4, <1>6, <1>7 DEF d, m

(* The children of the innermost element have all been returned.              *)
Children(s, n, m) == {k \in 1..n : ChildOf(s, k, m)}

LEMMA InnermostChildren ==
    ASSUME NEW S, NEW s \in Seq(S), NEW t, NEW d \in Nat \ {0}, NEW stack,
           Stacked(s, stack, d), NEW tree
    PROVE  Len(Kids(s, tree, stack[d], Opened(stack)))
              = Cardinality(Children(Append(s, t), Len(s), stack[d]))
  <1> DEFINE m == stack[d]
             opened == Opened(stack)
             u == Append(s, t)
  <1>1. d \in Nat /\ d \in 1..d
    OBVIOUS
  <1>2. m \in 1..Len(s) /\ DOMAIN stack = 1..d
    BY <1>1 DEF Stacked
  <1>3. \A i, j \in 1..d : DirectlyIn(s, stack[i], stack[j]) => i = j + 1
    <2>1. Chained(s, stack, d)
      BY <1>1, OpenInOpen
    <2> QED
      BY <2>1 DEF Chained
  <1>4. \A k \in 1..Len(s) : ChildOf(s, k, m) => k \notin opened
    <2> SUFFICES ASSUME NEW k \in 1..Len(s), ChildOf(s, k, m), k \in opened PROVE FALSE
      OBVIOUS
    <2>1. PICK i \in 1..d : k = stack[i]
      BY <1>2 DEF Opened
    <2>2. i = d + 1
      BY <1>1, <1>3, <2>1 DEF ChildOf
    <2> QED
      BY <2>1, <2>2
  <1>5. \A k \in 1..Len(s) : ChildOf(u, k, m) <=> ChildOf(s, k, m)
    BY <1>2, LevelKept
  <1> HIDE DEF m, u, opened
  <1>6. Len(Kids(s, tree, m, opened))
           = Cardinality({k \in 1..Len(s) : ChildOf(s, k, m) /\ k \notin opened})
    BY KidsCount
  <1>7. {k \in 1..Len(s) : ChildOf(s, k, m) /\ k \notin opened}
           = {k \in 1..Len(s) : ChildOf(u, k, m)}
    BY <1>4, <1>5
  <1> QED
    BY <1>6, <1>7 DEF m, u, opened, Children

(* The errors of a start tag.                                               *)
LEMMA TagErrors ==
    ASSUME NEW t, StartTag(t)
    PROVE  TagError(t) # "" <=>
              \/ open # <<>> /\ Len(Innermost.children) >= max_children
              \/ Len(open) > max_element_depth
              \/ NoName(t[2])
              \/ \E k \in DOMAIN t[3] : Ill(t[3][k])
  <1>1. parse_attributes(t[3]) = {} <=> \E k \in DOMAIN t[3] : Ill(t[3][k])
    <2>1. parse_attributes(t[3])
             = IF \E k \in DOMAIN t[3] : Ill(t[3][k]) THEN {} ELSE {AttributesOf(t)}
      BY AttributesRead DEF StartTag
    <2> QED
      BY <2>1
  <1>2. TagError(t) # "" <=>
              \/ open # <<>> /\ Len(Innermost.children) >= max_children
              \/ Len(open) > max_element_depth
              \/ NoName(t[2])
              \/ parse_attributes(t[3]) = {}
    BY Zenon DEF TagError
  <1> QED
    BY <1>1, <1>2

(* The errors of a token, from the element it is in.                          *)
WrongIn(s, t, m) ==
    \/ t[1] = "close" /\ (NoName(t[2]) \/ LocalName(t[2]) # LocalName(s[m][2]))
    \/ t[1] = "byte" /\ Len(DataIn(s, m, Len(s))) > max_text_bytes
    \/ t[1] = "tag" /\ Cardinality({k \in 1..(Len(s) - 1) : ChildOf(s, k, m)}) >= max_children

WrongAlone(t, d) ==
    \/ t = Eof \/ t[1] = "doctype"
    \/ t[1] \in {"pi", "comment"} /\ ~t[2]
    \/ t[1] = "cdata" /\ ~t[3]
    \/ t[1] = "entity" /\ decode_entity(t[2]) = {}
    \/ t[1] \notin {"tag", "pi", "comment"} /\ ~Blank(t) /\ d = 0
    \/ t[1] = "tag" /\ \/ NoName(t[2])
                       \/ d > max_element_depth
                       \/ \E k \in DOMAIN t[3] : Ill(t[3][k])

LEMMA WrongSplit ==
    ASSUME NEW S, NEW s \in Seq(S), NEW t, NEW d \in Nat, NEW stack, Stacked(s, stack, d)
    PROVE  Wrong(Append(s, t), Len(s) + 1)
              <=> WrongAlone(t, d) \/ (d > 0 /\ WrongIn(Append(s, t), t, stack[d]))
  <1> DEFINE n == Len(s)
             u == Append(s, t)
  <1>1. n \in Nat /\ u[n + 1] = t /\ Len(u) = n + 1 /\ (n + 1) - 1 = n /\ n + 1 \in 1..(n + 1)
    OBVIOUS
  <1>2. Level(u, n + 1) = d
    <2>1. Level(u, n + 1) = Level(s, n + 1)
      BY <1>1, LevelKept
    <2> QED
      BY <2>1 DEF Stacked
  <1>3. \A m \in 1..n : DirectlyIn(u, n + 1, m) <=> d > 0 /\ m = stack[d]
    <2>1. \A m \in 1..n : DirectlyIn(u, n + 1, m) <=> DirectlyIn(s, n + 1, m)
      BY <1>1, LevelKept
    <2> QED
      BY <2>1, InnermostIs
  <1>4. d > 0 => stack[d] \in 1..n
    BY DEF Stacked
  <1> HIDE DEF u, n
  <1>5. (\E m \in 1..n : DirectlyIn(u, n + 1, m) /\ WrongIn(u, t, m))
           <=> d > 0 /\ WrongIn(u, t, stack[d])
    BY <1>3, <1>4
  <1>6. ASSUME NEW m \in 1..n
        PROVE  WrongIn(u, t, m) <=>
                 \/ t[1] = "close" /\ (NoName(t[2]) \/ LocalName(t[2]) # LocalName(u[m][2]))
                 \/ t[1] = "byte" /\ Len(DataIn(u, m, n + 1)) > max_text_bytes
                 \/ t[1] = "tag" /\ Cardinality({k \in 1..n : ChildOf(u, k, m)}) >= max_children
    BY <1>1 DEF WrongIn
  <1>7. Wrong(u, n + 1) <=> WrongAlone(t, d) \/ \E m \in 1..n : DirectlyIn(u, n + 1, m)
                                                                /\ WrongIn(u, t, m)
    <2> DEFINE W == \E m \in 1..n :
              /\ DirectlyIn(u, n + 1, m)
              /\ \/ t[1] = "close" /\ (NoName(t[2]) \/ LocalName(t[2]) # LocalName(u[m][2]))
                 \/ t[1] = "byte" /\ Len(DataIn(u, m, n + 1)) > max_text_bytes
                 \/ t[1] = "tag" /\ Cardinality({k \in 1..n : ChildOf(u, k, m)}) >= max_children
    <2>1. W <=> \E m \in 1..n : DirectlyIn(u, n + 1, m) /\ WrongIn(u, t, m)
      BY <1>6
    <2>2. Wrong(u, n + 1) <=> WrongAlone(t, d) \/ W
      BY <1>1, <1>2, Zenon DEF Wrong, WrongAlone, Ill
    <2> HIDE DEF W
    <2> QED
      BY <2>1, <2>2
  <1> QED
    BY <1>5, <1>7 DEF u, n

LEMMA WrongIsMalformed ==
    ASSUME NEW S, read \in Seq(S), NEW C, open \in Seq(C), NEW stack, NEW tree,
           Nested(read, open, stack, tree), at = "content" <=> open # <<>>, NEW t \in Markup
    PROVE  Wrong(Append(read, t), Len(read) + 1) <=> MalformedMarkup(t)
  <1> DEFINE n == Len(read)
             u == Append(read, t)
             d == Len(open)
             m == stack[d]
             W == WrongAlone(t, d) \/ (d > 0 /\ WrongIn(u, t, m))
  <1>1. n \in Nat /\ d \in Nat /\ (open # <<>> <=> d > 0) /\ Len(u) = n + 1 /\ u[n + 1] = t
    BY EmptySeq
  <1>2. Stacked(read, stack, d)
    BY DEF Nested
  <1>3. Wrong(u, n + 1) <=> W
    BY <1>1, <1>2, WrongSplit
  <1>4. InContent <=> d > 0
    BY <1>1 DEF InContent
  <1>5. d > 0 => /\ m \in 1..n
                 /\ Innermost.name = LocalName(read[m][2])
                 /\ Innermost.text = DataIn(read, m, n)
                 /\ Innermost.text \in DataBytes
                 /\ Innermost.children = Kids(read, tree, m, Opened(stack))
    BY <1>1, InnermostHolds
  <1>6. d > 0 => u[m] = read[m]
    BY <1>1, <1>5
  <1>7. d > 0 => DirectlyIn(read, n + 1, m)
    BY <1>1, <1>2, <1>5, InnermostIs
  <1>8. d > 0 => Len(Innermost.children) = Cardinality(Children(u, n, m))
    <2> SUFFICES ASSUME d > 0
                 PROVE  Len(Innermost.children) = Cardinality(Children(u, n, m))
      OBVIOUS
    <2>1. d \in Nat \ {0}
      BY <1>1
    <2>2. Len(Kids(read, tree, m, Opened(stack))) = Cardinality(Children(u, n, m))
      <3> HIDE DEF d
      <3> QED
        BY <1>2, <2>1, InnermostChildren
    <2> QED
      BY <1>5, <2>2
  <1>9. ASSUME d > 0, DataOf(t) \in DataBytes
        PROVE  DataIn(u, m, n + 1) = Innermost.text \o DataOf(t)
    <2>1. Readable(read)
      BY DEF Nested
    <2>2. DataIn(u, m, n + 1) = DataIn(read, m, n) \o DataOf(t)
      BY <1>5, <1>7, <1>9, <2>1, DataGrown DEF Readable
    <2> QED
      BY <1>5, <1>9, <2>2
  <1> SUFFICES W <=> MalformedMarkup(t)
    BY <1>3
  <1> HIDE DEF n, u, d, m
  <1>10. CASE t = Eof \/ t = <<"doctype">>
    <2>1. t = Eof \/ t[1] = "doctype"
      BY <1>10
    <2> QED
      BY <2>1 DEF WrongAlone, MalformedMarkup
  <1>11. CASE t[1] \in {"pi", "comment"} /\ t[2] \in BOOLEAN
    BY <1>11 DEF WrongAlone, WrongIn, MalformedMarkup, Skipped, Blank, Eof
  <1>12. CASE StartTag(t)
    <2>1. t[1] = "tag" /\ t # Eof
      BY <1>12 DEF StartTag, Eof
    <2>2. MalformedMarkup(t) <=> TagError(t) # ""
      BY <2>1 DEF MalformedMarkup
    <2>3. TagError(t) # "" <=>
              \/ open # <<>> /\ Len(Innermost.children) >= max_children
              \/ Len(open) > max_element_depth
              \/ NoName(t[2])
              \/ \E k \in DOMAIN t[3] : Ill(t[3][k])
      BY <1>12, TagErrors
    <2>4. WrongIn(u, t, m) <=> Cardinality(Children(u, n, m)) >= max_children
      <3>1. Len(u) - 1 = n
        BY <1>1
      <3> QED
        BY <2>1, <3>1 DEF WrongIn, Children
    <2>5. WrongAlone(t, d) <=> NoName(t[2]) \/ d > max_element_depth
                               \/ \E k \in DOMAIN t[3] : Ill(t[3][k])
      BY <2>1 DEF WrongAlone, Eof
    <2> QED
      BY <1>1, <1>8, <2>2, <2>3, <2>4, <2>5 DEF d
  <1>13. CASE t[1] = "close" /\ t[2] \in Name
    <2>1. MalformedMarkup(t) <=> (InContent => ~Closes(t))
      BY <1>13 DEF MalformedMarkup, Eof
    <2>2. WrongAlone(t, d) <=> d = 0
      BY <1>13 DEF WrongAlone, Blank, Eof
    <2>3. d > 0 => (WrongIn(u, t, m) <=> ~Closes(t))
      BY <1>5, <1>6, <1>13 DEF WrongIn, Closes
    <2> QED
      BY <1>1, <1>4, <2>1, <2>2, <2>3
  <1>14. CASE t \in Data
    <2>1. t[1] \in {"byte", "entity", "cdata"} /\ t # Eof
      BY <1>14, DataNames DEF Eof
    <2>2. MalformedMarkup(t) <=> /\ ~(Blank(t) /\ ~InContent)
                                 /\ InContent => WithItem(Innermost.text, t) = {}
      BY <2>1 DEF MalformedMarkup, Skipped
    <2>7. Blank(t) => t[1] = "byte"
      BY DEF Blank
    <2>3. WrongAlone(t, d) <=> \/ t[1] = "cdata" /\ ~t[3]
                               \/ t[1] = "entity" /\ decode_entity(t[2]) = {}
                               \/ d = 0 /\ ~Blank(t)
      BY <2>1 DEF WrongAlone
    <2>4. d > 0 => (WithItem(Innermost.text, t) = {} <=> Unfit(Innermost.text, t))
      BY <1>5, <1>14, ItemAdded
    <2>5. ASSUME d > 0, t[1] = "byte"
          PROVE  WrongIn(u, t, m) <=> Len(Innermost.text) + 1 > max_text_bytes
      <3>1. DataOf(t) = <<t[2]>> /\ DataOf(t) \in DataBytes
        BY <1>14, <2>5, DataIsText DEF DataOf
      <3>2. DataIn(u, m, n + 1) = Innermost.text \o <<t[2]>>
        BY <1>9, <2>5, <3>1
      <3>3. Len(Innermost.text \o <<t[2]>>) = Len(Innermost.text) + 1
        BY <1>5, <2>5, <3>1 DEF DataBytes
      <3> QED
        BY <1>1, <2>5, <3>2, <3>3 DEF WrongIn
    <2>6. t[1] # "byte" => ~WrongIn(u, t, m)
      BY <2>1 DEF WrongIn
    <2> QED
      BY <1>1, <1>4, <2>1, <2>2, <2>3, <2>4, <2>5, <2>6, <2>7 DEF Unfit
  <1> QED
    BY <1>10, <1>11, <1>12, <1>13, <1>14, MarkupKinds

-----------------------------------------------------------------------------
(* The tree of a whole document.                                            *)

(* The reference's recursive function, by its equation.                       *)
Branches(s, T) ==
    T = [m \in {k \in DOMAIN s : IsTag(s, k)} |->
            [name       |-> LocalName(s[m][2]),
             attributes |-> AttributesOf(s[m]),
             text       |-> Trim(DataIn(s, m, Len(s))),
             children   |-> FlattenSeq([k \in DOMAIN s |->
                               IF ChildOf(s, k, m) THEN <<T[k]>> ELSE <<>>])]]

LEMMA KidsAll ==
    ASSUME NEW S, NEW s \in Seq(S), NEW m, NEW T
    PROVE  Kids(s, T, m, {}) = FlattenSeq([k \in DOMAIN s |->
                                  IF ChildOf(s, k, m) THEN <<T[k]>> ELSE <<>>])
  <1>1. DOMAIN s = 1..Len(s)
    OBVIOUS
  <1>2. \A k \in 1..Len(s) : Kid(s, T, m, {}, k) = IF ChildOf(s, k, m) THEN <<T[k]>> ELSE <<>>
    BY DEF Kid
  <1>3. [k \in 1..Len(s) |-> Kid(s, T, m, {}, k)]
           = [k \in 1..Len(s) |-> IF ChildOf(s, k, m) THEN <<T[k]>> ELSE <<>>]
    BY <1>2
  <1> QED
    BY <1>1, <1>3 DEF Kids

LEMMA KidsAlike ==
    ASSUME NEW s, NEW m, NEW tree, NEW tree2,
           \A k \in 1..Len(s) : ChildOf(s, k, m) => tree2[k] = tree[k]
    PROVE  Kids(s, tree2, m, {}) = Kids(s, tree, m, {}) /\ Drawn(s, tree2, m) = Drawn(s, tree, m)
  <1>1. \A k \in 1..Len(s) : Kid(s, tree2, m, {}, k) = Kid(s, tree, m, {}, k)
    BY DEF Kid
  <1>2. [k \in 1..Len(s) |-> Kid(s, tree2, m, {}, k)] = [k \in 1..Len(s) |-> Kid(s, tree, m, {}, k)]
    BY <1>1
  <1>3. Kids(s, tree2, m, {}) = Kids(s, tree, m, {})
    BY <1>2 DEF Kids
  <1> QED
    BY <1>3 DEF Drawn

LEMMA BranchesDrawn ==
    ASSUME NEW S, NEW s \in Seq(S), NEW T
    PROVE  Branches(s, T) <=> T = [m \in {k \in DOMAIN s : IsTag(s, k)} |-> Drawn(s, T, m)]
  <1>1. \A m \in {k \in DOMAIN s : IsTag(s, k)} :
           Drawn(s, T, m)
            = [name       |-> LocalName(s[m][2]),
               attributes |-> AttributesOf(s[m]),
               text       |-> Trim(DataIn(s, m, Len(s))),
               children   |-> FlattenSeq([k \in DOMAIN s |->
                                 IF ChildOf(s, k, m) THEN <<T[k]>> ELSE <<>>])]
    BY KidsAll DEF Drawn, Element
  <1>2. [m \in {k \in DOMAIN s : IsTag(s, k)} |-> Drawn(s, T, m)]
          = [m \in {k \in DOMAIN s : IsTag(s, k)} |->
              [name       |-> LocalName(s[m][2]),
               attributes |-> AttributesOf(s[m]),
               text       |-> Trim(DataIn(s, m, Len(s))),
               children   |-> FlattenSeq([k \in DOMAIN s |->
                                 IF ChildOf(s, k, m) THEN <<T[k]>> ELSE <<>>])]]
    BY <1>1
  <1> QED
    BY <1>2 DEF Branches

LEMMA GreatestOf ==
    ASSUME NEW n \in Nat, NEW X \in SUBSET (1..n), X # {}
    PROVE  \E m \in X : \A k \in X : k <= m
  <1> DEFINE Y == {n - k : k \in X}
  <1>1. Y \subseteq Nat /\ Y # {}
    <2>1. \A k \in X : k \in 1..n /\ n - k \in Nat
      OBVIOUS
    <2>2. \A k \in X : n - k \in Y
      OBVIOUS
    <2>3. \A y \in Y : y \in Nat
      BY <2>1
    <2> HIDE DEF Y
    <2> QED
      BY <2>2, <2>3
  <1> HIDE DEF Y
  <1>2. PICK y \in Y : \A z \in Y : y <= z
    BY <1>1, LeastNatural
  <1>3. PICK m \in X : y = n - m
    BY DEF Y
  <1>4. \A k \in X : n - k \in Y
    BY DEF Y
  <1>5. \A k \in X : k <= m
    BY <1>2, <1>3, <1>4
  <1> QED
    BY <1>5

(* There is one such function: an element's children come after it.             *)
LEMMA TreesAre ==
    ASSUME NEW S, NEW s \in Seq(S), NEW tree,
           \A k \in 1..Len(s) : IsTag(s, k) => tree[k] = Drawn(s, tree, k)
    PROVE  \A k \in 1..Len(s) : IsTag(s, k) => Trees(s)[k] = tree[k]
  <1> DEFINE n == Len(s)
             D == {k \in DOMAIN s : IsTag(s, k)}
             W == [m \in D |-> tree[m]]
             F == CHOOSE T : Branches(s, T)
  <1>1. n \in Nat /\ D = {k \in 1..n : IsTag(s, k)} /\ D \subseteq 1..n
    OBVIOUS
  <1>2. \A k, m : ChildOf(s, k, m) => IsTag(s, k) /\ m < k
    BY DEF ChildOf, DirectlyIn
  <1>3. \A m \in D : W[m] = tree[m]
    OBVIOUS
  <1>4. \A m \in D : W[m] = Drawn(s, W, m)
    <2> TAKE m \in D
    <2>1. \A k \in 1..Len(s) : ChildOf(s, k, m) => W[k] = tree[k]
      BY <1>1, <1>2, <1>3
    <2> HIDE DEF W
    <2>2. Drawn(s, W, m) = Drawn(s, tree, m)
      BY <2>1, KidsAlike
    <2> QED
      BY <1>1, <1>3, <2>2
  <1>5. Branches(s, W)
    <2>1. W = [m \in D |-> W[m]]
      OBVIOUS
    <2> HIDE DEF W
    <2>2. W = [m \in D |-> Drawn(s, W, m)]
      BY <1>4, <2>1
    <2> QED
      BY <2>2, BranchesDrawn
  <1> HIDE DEF W
  <1>6. Branches(s, F)
    BY <1>5, Zenon
  <1>7. Trees(s) = F
    BY Zenon DEF Trees, Branches
  <1> HIDE DEF F
  <1>8. \A m \in D : F[m] = Drawn(s, F, m)
    <2>1. F = [m \in D |-> Drawn(s, F, m)]
      BY <1>6, BranchesDrawn
    <2> HIDE DEF D
    <2> QED
      BY <2>1
  <1> DEFINE Bad == {m \in D : F[m] # tree[m]}
  <1>9. Bad = {}
    <2> SUFFICES ASSUME Bad # {} PROVE FALSE
      OBVIOUS
    <2>1. PICK m \in Bad : \A k \in Bad : k <= m
      <3>1. Bad \in SUBSET (1..n)
        BY <1>1
      <3> HIDE DEF Bad
      <3> QED
        BY <1>1, <3>1, GreatestOf
    <2>2. m \in D /\ m \in 1..n /\ F[m] # tree[m]
      BY <1>1, <2>1
    <2>3. \A k \in 1..Len(s) : ChildOf(s, k, m) => F[k] = tree[k]
      <3> TAKE k \in 1..Len(s)
      <3> HAVE ChildOf(s, k, m)
      <3>1. k \in D /\ m < k
        BY <1>1, <1>2
      <3>2. k \notin Bad
        BY <2>1, <2>2, <3>1
      <3> QED
        BY <3>1, <3>2
    <2>4. Drawn(s, F, m) = Drawn(s, tree, m)
      BY <2>3, KidsAlike
    <2> QED
      BY <1>1, <1>8, <2>2, <2>4
  <1> QED
    BY <1>1, <1>7, <1>9

(* No tag comes before that of the root element.                             *)
Begun(s, stack, d) == \A k \in 1..Len(s) : IsTag(s, k) => d > 0 /\ stack[1] <= k

LEMMA TagsGrown ==
    ASSUME NEW S, NEW s \in Seq(S), NEW t
    PROVE  /\ Len(Append(s, t)) = Len(s) + 1 /\ Len(s) \in Nat
           /\ \A k \in 1..(Len(s) + 1) : k = Len(s) + 1 \/ k \in 1..Len(s)
           /\ \A k \in 1..Len(s) : IsTag(Append(s, t), k) <=> IsTag(s, k)
           /\ IsTag(Append(s, t), Len(s) + 1) <=> t[1] = "tag"
  <1>1. \A k \in 1..Len(s) : Append(s, t)[k] = s[k]
    OBVIOUS
  <1>2. Append(s, t)[Len(s) + 1] = t
    OBVIOUS
  <1>3. Len(Append(s, t)) = Len(s) + 1 /\ Len(s) \in Nat
    OBVIOUS
  <1>4. \A k \in 1..(Len(s) + 1) : k = Len(s) + 1 \/ k \in 1..Len(s)
    OBVIOUS
  <1> QED
    BY <1>1, <1>2, <1>3, <1>4 DEF IsTag

LEMMA BegunStays ==
    ASSUME NEW S, NEW s \in Seq(S), NEW t, NEW d \in Nat, NEW stack, Begun(s, stack, d),
           t[1] # "tag" \/ d > 0, Stacked(s, stack, d)
    PROVE  Begun(Append(s, t), stack, d)
  <1>1. d > 0 => stack[1] \in 1..Len(s)
    BY DEF Stacked
  <1> SUFFICES ASSUME NEW k \in 1..(Len(s) + 1), IsTag(Append(s, t), k)
               PROVE  d > 0 /\ stack[1] <= k
    BY TagsGrown DEF Begun
  <1>2. CASE k = Len(s) + 1
    BY <1>1, <1>2, TagsGrown
  <1>3. CASE k \in 1..Len(s)
    BY <1>3, TagsGrown DEF Begun
  <1> QED
    BY <1>2, <1>3, TagsGrown

LEMMA BegunPushed ==
    ASSUME NEW S, NEW s \in Seq(S), NEW t, NEW d \in Nat, NEW stack, Begun(s, stack, d),
           Stacked(s, stack, d)
    PROVE  Begun(Append(s, t), Pushed(stack, d, Len(s) + 1), d + 1)
  <1> DEFINE longer == Pushed(stack, d, Len(s) + 1)
  <1>1. d > 0 => stack[1] \in 1..Len(s) /\ longer[1] = stack[1]
    BY DEF Stacked, Pushed
  <1>2. d = 0 => longer[1] = Len(s) + 1
    BY DEF Pushed
  <1> HIDE DEF longer
  <1> SUFFICES ASSUME NEW k \in 1..(Len(s) + 1), IsTag(Append(s, t), k)
               PROVE  d + 1 > 0 /\ longer[1] <= k
    BY TagsGrown DEF Begun, longer
  <1>3. CASE k = Len(s) + 1
    BY <1>1, <1>2, <1>3, TagsGrown
  <1>4. CASE k \in 1..Len(s)
    <2>1. d > 0 /\ stack[1] <= k
      BY <1>4, TagsGrown DEF Begun
    <2> QED
      BY <1>1, <2>1
  <1> QED
    BY <1>3, <1>4, TagsGrown

LEMMA BegunPopped ==
    ASSUME NEW S, NEW s \in Seq(S), NEW t, NEW d \in Nat, d > 1, NEW stack, Begun(s, stack, d),
           Stacked(s, stack, d), t[1] = "close"
    PROVE  Begun(Append(s, t), Popped(stack, d), d - 1)
  <1>1. Popped(stack, d)[1] = stack[1] /\ d - 1 > 0
    BY DEF Popped
  <1>2. Begun(Append(s, t), stack, d)
    BY BegunStays
  <1> QED
    BY <1>1, <1>2 DEF Begun

(* The root, once every element is complete.                                 *)
LEMMA RootIs ==
    ASSUME NEW S, NEW s \in Seq(S), NEW m \in 1..Len(s), IsTag(s, m),
           \A k \in 1..Len(s) : IsTag(s, k) => m <= k
    PROVE  Root(s) = m
  <1>1. DOMAIN s = 1..Len(s)
    OBVIOUS
  <1>2. \A n \in 1..Len(s) :
           (IsTag(s, n) /\ \A k \in 1..Len(s) : IsTag(s, k) => n <= k) => n = m
    OBVIOUS
  <1> QED
    BY <1>1, <1>2 DEF Root

LEMMA RootReturned ==
    ASSUME NEW S, NEW s \in Seq(S), NEW calls, Len(calls) = 0, NEW stack, NEW tree,
           Nested(s, calls, stack, tree), NEW m \in 1..Len(s), IsTag(s, m),
           \A k \in 1..Len(s) : IsTag(s, k) => m <= k
    PROVE  Root(s) = m /\ Trees(s)[Root(s)] = tree[m]
  <1>1. Opened(stack) = {}
    BY DEF Nested, Stacked, Opened
  <1>2. \A k \in 1..Len(s) : IsTag(s, k) => tree[k] = Drawn(s, tree, k)
    BY <1>1 DEF Nested
  <1>3. Trees(s)[m] = tree[m]
    BY <1>2, TreesAre
  <1> QED
    BY <1>3, RootIs

(* The last of the calls is changed.                                         *)
LEMMA LastChanged ==
    ASSUME NEW C, NEW w \in Seq(C), Len(w) > 0, NEW e
    PROVE  /\ [w EXCEPT ![Len(w)] = e] \in Seq(C \cup {e})
           /\ Len([w EXCEPT ![Len(w)] = e]) = Len(w)
           /\ [w EXCEPT ![Len(w)] = e][Len(w)] = e
           /\ \A i \in 1..(Len(w) - 1) : [w EXCEPT ![Len(w)] = e][i] = w[i]
  <1> DEFINE v == [w EXCEPT ![Len(w)] = e]
  <1>1. Len(w) \in Nat /\ DOMAIN w = 1..Len(w) /\ \A i \in 1..Len(w) : w[i] \in C
    OBVIOUS
  <1>2. DOMAIN v = 1..Len(w) /\ v[Len(w)] = e /\ \A i \in 1..(Len(w) - 1) : v[i] = w[i]
    <2>1. Len(w) \in DOMAIN w /\ \A i \in 1..(Len(w) - 1) : i \in DOMAIN w /\ i # Len(w)
      <3>1. \A n \in Nat : n > 0 => n \in 1..n /\ \A i \in 1..(n - 1) : i \in 1..n /\ i # n
        OBVIOUS
      <3>2. Len(w) \in 1..Len(w) /\ \A i \in 1..(Len(w) - 1) : i \in 1..Len(w) /\ i # Len(w)
        BY <1>1, <3>1
      <3> QED
        BY <1>1, <3>2
    <2>2. v = [i \in DOMAIN w |-> IF i = Len(w) THEN e ELSE w[i]]
      OBVIOUS
    <2> HIDE DEF v
    <2>3. DOMAIN v = DOMAIN w /\ \A i \in DOMAIN w : v[i] = IF i = Len(w) THEN e ELSE w[i]
      BY <2>2
    <2> QED
      BY <1>1, <2>1, <2>3
  <1>3. v \in [1..Len(w) -> C \cup {e}]
    BY <1>1
  <1> HIDE DEF v
  <1>4. v \in Seq(C \cup {e}) /\ Len(v) = Len(w)
    BY <1>1, <1>3, FunctionIsSeq
  <1> QED
    BY <1>2, <1>4 DEF v

-----------------------------------------------------------------------------
(* The steps of parse_element.                                              *)

(* A document that has been read so far without an error.                     *)
XmlOpen ==
    /\ \E C : open \in Seq(C)
    /\ at = "content" <=> open # <<>>
    /\ \E stack, tree : Nested(read, open, stack, tree) /\ Begun(read, stack, Len(open))

(* A token that the parser goes past.                                        *)
Passed(t) ==
    /\ read \in Seq(Markup) /\ t \in Markup
    /\ verdict = Pending /\ XmlOpen
    /\ grammar = "xml" /\ grammar' = "xml" /\ read' = Append(read, t)

LEMMA CallsTyped ==
    ASSUME NEW C, open \in Seq(C)
    PROVE  Len(open) \in Nat /\ (open # <<>> <=> Len(open) > 0)
  BY EmptySeq

LEMMA XmlSkips ==
    ASSUME NEW t, Passed(t), SkipMarkup(t)
    PROVE  XmlOpen' /\ verdict' = Pending
  <1>1. PICK C : open \in Seq(C)
    BY DEF Passed, XmlOpen
  <1>2. PICK stack, tree : Nested(read, open, stack, tree) /\ Begun(read, stack, Len(open))
    BY DEF Passed, XmlOpen
  <1>3. /\ open' = open /\ at' = at /\ verdict' = verdict /\ read' = Append(read, t)
        /\ read \in Seq(Markup) /\ (at = "content" <=> open # <<>>)
        /\ t[1] \in {"pi", "comment"} \/ (Blank(t) /\ at # "content")
    BY DEF SkipMarkup, Passed, XmlOpen, Skipped, InContent
  <1>4. /\ DataOf(t) \in DataBytes /\ (Len(open) > 0 => DataOf(t) = <<>>)
        /\ t[1] \notin {"tag", "close"} /\ t[1] # "tag"
    <2>1. CASE t[1] \in {"pi", "comment"}
      BY <2>1 DEF DataOf, DataBytes
    <2>2. CASE Blank(t) /\ at # "content"
      <3>1. t[1] = "byte" /\ t[2] \in Byte
        BY <2>2 DEF Blank, Space, Byte
      <3>2. DataOf(t) = <<t[2]>>
        BY <3>1 DEF DataOf
      <3>3. ~(Len(open) > 0)
        BY <1>1, <1>3, <2>2, CallsTyped
      <3>4. t[2] \in DataByte
        BY <3>1 DEF DataByte
      <3>5. DataOf(t) \in DataBytes
        BY <3>2, <3>4 DEF DataBytes
      <3> QED
        BY <3>1, <3>3, <3>5
    <2> QED
      BY <1>3, <2>1, <2>2
  <1>5. Adds(read, t, open, open, stack, tree)
    <2> SUFFICES ASSUME Len(open) > 0
                 PROVE  open[Len(open)]
                          = Element(read, stack[Len(open)],
                                    DataIn(read, stack[Len(open)], Len(read)) \o DataOf(t),
                                    Kids(read, tree, stack[Len(open)], Opened(stack)))
      BY DEF Adds
    <2>1. /\ Innermost = open[Len(open)]
          /\ Innermost = Partly(read, tree, Opened(stack), stack[Len(open)])
          /\ Innermost.text = DataIn(read, stack[Len(open)], Len(read))
          /\ Innermost.text \in DataBytes
      BY <1>1, <1>2, <1>3, CallsTyped, InnermostHolds
    <2>2. \A w \in DataBytes : w \o <<>> = w
      BY NoMore DEF DataBytes
    <2> QED
      BY <1>4, <2>1, <2>2 DEF Partly
  <1>6. Nested(Append(read, t), open, stack, tree)
    BY <1>1, <1>2, <1>3, <1>4, <1>5, NestedData
  <1>7. Begun(Append(read, t), stack, Len(open))
    BY <1>1, <1>2, <1>3, <1>4, CallsTyped, BegunStays DEF Nested
  <1>8. at = "content" <=> open # <<>>
    BY DEF Passed, XmlOpen
  <1>9. verdict' = Pending
    BY <1>3 DEF Passed
  <1>10. Nested(read', open', stack, tree) /\ Begun(read', stack, Len(open'))
    BY <1>3, <1>6, <1>7
  <1> QED
    BY <1>1, <1>3, <1>8, <1>9, <1>10 DEF XmlOpen

LEMMA XmlAddsText ==
    ASSUME NEW t, Passed(t), AddText(t)
    PROVE  XmlOpen' /\ verdict' = Pending
  <1>1. PICK C : open \in Seq(C)
    BY DEF Passed, XmlOpen
  <1>2. PICK stack, tree : Nested(read, open, stack, tree) /\ Begun(read, stack, Len(open))
    BY DEF Passed, XmlOpen
  <1>3. /\ at' = at /\ verdict' = verdict /\ read' = Append(read, t)
        /\ t[1] \in {"byte", "entity", "cdata"} /\ read \in Seq(Markup) /\ t \in Markup
    BY DEF AddText, Passed
  <1>4. PICK text \in WithItem(Innermost.text, t) : open' = [open EXCEPT ![Len(open)].text = text]
    BY DEF AddText
  <1>5. at = "content" /\ open # <<>> /\ Len(open) > 0 /\ Len(open) \in Nat
    BY <1>1, CallsTyped DEF Passed, XmlOpen, AddText, InContent
  <1> DEFINE d == Len(open)
             m == stack[d]
             e == Holding(open[d], text)
  <1>6. /\ Innermost = open[d]
        /\ Innermost = Partly(read, tree, Opened(stack), m)
        /\ Innermost.text = DataIn(read, m, Len(read))
        /\ Innermost.text \in DataBytes
    BY <1>1, <1>2, <1>3, <1>5, InnermostHolds
  <1>7. t \in Data
    BY <1>3, MarkupKinds DEF StartTag, Eof
  <1>8. text = Innermost.text \o DataOf(t) /\ DataOf(t) \in DataBytes
    BY <1>4, <1>6, <1>7, ItemAdded
  <1>9. open' = [open EXCEPT ![d] = e]
    BY <1>4 DEF Holding
  <1>10. e = Element(read, m, text, Kids(read, tree, m, Opened(stack)))
    <2>1. open[d] = Element(read, m, DataIn(read, m, Len(read)), Kids(read, tree, m, Opened(stack)))
      BY <1>6 DEF Partly
    <2> HIDE DEF m, d
    <2> QED
      BY <2>1, ElementUpdates
  <1> HIDE DEF e
  <1>11. /\ open' \in Seq(C \cup {e}) /\ Len(open') = d /\ open'[d] = e
         /\ \A i \in 1..(d - 1) : open'[i] = open[i]
    BY <1>1, <1>5, <1>9, LastChanged
  <1>12. Adds(read, t, open, open', stack, tree)
    BY <1>6, <1>8, <1>10, <1>11 DEF Adds
  <1>13. Nested(Append(read, t), open', stack, tree)
    BY <1>1, <1>2, <1>3, <1>8, <1>12, NestedData
  <1>14. Begun(Append(read, t), stack, Len(open'))
    BY <1>1, <1>2, <1>3, <1>5, <1>11, BegunStays DEF Nested
  <1>15. open' # <<>>
    BY <1>5, <1>11
  <1>16. \E K : open' \in Seq(K)
    BY <1>11
  <1> QED
    BY <1>3, <1>5, <1>13, <1>14, <1>15, <1>16 DEF XmlOpen, Passed

(* A document that has been accepted.                                        *)
Rooted ==
    /\ value = Trees(read)[Root(read)]
    /\ Enters(read, Root(read)) => Level(read, Len(read)) = 1

(* What parse_element returns to the element around it.                       *)
LEMMA ElementReturned ==
    ASSUME NEW C, NEW calls \in Seq(C), NEW e, ReturnElement(e, calls)
    PROVE  /\ calls = <<>> => value' = e /\ verdict' = Accepted
           /\ calls # <<>> => /\ verdict' = verdict /\ at' = "content"
                              /\ Gains(calls, open', e) /\ open' # <<>>
                              /\ \E K : open' \in Seq(K)
           /\ calls = <<>> => Gains(calls, calls, e)
  <1>1. calls = <<>> => value' = e /\ verdict' = Accepted
    BY DEF ReturnElement
  <1>2. calls = <<>> => Gains(calls, calls, e)
    BY EmptySeq DEF Gains
  <1>3. ASSUME calls # <<>>
        PROVE  /\ verdict' = verdict /\ at' = "content"
               /\ Gains(calls, open', e) /\ open' # <<>>
               /\ \E K : open' \in Seq(K)
    <2> DEFINE d == Len(calls)
               f == Adopting(calls[d], e)
    <2>1. d > 0 /\ d \in Nat
      BY <1>3, EmptySeq
    <2>2. verdict' = verdict /\ at' = "content" /\ open' = [calls EXCEPT ![d] = f]
      BY <1>3 DEF ReturnElement, Adopting
    <2> HIDE DEF f
    <2>3. /\ open' \in Seq(C \cup {f}) /\ Len(open') = d /\ open'[d] = f
          /\ \A i \in 1..(d - 1) : open'[i] = calls[i]
      BY <2>1, <2>2, LastChanged
    <2>4. Gains(calls, open', e)
      BY <2>1, <2>3 DEF Gains, f
    <2>5. open' # <<>>
      BY <2>1, <2>3
    <2> QED
      BY <2>2, <2>3, <2>4, <2>5
  <1> QED
    BY <1>1, <1>2, <1>3

LEMMA XmlOpens ==
    ASSUME NEW t, Passed(t), OpenElement(t)
    PROVE  \/ verdict' = Pending /\ XmlOpen'
           \/ verdict' = Accepted /\ Rooted'
  <1>1. PICK C : open \in Seq(C)
    BY DEF Passed, XmlOpen
  <1>2. PICK stack, tree : Nested(read, open, stack, tree) /\ Begun(read, stack, Len(open))
    BY DEF Passed, XmlOpen
  <1>3. /\ t[1] = "tag" /\ read' = Append(read, t) /\ read \in Seq(Markup) /\ verdict = Pending
        /\ t \in Markup
    BY DEF OpenElement, Passed
  <1>4. StartTag(t)
    BY <1>3, MarkupKinds, DataNames DEF Eof
  <1>5. parse_attributes(t[3])
           = IF \E k \in DOMAIN t[3] : Ill(t[3][k]) THEN {} ELSE {AttributesOf(t)}
    BY <1>4, AttributesRead DEF StartTag
  <1>6. IF t[4] THEN ReturnElement(Leaf(t), open)
        ELSE open' = Append(open, Leaf(t)) /\ at' = "content" /\ verdict' = verdict
    <2>1. PICK attributes \in parse_attributes(t[3]) :
             LET element == [name |-> LocalName(t[2]), attributes |-> attributes,
                             text |-> <<>>, children |-> <<>>]
             IN  IF t[4] THEN ReturnElement(element, open)
                 ELSE /\ open' = Append(open, element)
                      /\ at' = "content"
                      /\ UNCHANGED <<verdict, value>>
      BY DEF OpenElement
    <2>2. attributes = AttributesOf(t)
      BY <1>5, <2>1
    <2> QED
      BY <2>1, <2>2 DEF Leaf
  <1>7. Len(open) \in Nat /\ (open # <<>> <=> Len(open) > 0) /\ Stacked(read, stack, Len(open))
    BY <1>1, <1>2, CallsTyped DEF Nested
  <1> DEFINE u == Append(read, t)
             n == Len(read)
             tree2 == With(tree, n + 1, n + 1, Leaf(t))
  <1>8. /\ Len(u) = n + 1 /\ n \in Nat /\ n + 1 \in 1..(n + 1) /\ tree2[n + 1] = Leaf(t)
        /\ u \in Seq(Markup) /\ u[n + 1] = t
    BY <1>3 DEF With
  <1> HIDE DEF u, n, tree2
  <1>9. CASE ~t[4]
    <2>1. open' = Append(open, Leaf(t)) /\ at' = "content" /\ verdict' = verdict
      BY <1>6, <1>9
    <2>2. Nested(u, open', Pushed(stack, Len(open), n + 1), tree)
      BY <1>1, <1>2, <1>3, <1>9, <2>1, NestedPush DEF u, n
    <2>3. Begun(u, Pushed(stack, Len(open), n + 1), Len(open) + 1)
      BY <1>2, <1>3, <1>7, BegunPushed DEF u, n
    <2>4. Len(open') = Len(open) + 1 /\ open' # <<>> /\ open' \in Seq(C \cup {Leaf(t)})
      BY <1>1, <2>1
    <2> QED
      BY <1>3, <2>1, <2>2, <2>3, <2>4 DEF XmlOpen, u
  <1>10. CASE t[4] /\ open # <<>>
    <2>1. ReturnElement(Leaf(t), open)
      BY <1>6, <1>10
    <2>2. /\ verdict' = verdict /\ at' = "content"
          /\ Gains(open, open', Leaf(t)) /\ open' # <<>>
          /\ \E K : open' \in Seq(K)
      BY <1>1, <1>10, <2>1, ElementReturned
    <2>3. Nested(u, open', stack, tree2)
      BY <1>1, <1>2, <1>3, <1>10, <2>2, NestedLeaf DEF u, n, tree2
    <2>4. Begun(u, stack, Len(open'))
      <3>1. Len(open') = Len(open)
        BY <2>2 DEF Gains
      <3> QED
        BY <1>2, <1>3, <1>7, <1>10, <3>1, BegunStays DEF u
    <2> QED
      BY <1>3, <2>2, <2>3, <2>4 DEF XmlOpen, u
  <1>11. CASE t[4] /\ open = <<>>
    <2>1. ReturnElement(Leaf(t), open)
      BY <1>6, <1>11
    <2>2. value' = Leaf(t) /\ verdict' = Accepted /\ Gains(open, open, Leaf(t))
      <3>1. open = <<>>
        BY <1>11
      <3>2. open = <<>> => value' = Leaf(t) /\ verdict' = Accepted
        BY <1>1, <2>1, ElementReturned
      <3>3. open = <<>> => Gains(open, open, Leaf(t))
        BY <1>1, <2>1, ElementReturned
      <3> QED
        BY <3>1, <3>2, <3>3
    <2>3. Nested(u, open, stack, tree2)
      BY <1>1, <1>2, <1>3, <1>11, <2>2, NestedLeaf DEF u, n, tree2
    <2>4. /\ IsTag(u, n + 1) /\ ~Enters(u, n + 1)
          /\ \A k \in 1..(n + 1) : IsTag(u, k) => n + 1 <= k
      <3>1. IsTag(u, n + 1) /\ ~Enters(u, n + 1)
        BY <1>3, <1>8, <1>11 DEF IsTag, Enters
      <3>2. \A k \in 1..n : ~IsTag(u, k)
        <4>1. \A k \in 1..n : ~IsTag(read, k)
          BY <1>2, <1>7, <1>11 DEF Begun, n
        <4> QED
          BY <1>3, <4>1, TagsGrown DEF u, n
      <3>3. \A k \in 1..(n + 1) : k = n + 1 \/ k \in 1..n
        BY <1>8
      <3> QED
        BY <1>8, <3>1, <3>2, <3>3
    <2>5. Root(u) = n + 1 /\ Trees(u)[Root(u)] = tree2[n + 1]
      <3>1. Len(open) = 0
        BY <1>7, <1>11
      <3> QED
        BY <1>8, <2>3, <2>4, <3>1, RootReturned
    <2>6. read' = u
      BY <1>3 DEF u
    <2> QED
      BY <1>8, <2>2, <2>4, <2>5, <2>6 DEF Rooted
  <1> QED
    BY <1>9, <1>10, <1>11

LEMMA XmlCloses ==
    ASSUME NEW t, Passed(t), CloseElement(t)
    PROVE  \/ verdict' = Pending /\ XmlOpen'
           \/ verdict' = Accepted /\ Rooted'
  <1>1. PICK C : open \in Seq(C)
    BY DEF Passed, XmlOpen
  <1>2. PICK stack, tree : Nested(read, open, stack, tree) /\ Begun(read, stack, Len(open))
    BY DEF Passed, XmlOpen
  <1>3. /\ t[1] = "close" /\ read' = Append(read, t) /\ read \in Seq(Markup) /\ verdict = Pending
        /\ open # <<>>
    BY DEF CloseElement, Passed, InContent, XmlOpen
  <1> DEFINE d == Len(open)
             e == Trimmed(open[d])
             calls == Front(open)
             u == Append(read, t)
             n == Len(read)
             m == stack[d]
             tree2 == With(tree, n, m, e)
  <1>4. d \in Nat /\ d > 0 /\ Stacked(read, stack, d)
    BY <1>1, <1>2, <1>3, CallsTyped DEF Nested
  <1>5. ReturnElement(e, calls)
    <2>1. Innermost = open[d]
      BY DEF Innermost, Last
    <2> QED
      BY <2>1 DEF CloseElement, Trimmed
  <1>6. calls \in Seq(C) /\ Len(calls) = d - 1
    BY <1>1, <1>4, FrontIs
  <1>7. /\ Len(u) = n + 1 /\ n \in Nat /\ u \in Seq(Markup \cup {t}) /\ read' = u
        /\ m \in 1..n /\ m \in 1..(n + 1) /\ tree2[m] = e
    <2>1. m \in 1..n
      BY <1>4 DEF Stacked
    <2> QED
      BY <1>3, <2>1 DEF With
  <1>8. /\ calls = <<>> => value' = e /\ verdict' = Accepted
        /\ calls # <<>> => /\ verdict' = verdict /\ at' = "content"
                           /\ Gains(calls, open', e) /\ open' # <<>>
                           /\ \E K : open' \in Seq(K)
        /\ calls = <<>> => Gains(calls, calls, e)
    BY <1>5, <1>6, ElementReturned
  <1>9. \A calls2 : Gains(calls, calls2, e) => Nested(u, calls2, Popped(stack, d), tree2)
    BY <1>1, <1>2, <1>3, <1>4, NestedPop
  <1> HIDE DEF u, n, d, m, e, calls, tree2
  <1>10. CASE calls # <<>>
    <2>1. d > 1
      BY <1>4, <1>6, <1>10, EmptySeq
    <2>2. /\ verdict' = verdict /\ at' = "content"
          /\ Gains(calls, open', e) /\ open' # <<>>
          /\ \E K : open' \in Seq(K)
      BY <1>8, <1>10
    <2>3. Nested(u, open', Popped(stack, d), tree2)
      BY <1>9, <2>2
    <2>4. Begun(u, Popped(stack, d), Len(open'))
      <3>1. Len(open') = d - 1
        BY <1>6, <2>2 DEF Gains
      <3>2. Begun(read, stack, d)
        BY <1>2 DEF d
      <3> QED
        BY <1>3, <1>4, <2>1, <3>1, <3>2, BegunPopped DEF u
    <2> QED
      BY <1>3, <1>7, <2>2, <2>3, <2>4 DEF XmlOpen
  <1>11. CASE calls = <<>>
    <2>1. d = 1 /\ Len(calls) = 0
      BY <1>4, <1>6, <1>11, EmptySeq
    <2>2. value' = e /\ verdict' = Accepted /\ Nested(u, calls, Popped(stack, d), tree2)
      BY <1>8, <1>9, <1>11
    <2>3. IsTag(u, m) /\ \A k \in 1..(n + 1) : IsTag(u, k) => m <= k
      <3>1. Begun(u, stack, d)
        <4>1. Begun(read, stack, d)
          BY <1>2 DEF d
        <4> QED
          BY <1>3, <1>4, <4>1, BegunStays DEF u
      <3>2. IsTag(read, m)
        BY <1>4, <2>1 DEF Stacked, Enters, m
      <3>3. IsTag(u, m)
        BY <1>3, <1>7, <3>2, TagsGrown DEF u, n
      <3> QED
        BY <1>7, <2>1, <3>1, <3>3 DEF Begun, m
    <2>4. Root(u) = m /\ Trees(u)[Root(u)] = tree2[m]
      BY <1>7, <2>1, <2>2, <2>3, RootReturned
    <2>5. Level(u, n + 1) = 1
      <3>1. Level(u, n + 1) = Level(read, n + 1)
        <4>1. n + 1 \in 1..(Len(read) + 1)
          BY <1>7 DEF n
        <4> QED
          BY <1>3, <4>1, LevelKept DEF u
      <3>2. Level(read, n + 1) = d
        BY <1>4 DEF Stacked, n
      <3> QED
        BY <2>1, <3>1, <3>2
    <2> QED
      BY <1>7, <2>2, <2>4, <2>5 DEF Rooted
  <1> QED
    BY <1>10, <1>11

RefusedWhenWrong ==
    grammar = "xml" /\ read # <<>> =>
        (Wrong(read, Len(read)) <=> verdict \notin {Pending, Accepted})

(* The parser at work is the one its stage is for; until it ends, the calls in   *)
(* progress are the elements that are open, each as far as it has been read.    *)
XmlInv ==
    /\ grammar = "xml" => /\ stage # "json" /\ read \in Seq(Markup)
                          /\ verdict = Pending => XmlOpen
    /\ XmlReturnsItsTree
    /\ RefusedWhenWrong

LEMMA XmlUnread == grammar' # "xml" => XmlInv'
  BY DEF XmlInv, XmlReturnsItsTree, RefusedWhenWrong

LEMMA XmlStays ==
    ASSUME XmlInv, UNCHANGED document, stage' # "json" \/ stage' = stage
    PROVE  XmlInv'
  <1>1. /\ grammar' = grammar /\ read' = read /\ open' = open /\ at' = at
        /\ verdict' = verdict /\ value' = value
    BY DEF document
  <1>2. XmlOpen => XmlOpen'
    BY <1>1 DEF XmlOpen
  <1>3. XmlReturnsItsTree' /\ RefusedWhenWrong'
    BY <1>1 DEF XmlInv, XmlReturnsItsTree, RefusedWhenWrong
  <1> QED
    BY <1>1, <1>2, <1>3 DEF XmlInv

LEMMA NothingOpen == \E stack, tree : Nested(<<>>, <<>>, stack, tree) /\ Begun(<<>>, stack, 0)
  <1>1. Level(<<>>, 1) = 0
    BY LevelSteps
  <1>2. Stacked(<<>>, <<>>, 0)
    BY <1>1 DEF Stacked
  <1>3. Nested(<<>>, <<>>, <<>>, <<>>)
    BY <1>2 DEF Nested, Readable
  <1>4. Begun(<<>>, <<>>, 0)
    BY DEF Begun
  <1> QED
    BY <1>3, <1>4

LEMMA XmlStarts == XmlBegins /\ stage' = "xml" => XmlInv'
  <1> SUFFICES ASSUME XmlBegins, stage' = "xml" PROVE XmlInv'
    OBVIOUS
  <1>1. read' = <<>> /\ open' = <<>> /\ at' = "prolog" /\ verdict' = Pending /\ grammar' = "xml"
    BY DEF XmlBegins, Turn
  <1>2. XmlOpen'
    <2>1. \E stack, tree : Nested(read', open', stack, tree) /\ Begun(read', stack, Len(open'))
      BY <1>1, NothingOpen
    <2>2. \E C : open' \in Seq(C)
      BY <1>1
    <2> QED
      BY <1>1, <2>1, <2>2 DEF XmlOpen
  <1>3. XmlReturnsItsTree' /\ RefusedWhenWrong'
    BY <1>1 DEF XmlReturnsItsTree, RefusedWhenWrong, Pending, Accepted
  <1> QED
    BY <1>1, <1>2, <1>3 DEF XmlInv

(* The verdict on one token.                                                *)
LEMMA PassedOrRefused ==
    ASSUME NEW t, Passed(t)
    PROVE  Wrong(read', Len(read')) <=> MalformedMarkup(t)
  <1>1. PICK C : open \in Seq(C)
    BY DEF Passed, XmlOpen
  <1>2. PICK stack, tree : Nested(read, open, stack, tree)
    BY DEF Passed, XmlOpen
  <1>3. /\ read \in Seq(Markup) /\ t \in Markup /\ read' = Append(read, t)
        /\ at = "content" <=> open # <<>>
    BY DEF Passed, XmlOpen
  <1>4. Len(Append(read, t)) = Len(read) + 1
    BY <1>3
  <1> QED
    BY <1>1, <1>2, <1>3, <1>4, WrongIsMalformed

LEMMA NotTheEnd == \A t : t[1] # "mark" => t # Eof
  BY DEF Eof

LEMMA Unmalformed ==
    ASSUME NEW t, SkipMarkup(t) \/ OpenElement(t) \/ CloseElement(t) \/ AddText(t)
    PROVE  ~MalformedMarkup(t)
  <1>1. CASE SkipMarkup(t)
    <2>1. (t[1] = "pi" \/ t[1] = "comment" \/ t[1] = "byte") /\ Skipped(t)
      BY <1>1 DEF SkipMarkup, Skipped, Blank
    <2>2. t # Eof
      BY <2>1, NotTheEnd
    <2> QED
      BY <2>1, <2>2, Zenon DEF MalformedMarkup
  <1>2. CASE OpenElement(t)
    <2>1. t[1] = "tag" /\ ~(TagError(t) # "")
      BY <1>2, Zenon DEF OpenElement
    <2>2. t # Eof
      BY <2>1, NotTheEnd
    <2> QED
      BY <2>1, <2>2, Zenon DEF MalformedMarkup
  <1>3. CASE CloseElement(t)
    <2>1. t[1] = "close" /\ InContent /\ Closes(t)
      BY <1>3, Zenon DEF CloseElement
    <2>2. t # Eof
      BY <2>1, NotTheEnd
    <2> QED
      BY <2>1, <2>2, Zenon DEF MalformedMarkup
  <1>4. CASE AddText(t)
    <2>1. (t[1] = "byte" \/ t[1] = "entity" \/ t[1] = "cdata") /\ InContent
      BY <1>4 DEF AddText
    <2>2. ~(WithItem(Innermost.text, t) = {})
      BY <1>4 DEF AddText
    <2>3. t # Eof
      BY <2>1, NotTheEnd
    <2> QED
      BY <2>1, <2>2, <2>3, Zenon DEF MalformedMarkup
  <1> QED
    BY <1>1, <1>2, <1>3, <1>4

LEMMA MarkupRefused ==
    ASSUME NEW t, RefuseMarkup(t)
    PROVE  MalformedMarkup(t) /\ verdict' \notin {Pending, Accepted}
  <1>1. MalformedMarkup(t) /\ verdict' = IF t[1] = "tag" THEN TagError(t) ELSE "malformed"
    BY DEF RefuseMarkup, Refuse
  <1>2. t[1] = "tag" => TagError(t) # ""
    <2>1. t[1] = "tag" => t # Eof
      BY DEF Eof
    <2> QED
      BY <1>1, <2>1, Zenon DEF MalformedMarkup
  <1>3. TagError(t) # "" => TagError(t) \in {"children", "depth", "name", "attribute"}
    BY Zenon DEF TagError
  <1> QED
    BY <1>1, <1>2, <1>3 DEF Pending, Accepted

LEMMA XmlGoesOn == XmlInv /\ ParseXml => XmlInv'
  <1> SUFFICES ASSUME XmlInv, ParseXml PROVE XmlInv'
    OBVIOUS
  <1>1. stage = "xml" /\ stage' = "xml" /\ XmlNext
    BY DEF ParseXml, fetch
  <1>2. PICK t \in XmlTokens : \/ SkipMarkup(t)
                               \/ OpenElement(t)
                               \/ CloseElement(t)
                               \/ AddText(t)
                               \/ RefuseMarkup(t)
    BY <1>1 DEF XmlNext
  <1>3. t \in Markup
    BY MarkupAssumption DEF XmlTokens, Markup
  <1>4. verdict = Pending /\ read' = Append(read, t) /\ grammar' = grammar
    BY <1>2 DEF SkipMarkup, OpenElement, CloseElement, AddText, RefuseMarkup, Refuse, Consume
  <1> SUFFICES ASSUME grammar = "xml" PROVE XmlInv'
    BY <1>4, XmlUnread
  <1>5. Passed(t) /\ read' \in Seq(Markup) /\ read' # <<>>
    BY <1>3, <1>4 DEF XmlInv, Passed
  <1>6. Wrong(read', Len(read')) <=> MalformedMarkup(t)
    BY <1>5, PassedOrRefused
  <1>7. CASE RefuseMarkup(t)
    <2>1. MalformedMarkup(t) /\ verdict' \notin {Pending, Accepted}
      BY <1>7, MarkupRefused
    <2> QED
      BY <1>1, <1>5, <1>6, <2>1 DEF XmlInv, XmlReturnsItsTree, RefusedWhenWrong
  <1>8. CASE ~RefuseMarkup(t)
    <2>1. ~MalformedMarkup(t)
      BY <1>2, <1>8, Unmalformed
    <2>2. \/ verdict' = Pending /\ XmlOpen'
          \/ verdict' = Accepted /\ Rooted'
      BY <1>2, <1>5, <1>8, XmlSkips, XmlOpens, XmlCloses, XmlAddsText
    <2>3. RefusedWhenWrong'
      BY <1>6, <2>1, <2>2 DEF RefusedWhenWrong
    <2>4. XmlReturnsItsTree'
      BY <2>2 DEF XmlReturnsItsTree, Rooted, Pending, Accepted
    <2> QED
      BY <1>1, <1>5, <2>2, <2>3, <2>4 DEF XmlInv, Pending, Accepted
  <1> QED
    BY <1>7, <1>8

LEMMA XmlLeft == XmlInv /\ ParseJson => XmlInv'
  <1> SUFFICES ASSUME XmlInv, ParseJson PROVE XmlInv'
    OBVIOUS
  <1>1. stage = "json" /\ JsonNext
    BY DEF ParseJson
  <1>2. grammar # "xml"
    BY <1>1 DEF XmlInv
  <1>3. grammar' = grammar
    BY <1>1 DEF JsonNext, OpenContainer, CloseContainer, ReadScalar, ReadKey, ReadColon,
                ReadComma, ReadEnd, RefuseToken, Refuse, Consume
  <1> QED
    BY <1>2, <1>3, XmlUnread

(* What XML parsing has read so far is what is open, in every state.            *)
LEMMA XmlInductive == Spec => []XmlInv
  <1>1. Init => XmlInv
    BY DEF Init, NoDocument, XmlInv, XmlReturnsItsTree, RefusedWhenWrong
  <1>2. XmlInv /\ [Next]_vars => XmlInv'
    <2> SUFFICES ASSUME XmlInv, [Next]_vars PROVE XmlInv'
      OBVIOUS
    <2>1. CASE UNCHANGED vars
      BY <2>1, XmlStays DEF vars, fetch
    <2>2. CASE Transfer
      BY <2>2, XmlStays DEF Transfer, fetch
    <2>3. CASE AskFirms \/ http_fetch \/ FetchPart \/ OpenFile
      BY <2>3, NotParsing, XmlStays DEF Formats
    <2>5. ASSUME NEW format \in Formats, BeginParse(format) PROVE XmlInv'
      <3>1. CASE UNCHANGED document /\ stage' = "done"
        BY <3>1, XmlStays
      <3>2. CASE format = "json" /\ JsonBegins
        <4>1. grammar' = "json"
          BY <3>2 DEF JsonBegins, Turn
        <4> QED
          BY <4>1, XmlUnread
      <3>3. CASE format = "xml" /\ XmlBegins /\ stage' = "xml"
        BY <3>3, XmlStarts
      <3>4. CASE format = "csv" /\ UNCHANGED document /\ stage' = "csv"
        BY <3>4, XmlStays
      <3> QED
        BY <2>5, <3>1, <3>2, <3>3, <3>4 DEF BeginParse, Fails, Ends, Formats
    <2>6. CASE ParseCsv
      BY <2>6, XmlStays DEF ParseCsv, fetch
    <2>7. CASE ParseReturns
      <3>1. grammar' = ""
        BY <2>7 DEF ParseReturns, Turn
      <3> QED
        BY <3>1, XmlUnread
    <2>8. ASSUME NEW r \in Records[stage], stage \in Layouts, ReadRecord(r) PROVE XmlInv'
      <3>1. UNCHANGED document /\ stage' # "json"
        BY <2>8 DEF ReadRecord, Layouts
      <3> QED
        BY <3>1, XmlStays
    <2>9. CASE EndRecords
      BY <2>9, XmlStays DEF EndRecords, Ends
    <2> QED
      BY <2>1, <2>2, <2>3, <2>5, <2>6, <2>7, <2>8, <2>9, XmlGoesOn, XmlLeft DEF Next
  <1> QED
    BY <1>1, <1>2, PTL DEF Spec

(* The tree of an accepted XML document is the one its tags draw, for every      *)
(* document of any length, nested to any depth, and for every limit.            *)
THEOREM XmlTreeDrawn == Spec => []XmlReturnsItsTree
  <1>1. XmlInv => XmlReturnsItsTree
    BY DEF XmlInv
  <1> QED
    BY <1>1, XmlInductive, PTL

(* An XML document is refused at the first token that is wrong, whatever its      *)
(* length and the limits, and at no other, unless xml.hpp would have a limit     *)
(* refuse it there: text that CDATA or entities make too long, the last depth.   *)
THEOREM XmlRefusals == Spec => []XmlRefusesWhatIsWrong
  <1>1. XmlInv => XmlRefusesWhatIsWrong
    BY DEF XmlInv, RefusedWhenWrong, XmlRefusesWhatIsWrong
  <1> QED
    BY <1>1, XmlInductive, PTL
=============================================================================
