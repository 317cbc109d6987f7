------------------------------ MODULE Calendar ------------------------------
(***************************************************************************)
(* ISO 8601 instants of observation.cpp: the civil date of a day number and *)
(* back, format_iso8601_ms and parse_iso8601_ms.  The specification walks a *)
(* reference calendar from one day to the next, and the code's arithmetic   *)
(* has to agree with it every day.                                          *)
(*                                                                         *)
(* The clock is a parameter (the code's is 24, 60, 60 and a fraction of     *)
(* three digits in base 10): a day of the code has more milliseconds than   *)
(* the model checker can multiply by the days of an era.                    *)
(***************************************************************************)
EXTENDS Integers, Sequences, SequencesExt, FiniteSets

CONSTANTS Hours, Minutes, Seconds, Base, \* the clock; Base^3 milliseconds
          Years,                         \* the years walked
          Instants,                      \* instants of the day looked at
          Zones                          \* <<sign, hours, minutes>> of offsets

ASSUME ClockAssumption ==
    /\ {Hours, Minutes, Seconds} \subseteq Nat \ {0}
    /\ Base \in Nat \ {0, 1}
    /\ Years \subseteq Int
    /\ Zones \subseteq {-1, 1} \X Nat \X Nat

VARIABLES day,     \* days since 1970-01-01
          date,    \* <<year, month, day>> of the reference calendar
          elapsed  \* milliseconds since midnight

walk == <<day, date, elapsed>>

Millis == Base * Base * Base
PerDay == Hours * Minutes * Seconds * Millis

ASSUME InstantAssumption == Instants \subseteq 0..(PerDay - 1)
-----------------------------------------------------------------------------
(* The reference calendar.                                                  *)

Leap(y) == y % 4 = 0 /\ (y % 100 # 0 \/ y % 400 = 0)

DaysIn(y, m) == CASE m \in {4, 6, 9, 11} -> 30
                  [] m = 2 -> IF Leap(y) THEN 29 ELSE 28
                  [] OTHER -> 31

Tomorrow(c) ==
    IF c[3] < DaysIn(c[1], c[2]) THEN <<c[1], c[2], c[3] + 1>>
    ELSE IF c[2] < 12 THEN <<c[1], c[2] + 1, 1>>
    ELSE <<c[1] + 1, 1, 1>>

NewYear(y) ==
    LET LeapsIn(a, b) == Cardinality({l \in a..b : Leap(l)})
    IN  365 * (y - 1970) + LeapsIn(1970, y - 1) - LeapsIn(y, 1969)
-----------------------------------------------------------------------------
(* The code.  C++ division and remainder round towards zero.                *)

Quot(a, b) == IF a >= 0 THEN a \div b ELSE -((-a) \div b)
Rem(a, b) == a - b * Quot(a, b)

EraOf(n, len) == Quot(IF n >= 0 THEN n ELSE n - (len - 1), len)

days_from_civil(year, m, d) ==
    LET y   == IF m <= 2 THEN year - 1 ELSE year
        yoe == y - EraOf(y, 400) * 400
        doy == (153 * (IF m > 2 THEN m - 3 ELSE m + 9) + 2) \div 5 + d - 1
        doe == yoe * 365 + yoe \div 4 - yoe \div 100 + doy
    IN  EraOf(y, 400) * 146097 + doe - 719468

YearOfEraJulian(doe) == (doe - doe \div 1460) \div 365

YearOfEra(doe) == (doe - doe \div 1460 + doe \div 36524 - doe \div 146096) \div 365

civil_from_days(n) ==
    LET z   == n + 719468
        doe == z - EraOf(z, 146097) * 146097
        yoe == YearOfEra(doe)
        doy == doe - (365 * yoe + yoe \div 4 - yoe \div 100)
        mp  == (5 * doy + 2) \div 153
        m   == IF mp < 10 THEN mp + 3 ELSE mp - 9
        y   == yoe + EraOf(z, 146097) * 400
    IN  <<IF m <= 2 THEN y + 1 ELSE y, m, doy - (153 * mp + 2) \div 5 + 1>>

\* A text is its fields: the calendar date and the time of day as they are
\* written, the digits of the fraction, and the designator: an offset as
\* <<sign, hours, minutes>>, Utc for Z, or NoZone.
Utc == <<1, 0, 0>>
NoZone == <<>>

ScaledFraction(digits) ==
    LET Digit(n) == IF n <= Len(digits) THEN digits[n] ELSE 0
    IN  Digit(1) * Base * Base + Digit(2) * Base + Digit(3)

AbsoluteOffset(zone) == (zone[2] * Minutes + zone[3]) * Seconds

offset_seconds(zone) == zone[1] * ((zone[2] * Minutes + zone[3]) * Seconds)

Unread == {}

\* The years that the four digits of a text can be.
FourDigits == 0..9999

\* A set: the milliseconds since the epoch, or Unread.
parse_iso8601_ms(t) ==
    LET c == t.civil
        k == t.clock
    IN  IF \/ c[1] \notin FourDigits \/ c[2] \notin 1..12 \/ c[3] \notin 1..31
           \/ k[1] > Hours - 1 \/ k[2] > Minutes - 1 \/ k[3] > Seconds
           \/ t.zone = NoZone
        THEN Unread
        ELSE LET secs == ((days_from_civil(c[1], c[2], c[3]) * Hours + k[1]) * Minutes
                            + k[2]) * Seconds + k[3] - offset_seconds(t.zone)
             IN  {secs * Millis + ScaledFraction(t.fraction)}

CarryLessBorrow(a, b) == IF Rem(a, b) < 0 THEN <<Quot(a, b), Rem(a, b) + b>>
                                           ELSE <<Quot(a, b), Rem(a, b)>>

\* The quotient and the remainder of a by b, the remainder made non-negative.
Carry(a, b) == IF Rem(a, b) < 0 THEN <<Quot(a, b) - 1, Rem(a, b) + b>>
                                ELSE <<Quot(a, b), Rem(a, b)>>

format_iso8601_ms(epoch_ms) ==
    LET s == Carry(epoch_ms, Millis)
        d == Carry(s[1], Hours * Minutes * Seconds)
    IN  [civil    |-> civil_from_days(d[1]),
         clock    |-> <<d[2] \div (Minutes * Seconds),
                        (d[2] % (Minutes * Seconds)) \div Seconds, d[2] % Seconds>>,
         fraction |-> <<s[2] \div (Base * Base), (s[2] \div Base) % Base, s[2] % Base>>,
         zone     |-> Utc]
-----------------------------------------------------------------------------
WalkInit ==
    /\ date \in {<<y, 1, 1>> : y \in Years}
    /\ day = NewYear(date[1])
    /\ elapsed \in Instants

\* The next of the instants looked at, today or tomorrow.
Pass ==
    \/ /\ \E n \in Instants :
             /\ n > elapsed
             /\ \A m \in Instants : m > elapsed => n <= m
             /\ elapsed' = n
       /\ UNCHANGED <<day, date>>
    \/ /\ \A n \in Instants : n <= elapsed
       /\ Tomorrow(date)[1] \in Years
       /\ elapsed' = CHOOSE n \in Instants : \A m \in Instants : n <= m
       /\ day' = day + 1
       /\ date' = Tomorrow(date)

WalkSpec == WalkInit /\ [][Pass]_walk
-----------------------------------------------------------------------------
Now == day * PerDay + elapsed

\* The day number's civil date is the calendar's, and the calendar's date has
\* that day number, across months, leap years, centuries, eras and the epoch:
\* days_from_civil and civil_from_days, "avoids timegm" (observation.cpp:84).
CivilIsCalendar ==
    /\ civil_from_days(day) = date
    /\ days_from_civil(date[1], date[2], date[3]) = day

\* What format_iso8601_ms wrote, parse_iso8601_ms reads back as the same
\* instant, also before 1970, where the remainders are negative; and the same
\* instant told in the local time of a zone, with the zone's offset, is read as
\* the same instant (REQ-3.2).
TextKeepsInstant ==
    /\ parse_iso8601_ms(format_iso8601_ms(Now)) = {Now}
    /\ \A zone \in Zones :
          LET ahead == zone[1] * (zone[2] * Minutes + zone[3]) * Seconds * Millis
              local == format_iso8601_ms(Now + ahead)
          IN  local.civil[1] \in FourDigits =>
                 parse_iso8601_ms([local EXCEPT !.zone = zone]) = {Now}

Text(ms) == LET t == format_iso8601_ms(ms) IN t.civil \o t.clock \o t.fraction

Before(s, t) ==
    \E n \in DOMAIN s : s[n] < t[n] /\ \A m \in 1..(n - 1) : s[m] = t[m]

\* %04d writes four characters.
FixedWidth(ms) == format_iso8601_ms(ms).civil[1] \in FourDigits

\* The texts format_iso8601_ms writes are in the order of their instants: fields
\* most significant first, all of fixed width, the year too.  load_observations
\* orders by the text (pipeline.cpp:166), correlate sorts by it
\* (analysis.cpp:250) and takes the first for the earliest.
TextOrderIsTime ==
    [][/\ FixedWidth(Now) /\ FixedWidth(Now')
       /\ Before(Text(Now), Text(Now'))]_walk
=============================================================================
