----------------------------- MODULE FirmsProofs -----------------------------
(***************************************************************************)
(* Theorems about FirmsWalk: for any length of day and of chunk, any guard   *)
(* and any horizon, the walk asks for each day of its window once, leaves    *)
(* none out but possibly the last, asks NRT for nothing it lacks, and merges *)
(* the answers into one CSV document.                                       *)
(***************************************************************************)
EXTENDS FirmsWalk, TLAPS, SequenceTheorems

After(r) == r.first + r.span       \* the first day r does not ask for

\* What every request made is, and where the walk stands after it.
RequestsSound ==
    \A n \in DOMAIN asked :
        /\ DayOf(start) <= asked[n].first
        /\ After(asked[n]) <= DayOf(end) + 1
        /\ asked[n].product = "NRT" => nrt_from <= asked[n].first
        /\ pc = "walk" => After(asked[n]) <= DayOf(t)

RequestsApart ==
    \A m, n \in DOMAIN asked : m < n => After(asked[m]) <= asked[n].first

IsAsked(d) == \E n \in DOMAIN asked : asked[n].first <= d /\ d < After(asked[n])

\* Up to the loop variable, and to the window's last day, no day is left out.
Covered ==
    /\ pc = "walk" =>
          \A d \in Int : DayOf(start) <= d /\ d < DayOf(t) /\ d < DayOf(end) => IsAsked(d)
    /\ pc \in {"parse", "done"} /\ error = "none" /\ Len(asked) <= MaxRequests =>
          \A d \in Int : DayOf(start) <= d /\ d < DayOf(end) => IsAsked(d)

Control ==
    /\ pc = "enter" => asked = <<>>
    /\ pc \in {"enter", "walk"} => error = "none"
    /\ pc = "walk" => start <= t /\ Len(asked) <= MaxRequests
    /\ have_header <=> asked # <<>>
    /\ asked = <<>> => merged = <<>>

\* The rows of a document, and those the service has sent.
IsCsv(m) == m # <<>> /\ m[1] = Header /\ \A i \in 2..Len(m) : m[i] \in Days
Sent(d) == \E n \in DOMAIN asked :
              /\ ~asked[n].empty
              /\ asked[n].first <= d /\ d < After(asked[n])
              /\ Serves(asked[n].product, d)

HasHeader == asked # <<>> /\ ~asked[1].empty

MergedSoFar ==
    HasHeader => /\ IsCsv(merged)
                 /\ \A d \in Days : (\E i \in 2..Len(merged) : merged[i] = d) <=> Sent(d)

ParsedSoFar ==
    pc = "done" /\ HasHeader /\ error # "rejected" =>
        observations = {merged[i] : i \in 2..Len(merged)}

IInv ==
    /\ TypeOK
    /\ Control
    /\ RequestsSound
    /\ RequestsApart
    /\ Covered
    /\ MergedSoFar
    /\ ParsedSoFar
-----------------------------------------------------------------------------
(* Division by the length of a day.                                         *)

LEMMA Floor ==
    ASSUME NEW D \in Int, D > 0, NEW a \in Int, a >= 0
    PROVE  a \div D \in Nat /\ D * (a \div D) <= a /\ a < D * (a \div D) + D
OBVIOUS

LEMMA Between ==
    ASSUME NEW D \in Int, D > 0, NEW a \in Int, NEW b \in Int, D * a < D * b + D
    PROVE  a <= b
OBVIOUS

\* A stride of c days from tick a.
LEMMA Strides ==
    ASSUME NEW D \in Int, D > 0, NEW a \in Int, a >= 0, NEW c \in Int, c >= 0
    PROVE  /\ D * c \in Int /\ D * c >= 0
           /\ (a + D * c) \div D = a \div D + c
<1>1. D * c \in Int /\ D * c >= 0
  OBVIOUS
<1> DEFINE q == a \div D
           r == (a + D * c) \div D
<1>2. q \in Int /\ D * q <= a /\ a < D * q + D
  BY Floor
<1>3. r \in Int /\ D * r <= a + D * c /\ a + D * c < D * r + D
  BY <1>1, Floor
<1> HIDE DEF q, r
<1>4. D * (q + c) = D * q + D * c
  BY <1>2
<1>5. D * (q + c) < D * r + D /\ D * r < D * (q + c) + D
  BY <1>1, <1>2, <1>3, <1>4
<1>6. q + c <= r /\ r <= q + c
  BY <1>2, <1>3, <1>5, Between
<1> QED
  BY <1>1, <1>2, <1>3, <1>6 DEF q, r

\* The days from tick a to tick b, by the difference of their instants.
LEMMA Distance ==
    ASSUME NEW D \in Int, D > 0, NEW a \in Int, a >= 0, NEW b \in Int, a <= b
    PROVE  /\ a \div D <= b \div D
           /\ (b - a) \div D \in Nat
           /\ a \div D + (b - a) \div D <= b \div D
           /\ b \div D <= a \div D + (b - a) \div D + 1
<1> DEFINE p == a \div D
           q == b \div D
           r == (b - a) \div D
<1>1. p \in Nat /\ D * p <= a /\ a < D * p + D
  BY Floor
<1>2. q \in Nat /\ D * q <= b /\ b < D * q + D
  BY Floor
<1>3. r \in Nat /\ D * r <= b - a /\ b - a < D * r + D
  BY Floor
<1> HIDE DEF p, q, r
<1>4. D * p < D * q + D
  BY <1>1, <1>2
<1>5. D * (p + r) = D * p + D * r /\ D * (p + r + 1) = D * p + D * r + D
  BY <1>1, <1>3
<1>6. D * (p + r) < D * q + D /\ D * q < D * (p + r + 1) + D
  BY <1>1, <1>2, <1>3, <1>5
<1>7. p <= q /\ p + r <= q /\ q <= p + r + 1
  BY <1>1, <1>2, <1>3, <1>4, <1>6, Between
<1> QED
  BY <1>3, <1>7 DEF p, q, r

LEMMA Constants ==
    /\ Day \in Int /\ Day > 0 /\ ChunkDays \in Int /\ ChunkDays > 0
    /\ Horizon \in Nat /\ MaxRequests \in Nat
BY WalkAssumption

\* A tick of the model lies in one of its days.
LEMMA DayOfTick ==
    ASSUME NEW a \in Ticks
    PROVE  a \in Nat /\ DayOf(a) \in Days
<1>1. (Horizon + 1) * Day \in Int /\ Day * (Horizon + 1) = (Horizon + 1) * Day
  BY Constants
<1>2. a \in Int /\ 0 <= a /\ a < (Horizon + 1) * Day
  BY <1>1 DEF Ticks
<1> DEFINE q == a \div Day
<1>3. q \in Nat /\ Day * q <= a
  BY <1>2, Constants, Floor
<1> HIDE DEF q
<1>4. Day * q < Day * Horizon + Day
  BY <1>1, <1>2, <1>3, Constants
<1>5. q <= Horizon
  BY <1>3, <1>4, Constants, Between
<1> QED
  BY <1>2, <1>3, <1>5, Constants DEF q, DayOf, Days

\* The request of one turn: it begins on the loop variable's day, ends within
\* the window and before the next stride, and leaves out at most the last day.
LEMMA RequestProperties ==
    ASSUME TypeOK, t <= end, start <= t, NEW nothing \in BOOLEAN
    PROVE  LET r == Request(nothing)
           IN  /\ r \in Requests /\ r.empty = nothing /\ r.first = DayOf(t)
               /\ r.first \in Nat /\ DayOf(start) \in Nat /\ DayOf(start) <= r.first
               /\ After(r) <= DayOf(end) + 1 /\ DayOf(end) \in Days
               /\ Stride \in Nat /\ t < Stride
               /\ DayOf(Stride) = DayOf(t) + ChunkDays
               /\ After(r) \in Nat /\ After(r) <= DayOf(Stride)
               /\ After(r) = DayOf(Stride) \/ DayOf(end) <= After(r)
<1>1. /\ start \in Nat /\ end \in Nat /\ t \in Nat
      /\ DayOf(start) \in Days /\ DayOf(end) \in Days
  BY DayOfTick DEF TypeOK
<1>2. DayOf(start) <= DayOf(t)
  BY <1>1, Constants, Distance DEF DayOf
<1> DEFINE w == (end - t) \div Day
<1>3. /\ w \in Nat /\ DayOf(t) + w <= DayOf(end) /\ DayOf(end) <= DayOf(t) + w + 1
  BY <1>1, Constants, Distance DEF DayOf
<1>4. /\ Stride \in Nat /\ DayOf(Stride) = DayOf(t) + ChunkDays /\ t < Stride
  <2>1. Day * ChunkDays \in Int /\ Day * ChunkDays > 0
    BY Constants
  <2>2. DayOf(Stride) = DayOf(t) + ChunkDays
    BY <1>1, Constants, Strides DEF DayOf, Stride
  <2> QED
    BY <1>1, <2>1, <2>2 DEF Stride
<1>5. Span = IF w + 1 < ChunkDays THEN w + 1 ELSE ChunkDays
  BY DEF Span
<1> HIDE DEF w
<1>6. Span \in 1..ChunkDays /\ Span <= w + 1 /\ (Span = ChunkDays \/ Span = w + 1)
  BY <1>3, <1>5, Constants
<1>7. DayOf(t) \in Nat
  BY <1>1, Constants, Floor DEF DayOf
<1>8. product_for(DayOf(t)) \in {"NRT", "SP"}
  BY DEF product_for
<1> DEFINE r == Request(nothing)
<1>9. /\ r \in Requests /\ r.empty = nothing /\ r.first = DayOf(t) /\ r.span = Span
  BY <1>6, <1>7, <1>8 DEF Request, Requests
<1> HIDE DEF r
<1>10. /\ After(r) \in Nat /\ After(r) <= DayOf(end) + 1 /\ After(r) <= DayOf(Stride)
       /\ After(r) = DayOf(Stride) \/ DayOf(end) <= After(r)
  <2>1. DayOf(end) \in Nat /\ Span \in Nat /\ ChunkDays \in Nat
    BY <1>1, <1>6, Constants DEF Days
  <2> QED
    BY <1>3, <1>4, <1>6, <1>7, <1>9, <2>1 DEF After
<1> QED
  BY <1>1, <1>2, <1>4, <1>7, <1>9, <1>10 DEF r, Days

LEMMA SameLength ==
    ASSUME NEW m \in Nat, NEW n \in Nat, 1..m = 1..n
    PROVE  m = n
<1>1. \A i \in Int : 1 <= i /\ i <= m <=> 1 <= i /\ i <= n
  OBVIOUS
<1>2. (1 <= m => m <= n) /\ (1 <= n => n <= m)
  BY <1>1
<1> QED
  BY <1>2

\* The rows of an answer with a header: the days asked for that are served.
LEMMA BodyProperties ==
    ASSUME NEW r \in Requests, ~r.empty, r.first \in Nat, sp_to \in Days, nrt_from \in Days
    PROVE  LET b == Body(r)
           IN  /\ b \in Seq({Header} \cup Days)
               /\ IsCsv(b)
               /\ \A d \in Days : (\E i \in 2..Len(b) : b[i] = d) <=>
                     r.first <= d /\ d < After(r) /\ Serves(r.product, d)
<1> DEFINE lo == Oldest(r)
           hi == Latest(r)
           rows == [n \in 1..(hi - lo + 1) |-> lo + n - 1]
           T == {Header} \cup Days
           b == Body(r)
<1>1. /\ r.first \in Nat /\ r.span \in Nat /\ r.span >= 1 /\ r.product \in {"NRT", "SP"}
      /\ After(r) \in Nat /\ After(r) = r.first + r.span
  BY Constants DEF Requests, After
<1>2. sp_to \in Nat /\ sp_to <= Horizon /\ nrt_from \in Nat /\ nrt_from <= Horizon /\ Horizon \in Nat
  BY Constants DEF Days
<1>3. lo \in Nat /\ hi \in Int /\ hi <= Horizon
  BY <1>1, <1>2 DEF Oldest, Latest
<1>4. \A d \in Days : lo <= d /\ d <= hi <=>
                        r.first <= d /\ d < After(r) /\ Serves(r.product, d)
  <2> SUFFICES ASSUME NEW d \in Days
               PROVE  lo <= d /\ d <= hi <=>
                        r.first <= d /\ d < After(r) /\ Serves(r.product, d)
    OBVIOUS
  <2>1. d \in Nat /\ d <= Horizon
    BY <1>2 DEF Days
  <2>2. CASE r.product = "NRT"
    BY <1>1, <1>2, <2>1, <2>2 DEF Oldest, Latest, Serves
  <2>3. CASE r.product = "SP"
    BY <1>1, <1>2, <2>1, <2>3 DEF Oldest, Latest, Serves
  <2> QED
    BY <1>1, <2>2, <2>3
<1> HIDE DEF lo, hi
<1> DEFINE len == IF hi - lo + 1 >= 0 THEN hi - lo + 1 ELSE 0
<1>5. /\ len \in Nat /\ 1..(hi - lo + 1) = 1..len
      /\ \A n \in Int : n \in 1..len <=> 1 <= n /\ n <= hi - lo + 1
  <2>1. CASE hi - lo + 1 >= 0
    BY <1>3, <2>1
  <2>2. CASE ~(hi - lo + 1 >= 0)
    <3>1. len = 0
      BY <2>2
    <3>2. \A n \in Int : ~(n \in 1..(hi - lo + 1)) /\ ~(n \in 1..0)
      BY <1>3, <2>2
    <3>3. 1..(hi - lo + 1) = {} /\ 1..0 = {}
      BY <1>3, <2>2
    <3>4. \A n \in Int : ~(1 <= n /\ n <= hi - lo + 1)
      BY <1>3, <2>2
    <3> HIDE DEF len
    <3>5. len \in Nat /\ 1..(hi - lo + 1) = 1..len
      BY <3>1, <3>3
    <3>6. \A n \in Int : n \in 1..len <=> 1 <= n /\ n <= hi - lo + 1
      BY <3>1, <3>2, <3>4
    <3> QED
      BY <3>5, <3>6
  <2> QED
    BY <2>1, <2>2
<1> HIDE DEF len
<1>6. \A n \in 1..len : lo + n - 1 \in Days
  BY <1>2, <1>3, <1>5 DEF Days
<1>7. rows \in [1..len -> T]
  BY <1>5, <1>6
<1>8. rows \in Seq(T) /\ Len(rows) = len
  <2>1. rows \in Seq(T)
    BY <1>5, <1>7, SeqDef
  <2>2. DOMAIN rows = 1..len /\ DOMAIN rows = 1..Len(rows) /\ Len(rows) \in Nat
    BY <1>7, <2>1, LenProperties
  <2> QED
    BY <1>5, <2>1, <2>2, SameLength
<1>9. <<Header>> \in Seq(T) /\ Len(<<Header>>) = 1 /\ <<Header>>[1] = Header
  OBVIOUS
<1>10. b = <<Header>> \o rows
  BY DEF Body, lo, hi
<1> HIDE DEF T, rows, b
<1>11. /\ b \in Seq(T) /\ Len(b) = 1 + len
       /\ \A i \in 1..(1 + len) : b[i] = IF i <= 1 THEN <<Header>>[i] ELSE rows[i - 1]
  BY <1>8, <1>9, <1>10, ConcatProperties
<1>12. b[1] = Header
  <2>1. 1 \in 1..(1 + len)
    BY <1>5
  <2> QED
    BY <1>9, <1>11, <2>1
<1>13. \A i \in 2..Len(b) : i - 1 \in 1..len /\ b[i] = lo + (i - 1) - 1
  <2> SUFFICES ASSUME NEW i \in 2..Len(b)
               PROVE  i - 1 \in 1..len /\ b[i] = lo + (i - 1) - 1
    OBVIOUS
  <2>1. i \in 1..(1 + len) /\ ~(i <= 1) /\ i - 1 \in 1..len
    BY <1>5, <1>11
  <2>2. rows[i - 1] = lo + (i - 1) - 1
    BY <1>5, <2>1 DEF rows
  <2> QED
    BY <1>11, <2>1, <2>2
<1>14. IsCsv(b)
  <2>1. b # <<>>
    BY <1>5, <1>11
  <2>2. \A i \in 2..Len(b) : b[i] \in Days
    BY <1>6, <1>13
  <2> QED
    BY <1>12, <2>1, <2>2 DEF IsCsv
<1>15. ASSUME NEW d \in Days
       PROVE  (\E i \in 2..Len(b) : b[i] = d) <=> lo <= d /\ d <= hi
  <2>1. d \in Nat
    BY <1>2 DEF Days
  <2>2. ASSUME NEW i \in 2..Len(b), b[i] = d PROVE lo <= d /\ d <= hi
    <3>1. i \in Nat /\ i - 1 \in 1..len /\ d = lo + (i - 1) - 1
      BY <1>13, <2>2
    <3>2. 1 <= i - 1 /\ i - 1 <= hi - lo + 1
      BY <1>5, <3>1
    <3> QED
      BY <1>3, <3>1, <3>2
  <2>3. ASSUME lo <= d, d <= hi PROVE \E i \in 2..Len(b) : b[i] = d
    <3>1. d - lo + 1 \in 1..len
      BY <1>3, <1>5, <2>1, <2>3
    <3>2. d - lo + 2 \in 2..Len(b)
      BY <1>3, <1>5, <1>11, <2>1, <3>1
    <3>3. b[d - lo + 2] = d
      BY <1>3, <1>13, <2>1, <3>2
    <3> QED
      BY <3>2, <3>3
  <2> QED
    BY <2>2, <2>3
<1> QED
  BY <1>4, <1>11, <1>14, <1>15 DEF b, T

Line == {Header} \cup Days

\* A document followed by another's rows has the rows of both.
LEMMA MergeProperties ==
    ASSUME NEW m \in Seq(Line), IsCsv(m), NEW b \in Seq(Line), IsCsv(b)
    PROVE  LET s == m \o Tail(b)
           IN  /\ s \in Seq(Line)
               /\ IsCsv(s)
               /\ \A d \in Days : (\E i \in 2..Len(s) : s[i] = d) <=>
                     \/ \E i \in 2..Len(m) : m[i] = d
                     \/ \E i \in 2..Len(b) : b[i] = d
<1> DEFINE rows == Tail(b)
           s == m \o rows
<1>1. m # <<>> /\ b # <<>> /\ m[1] = Header
  BY DEF IsCsv
<1>2. /\ rows \in Seq(Line) /\ Len(rows) = Len(b) - 1 /\ Len(b) \in Nat /\ Len(b) >= 1
      /\ \A i \in 1..Len(rows) : rows[i] = b[i + 1]
  BY <1>1, HeadTailProperties, EmptySeq
<1>3. Len(m) \in Nat /\ Len(m) >= 1
  BY <1>1, EmptySeq
<1> HIDE DEF rows
<1>4. /\ s \in Seq(Line) /\ Len(s) = Len(m) + Len(rows)
      /\ \A i \in 1..(Len(m) + Len(rows)) : s[i] = IF i <= Len(m) THEN m[i] ELSE rows[i - Len(m)]
  BY <1>2, ConcatProperties
<1> HIDE DEF s
<1>5. \A i \in 2..Len(m) : i \in 2..Len(s) /\ s[i] = m[i]
  BY <1>2, <1>3, <1>4
<1>6. \A i \in 2..Len(b) : i + Len(m) - 1 \in 2..Len(s) /\ s[i + Len(m) - 1] = b[i]
  <2> SUFFICES ASSUME NEW i \in 2..Len(b)
               PROVE  i + Len(m) - 1 \in 2..Len(s) /\ s[i + Len(m) - 1] = b[i]
    OBVIOUS
  <2> DEFINE j == i + Len(m) - 1
  <2>1. /\ j \in 2..Len(s) /\ j \in 1..(Len(m) + Len(rows)) /\ ~(j <= Len(m))
        /\ j - Len(m) = i - 1 /\ i - 1 \in 1..Len(rows) /\ (i - 1) + 1 = i
    BY <1>2, <1>3, <1>4
  <2> HIDE DEF j
  <2>2. s[j] = rows[i - 1] /\ rows[i - 1] = b[i]
    BY <1>2, <1>4, <2>1
  <2> QED
    BY <2>1, <2>2 DEF j
<1>7. \A i \in 2..Len(s) : \/ i \in 2..Len(m)
                           \/ i - Len(m) + 1 \in 2..Len(b) /\ i = (i - Len(m) + 1) + Len(m) - 1
  BY <1>2, <1>3, <1>4
<1>8. \A i \in 2..Len(s) : \/ i \in 2..Len(m) /\ s[i] = m[i]
                           \/ \E j \in 2..Len(b) : s[i] = b[j]
  BY <1>5, <1>6, <1>7
<1>9. IsCsv(s)
  <2>1. s # <<>> /\ s[1] = Header
    <3>1. 1 \in 1..(Len(m) + Len(rows)) /\ 1 <= Len(m) /\ Len(s) # 0
      BY <1>2, <1>3, <1>4
    <3> QED
      BY <1>1, <1>4, <3>1
  <2>2. \A i \in 2..Len(s) : s[i] \in Days
    BY <1>8 DEF IsCsv
  <2> QED
    BY <2>1, <2>2 DEF IsCsv
<1>10. \A d \in Days : (\E i \in 2..Len(s) : s[i] = d) <=>
                        \/ \E i \in 2..Len(m) : m[i] = d
                        \/ \E i \in 2..Len(b) : b[i] = d
  BY <1>5, <1>6, <1>8
<1> QED
  BY <1>4, <1>9, <1>10 DEF s, rows
-----------------------------------------------------------------------------
LEMMA Initial == Init => IInv
<1> SUFFICES ASSUME Init PROVE IInv
  OBVIOUS
<1>1. TypeOK
  <2>1. <<>> \in Seq(Requests) /\ <<>> \in Seq({Header} \cup Days) /\ Len(<<>>) = 0
    BY EmptySeq
  <2>2. Len(asked) <= MaxRequests + 1
    BY <2>1, Constants DEF Init
  <2> QED
    BY <2>1, <2>2 DEF Init, TypeOK, Errors
<1>2. asked = <<>> /\ DOMAIN asked = {}
  BY DEF Init
<1>3. Control /\ RequestsSound /\ RequestsApart /\ Covered
  BY <1>2 DEF Init, Control, RequestsSound, RequestsApart, Covered
<1>4. MergedSoFar /\ ParsedSoFar
  BY <1>2 DEF Init, MergedSoFar, ParsedSoFar, HasHeader
<1> QED
  BY <1>1, <1>3, <1>4 DEF IInv

LEMMA AnsweredStep ==
    ASSUME IInv, NEW nothing \in BOOLEAN, Answered(nothing)
    PROVE  IInv'
<1> USE DEF IInv
<1> DEFINE r == Request(nothing)
           L == Len(asked)
<1>1. /\ pc = "walk" /\ t <= end /\ earliest # Unset /\ start <= t /\ L <= MaxRequests
      /\ error = "none"
  BY DEF Answered, Control
<1>2. /\ merged' = merged \o Headless(Body(r))
      /\ have_header' = TRUE /\ asked' = Append(asked, r) /\ t' = Stride
      /\ pc' = IF L + 1 > MaxRequests THEN "parse" ELSE "walk"
      /\ UNCHANGED <<start, end, nrt_from, sp_to, earliest, error, observations>>
  BY DEF Answered, world
<1>3. /\ r \in Requests /\ r.empty = nothing /\ r.first = DayOf(t)
      /\ r.first \in Nat /\ DayOf(start) \in Nat /\ DayOf(start) <= r.first
      /\ After(r) <= DayOf(end) + 1 /\ DayOf(end) \in Days
      /\ Stride \in Nat /\ t < Stride
      /\ DayOf(Stride) = DayOf(t) + ChunkDays
      /\ After(r) \in Nat /\ After(r) <= DayOf(Stride)
      /\ After(r) = DayOf(Stride) \/ DayOf(end) <= After(r)
  BY <1>1, RequestProperties
<1>4. r.product = "NRT" => nrt_from <= r.first
  <2>1. earliest \in {nrt_from, Never} /\ nrt_from \in Nat /\ nrt_from <= Never /\ Never \in Nat
    BY <1>1, Constants DEF TypeOK, Days, Never
  <2>2. r.product = product_for(r.first)
    BY DEF Request
  <2>3. r.product = "NRT" => r.first >= earliest
    BY <2>2 DEF product_for
  <2> QED
    BY <1>3, <2>1, <2>3
<1> HIDE DEF r
<1>5. L \in Nat /\ DOMAIN asked = 1..L
  BY LenProperties DEF TypeOK
<1>6. /\ asked' \in Seq(Requests) /\ Len(asked') = L + 1 /\ asked' # <<>>
      /\ \A n \in 1..L : asked'[n] = asked[n]
      /\ asked'[L + 1] = r
  BY <1>2, <1>3, AppendProperties DEF TypeOK
<1>7. DOMAIN asked' = 1..(L + 1)
  BY <1>6, LenProperties
<1>8. \A n \in 1..(L + 1) : n \in 1..L \/ n = L + 1
  BY <1>5
<1>9. L + 1 \in 1..(L + 1) /\ 1..L \subseteq 1..(L + 1)
  BY <1>5
<1> HIDE DEF L
<1>10. /\ DayOf(start)' = DayOf(start) /\ DayOf(end)' = DayOf(end)
       /\ DayOf(t)' = DayOf(t) + ChunkDays
  BY <1>2, <1>3 DEF DayOf
<1>11. \A n \in 1..L : /\ DayOf(start) <= asked[n].first
                       /\ After(asked[n]) <= DayOf(end) + 1
                       /\ asked[n].product = "NRT" => nrt_from <= asked[n].first
                       /\ After(asked[n]) <= DayOf(t)
  BY <1>1, <1>5 DEF RequestsSound
<1>12. \A n \in 1..L : After(asked[n]) \in Int /\ asked[n].first \in Int
  <2>1. \A n \in 1..L : asked[n] \in Requests
    BY ElementOfSeq DEF TypeOK, L
  <2>2. \A q \in Requests : q.first \in Int /\ q.span \in Int
    BY Constants DEF Requests
  <2> QED
    BY <2>1, <2>2 DEF After
<1>13. Control'
  <2>1. start \in Nat /\ t \in Nat
    BY DayOfTick DEF TypeOK
  <2>2. pc' = "walk" => start' <= t' /\ Len(asked') <= MaxRequests
    BY <1>1, <1>2, <1>3, <1>5, <1>6, <2>1, Constants
  <2>3. pc' \in {"walk", "parse"}
    BY <1>2
  <2> QED
    BY <1>1, <1>2, <1>6, <2>2, <2>3 DEF Control
<1>14. RequestsSound'
  <2>1. \A n \in 1..(L + 1) : /\ DayOf(start) <= asked'[n].first
                              /\ After(asked'[n]) <= DayOf(end) + 1
                              /\ asked'[n].product = "NRT" => nrt_from <= asked'[n].first
                              /\ After(asked'[n]) <= DayOf(t) + ChunkDays
    <3> SUFFICES ASSUME NEW n \in 1..(L + 1)
                 PROVE  /\ DayOf(start) <= asked'[n].first
                        /\ After(asked'[n]) <= DayOf(end) + 1
                        /\ asked'[n].product = "NRT" => nrt_from <= asked'[n].first
                        /\ After(asked'[n]) <= DayOf(t) + ChunkDays
      OBVIOUS
    <3>1. CASE n = L + 1
      BY <1>3, <1>4, <1>6, <3>1
    <3>2. CASE n \in 1..L
      BY <1>3, <1>6, <1>11, <1>12, <3>2, Constants
    <3> QED
      BY <1>8, <3>1, <3>2
  <2> QED
    BY <1>2, <1>7, <1>10, <2>1 DEF RequestsSound, After
<1>15. RequestsApart'
  <2>1. \A m, n \in 1..(L + 1) : m < n => After(asked'[m]) <= asked'[n].first
    <3> SUFFICES ASSUME NEW m \in 1..(L + 1), NEW n \in 1..(L + 1), m < n
                 PROVE  After(asked'[m]) <= asked'[n].first
      OBVIOUS
    <3>1. m \in 1..L
      BY <1>5
    <3>2. CASE n = L + 1
      BY <1>3, <1>6, <1>11, <3>1, <3>2
    <3>3. CASE n \in 1..L
      BY <1>5, <1>6, <3>1, <3>3 DEF RequestsApart
    <3> QED
      BY <1>8, <3>2, <3>3
  <2> QED
    BY <1>7, <2>1 DEF RequestsApart, After
<1>16. Covered'
  <2>1. pc' = "parse" => Len(asked') > MaxRequests
    BY <1>2, <1>6
  <2>2. ~(Len(asked') > MaxRequests /\ Len(asked') <= MaxRequests)
    BY <1>5, <1>6, Constants
  <2>3. \A d : IsAsked(d) => IsAsked(d)'
    BY <1>5, <1>6, <1>7, <1>9 DEF IsAsked, After
  <2>4. \A d : r.first <= d /\ d < After(r) => IsAsked(d)'
    BY <1>6, <1>7, <1>9 DEF IsAsked, After
  <2>5. ASSUME NEW d \in Int, DayOf(start) <= d, d < DayOf(t) + ChunkDays, d < DayOf(end)
        PROVE  IsAsked(d)'
    <3>1. CASE d < DayOf(t)
      BY <1>1, <2>3, <2>5, <3>1 DEF Covered
    <3>2. CASE ~(d < DayOf(t))
      <4>1. r.first <= d
        BY <1>3, <3>2
      <4>2. d < After(r)
        <5>1. DayOf(end) \in Int /\ ChunkDays \in Int
          BY <1>3, Constants DEF Days
        <5> QED
          BY <1>3, <2>5, <5>1
      <4> QED
        BY <2>4, <4>1, <4>2
    <3> QED
      BY <3>1, <3>2
  <2>6. pc' \in {"walk", "parse"}
    BY <1>2
  <2> QED
    BY <1>10, <2>1, <2>2, <2>5, <2>6 DEF Covered
<1>17. merged \in Seq(Line) /\ merged = merged \o <<>> /\ <<>> \in Seq(Line)
  BY ConcatEmptySeq, EmptySeq DEF TypeOK, Line
<1>18. ASSUME nothing PROVE Body(r) = <<>> /\ merged' = merged
  <2>1. Body(r) = <<>>
    BY <1>3, <1>18 DEF Body
  <2>2. Headless(Body(r)) = <<>>
    BY <2>1 DEF Headless
  <2> QED
    BY <1>2, <1>17, <2>1, <2>2
<1>19. ASSUME ~nothing
       PROVE  /\ Body(r) \in Seq(Line) /\ IsCsv(Body(r))
              /\ \A d \in Days : (\E i \in 2..Len(Body(r)) : Body(r)[i] = d) <=>
                    r.first <= d /\ d < After(r) /\ Serves(r.product, d)
  BY <1>3, <1>19, BodyProperties DEF TypeOK, Line
<1>20. ASSUME ~nothing, asked = <<>> PROVE merged' = Body(r)
  <2>1. have_header = FALSE /\ merged = <<>>
    BY <1>20 DEF Control, TypeOK
  <2>2. Headless(Body(r)) = Body(r)
    BY <2>1 DEF Headless
  <2> QED
    BY <1>2, <1>19, <1>20, <2>1, <2>2, ConcatEmptySeq
<1>21. ASSUME ~nothing, asked # <<>> PROVE merged' = merged \o Tail(Body(r))
  <2>1. have_header = TRUE
    BY <1>21 DEF Control, TypeOK
  <2>2. Body(r) # <<>>
    BY <1>19, <1>21 DEF IsCsv
  <2> QED
    BY <1>2, <2>1, <2>2 DEF Headless
<1>22. merged' \in Seq(Line)
  <2>1. CASE nothing
    BY <1>17, <1>18, <2>1
  <2>2. CASE ~nothing /\ asked = <<>>
    BY <1>19, <1>20, <2>2
  <2>3. CASE ~nothing /\ asked # <<>>
    <3>1. Tail(Body(r)) \in Seq(Line)
      BY <1>19, <2>3, HeadTailProperties DEF IsCsv
    <3> QED
      BY <1>17, <1>21, <2>3, <3>1, ConcatProperties
  <2> QED
    BY <2>1, <2>2, <2>3
<1>23. TypeOK'
  <2>1. t' \in Nat /\ have_header' \in BOOLEAN /\ pc' \in {"enter", "walk", "parse", "done"}
    BY <1>2, <1>3
  <2>2. asked' \in Seq(Requests) /\ Len(asked') <= MaxRequests + 1
    BY <1>1, <1>5, <1>6, Constants DEF L
  <2>3. merged' \in Seq({Header} \cup Days)
    BY <1>22 DEF Line
  <2> QED
    BY <1>2, <2>1, <2>2, <2>3 DEF TypeOK
<1> DEFINE New(d) == /\ ~r.empty
                     /\ r.first <= d /\ d < After(r)
                     /\ Serves(r.product, d)
<1>24. \A d : Sent(d)' <=> Sent(d) \/ New(d)
  <2> SUFFICES ASSUME NEW d PROVE Sent(d)' <=> Sent(d) \/ New(d)
    OBVIOUS
  <2> DEFINE One(q) == /\ ~q.empty
                       /\ q.first <= d /\ d < After(q)
                       /\ Serves(q.product, d)
  <2>1. Sent(d) <=> \E n \in 1..L : One(asked[n])
    BY <1>5 DEF Sent
  <2>2. Sent(d)' <=> \E n \in 1..(L + 1) : One(asked'[n])
    BY <1>2, <1>7 DEF Sent, After, Serves
  <2>3. New(d) <=> One(r)
    OBVIOUS
  <2> HIDE DEF One, New
  <2>4. (\E n \in 1..(L + 1) : One(asked'[n])) <=> (\E n \in 1..L : One(asked[n])) \/ One(r)
    BY <1>6, <1>8, <1>9
  <2> QED
    BY <2>1, <2>2, <2>3, <2>4
<1> HIDE DEF New
<1>25. MergedSoFar'
  <2> SUFFICES ASSUME HasHeader'
               PROVE  /\ IsCsv(merged')
                      /\ \A d \in Days : (\E i \in 2..Len(merged') : merged'[i] = d) <=> Sent(d)'
    BY DEF MergedSoFar, IsCsv
  <2>1. asked # <<>> => HasHeader
    <3> SUFFICES ASSUME asked # <<>> PROVE HasHeader
      OBVIOUS
    <3>1. 1 \in 1..L
      BY <1>5, EmptySeq DEF L, TypeOK
    <3> QED
      BY <1>6, <3>1 DEF HasHeader
  <2>2. CASE nothing
    <3>1. \A d : ~New(d)
      BY <1>3, <2>2 DEF New
    <3>2. asked # <<>>
      <4>1. SUFFICES ASSUME asked = <<>> PROVE FALSE
        OBVIOUS
      <4>2. L = 0
        BY <4>1 DEF L
      <4>3. asked'[1] = r
        BY <1>6, <4>2
      <4> QED
        BY <1>3, <2>2, <4>3 DEF HasHeader
    <3> QED
      BY <1>18, <1>24, <2>1, <2>2, <3>1, <3>2 DEF MergedSoFar
  <2>3. CASE ~nothing /\ asked = <<>>
    <3>1. \A d : ~Sent(d)
      BY <2>3 DEF Sent
    <3>2. \A d : New(d) <=> r.first <= d /\ d < After(r) /\ Serves(r.product, d)
      BY <1>3, <2>3 DEF New
    <3> QED
      BY <1>19, <1>20, <1>24, <2>3, <3>1, <3>2
  <2>4. CASE ~nothing /\ asked # <<>>
    <3>1. /\ IsCsv(merged)
          /\ \A d \in Days : (\E i \in 2..Len(merged) : merged[i] = d) <=> Sent(d)
      BY <2>1, <2>4 DEF MergedSoFar
    <3>2. \A d : New(d) <=> r.first <= d /\ d < After(r) /\ Serves(r.product, d)
      BY <1>3, <2>4 DEF New
    <3> DEFINE b == Body(r)
    <3>3. /\ b \in Seq(Line) /\ IsCsv(b)
          /\ \A d \in Days : (\E i \in 2..Len(b) : b[i] = d) <=> New(d)
      BY <1>19, <2>4, <3>2
    <3>4. merged' = merged \o Tail(b)
      BY <1>21, <2>4
    <3> HIDE DEF b
    <3> DEFINE s == merged \o Tail(b)
    <3>5. /\ IsCsv(s)
          /\ \A d \in Days : (\E i \in 2..Len(s) : s[i] = d) <=>
                \/ \E i \in 2..Len(merged) : merged[i] = d
                \/ \E i \in 2..Len(b) : b[i] = d
      <4>1. merged \in Seq(Line) /\ IsCsv(merged) /\ b \in Seq(Line) /\ IsCsv(b)
        BY <1>17, <3>1, <3>3
      <4> HIDE DEF IInv
      <4> QED
        BY ONLY <4>1, MergeProperties
    <3> HIDE DEF s
    <3>6. merged' = s
      BY <3>4 DEF s
    <3>7. /\ IsCsv(merged')
          /\ \A d \in Days : (\E i \in 2..Len(merged') : merged'[i] = d) <=>
                \/ \E i \in 2..Len(merged) : merged[i] = d
                \/ \E i \in 2..Len(b) : b[i] = d
      BY <3>5, <3>6 DEF IsCsv
    <3> QED
      BY <1>24, <3>1, <3>3, <3>7
  <2> QED
    BY <2>2, <2>3, <2>4
<1>26. ParsedSoFar'
  BY <1>2 DEF ParsedSoFar
<1> QED
  BY <1>13, <1>14, <1>15, <1>16, <1>23, <1>25, <1>26

\* What a step that asks nothing keeps.
LEMMA Kept ==
    ASSUME IInv, UNCHANGED <<start, end, nrt_from, sp_to, asked, merged>>
    PROVE  /\ RequestsApart' /\ MergedSoFar'
           /\ HasHeader' <=> HasHeader
           /\ \A d : IsAsked(d)' <=> IsAsked(d)
           /\ DayOf(start)' = DayOf(start) /\ DayOf(end)' = DayOf(end)
<1>1. RequestsApart'
  BY DEF IInv, RequestsApart, After
<1>2. \A d : Sent(d)' <=> Sent(d)
  BY DEF Sent, After, Serves
<1>3. HasHeader' <=> HasHeader
  BY DEF HasHeader
<1>4. MergedSoFar'
  BY <1>2, <1>3 DEF IInv, MergedSoFar, IsCsv
<1>5. \A d : IsAsked(d)' <=> IsAsked(d)
  BY DEF IsAsked, After
<1> QED
  BY <1>1, <1>3, <1>4, <1>5 DEF DayOf

LEMMA NoKeyStep == IInv /\ NoKey => IInv'
<1> SUFFICES ASSUME IInv, NoKey PROVE IInv'
  OBVIOUS
<1>1. /\ UNCHANGED <<start, end, nrt_from, sp_to, earliest, t, asked, merged, have_header,
                     observations>>
      /\ pc = "enter" /\ pc' = "done" /\ error' = "key"
  BY DEF NoKey, Fails, world
<1>2. asked = <<>> /\ ~HasHeader
  BY <1>1 DEF IInv, Control, HasHeader
<1>3. TypeOK' /\ Control'
  BY <1>1 DEF IInv, TypeOK, Control, Errors
<1>4. RequestsApart' /\ MergedSoFar' /\ ~HasHeader'
  BY <1>1, <1>2, Kept
<1>5. RequestsSound' /\ Covered' /\ ParsedSoFar'
  BY <1>1, <1>2, <1>4 DEF RequestsSound, Covered, ParsedSoFar
<1> QED
  BY <1>3, <1>4, <1>5 DEF IInv

LEMMA EnterStep == IInv /\ Enter => IInv'
<1> SUFFICES ASSUME IInv, Enter PROVE IInv'
  OBVIOUS
<1>1. /\ UNCHANGED <<start, end, nrt_from, sp_to, earliest, asked, merged, have_header,
                     observations>>
      /\ pc = "enter"
      /\ \/ pc' = "done" /\ error' = "range" /\ t' = t
         \/ pc' = "walk" /\ error' = error /\ t' = start
  BY DEF Enter, Fails, world
<1>2. asked = <<>> /\ ~HasHeader /\ error = "none" /\ Len(asked) = 0
  BY <1>1 DEF IInv, Control, HasHeader
<1>3. start \in Nat /\ 0 <= MaxRequests
  BY DayOfTick, Constants DEF IInv, TypeOK
<1>4. TypeOK'
  BY <1>1, <1>3 DEF IInv, TypeOK, Errors
<1>5. Control'
  BY <1>1, <1>2, <1>3 DEF IInv, Control
<1>6. RequestsApart' /\ MergedSoFar' /\ ~HasHeader' /\ DayOf(start)' = DayOf(start)
  BY <1>1, <1>2, Kept
<1>7. RequestsSound' /\ ParsedSoFar'
  BY <1>1, <1>2, <1>6 DEF RequestsSound, ParsedSoFar
<1>8. Covered'
  <2>1. CASE pc' = "done" /\ error' = "range"
    BY <2>1 DEF Covered
  <2>2. CASE pc' = "walk" /\ t' = start
    <3>1. DayOf(t)' = DayOf(start) /\ DayOf(start) \in Int
      BY <1>3, <2>2, Constants, Floor DEF DayOf
    <3>2. \A d \in Int : ~(DayOf(start) <= d /\ d < DayOf(start))
      BY <3>1
    <3> QED
      BY <1>6, <2>2, <3>1, <3>2 DEF Covered
  <2> QED
    BY <1>1, <2>1, <2>2
<1> QED
  BY <1>4, <1>5, <1>6, <1>7, <1>8 DEF IInv

LEMMA LearnStep == IInv /\ LearnEarliest => IInv'
<1> SUFFICES ASSUME IInv, LearnEarliest PROVE IInv'
  OBVIOUS
<1>1. /\ UNCHANGED <<start, end, nrt_from, sp_to, t, pc, asked, merged, have_header, error,
                     observations>>
      /\ earliest' \in {nrt_from, Never}
  BY DEF LearnEarliest, world
<1>2. TypeOK' /\ Control'
  BY <1>1 DEF IInv, TypeOK, Control
<1>3. /\ RequestsApart' /\ MergedSoFar' /\ (HasHeader' <=> HasHeader)
      /\ \A d : IsAsked(d)' <=> IsAsked(d)
      /\ DayOf(start)' = DayOf(start) /\ DayOf(end)' = DayOf(end)
  BY <1>1, Kept
<1>4. DayOf(t)' = DayOf(t)
  BY <1>1 DEF DayOf
<1>5. RequestsSound'
  BY <1>1, <1>3, <1>4 DEF IInv, RequestsSound, After
<1>6. Covered'
  BY <1>1, <1>3, <1>4 DEF IInv, Covered
<1>7. ParsedSoFar'
  BY <1>1, <1>3 DEF IInv, ParsedSoFar
<1> QED
  BY <1>2, <1>3, <1>5, <1>6, <1>7 DEF IInv

\* A walk that breaks off, with an error.
LEMMA BreaksOffStep == IInv /\ (RequestFails \/ Rejected) => IInv'
<1> SUFFICES ASSUME IInv, RequestFails \/ Rejected PROVE IInv'
  OBVIOUS
<1>1. /\ UNCHANGED <<start, end, nrt_from, sp_to, earliest, t, asked, merged, have_header,
                     observations>>
      /\ \/ pc' = "parse" /\ error' = "request"
         \/ pc' = "done" /\ error' = "rejected"
  BY DEF RequestFails, Rejected, Fails, world
<1>2. TypeOK' /\ Control'
  BY <1>1 DEF IInv, TypeOK, Control, Errors
<1>3. /\ RequestsApart' /\ MergedSoFar'
      /\ DayOf(start)' = DayOf(start) /\ DayOf(end)' = DayOf(end)
  BY <1>1, Kept
<1>4. RequestsSound'
  BY <1>1, <1>3 DEF IInv, RequestsSound, After
<1>5. Covered' /\ ParsedSoFar'
  BY <1>1 DEF Covered, ParsedSoFar
<1> QED
  BY <1>2, <1>3, <1>4, <1>5 DEF IInv

LEMMA WalkEndsStep == IInv /\ WalkEnds => IInv'
<1> SUFFICES ASSUME IInv, WalkEnds PROVE IInv'
  OBVIOUS
<1>1. /\ UNCHANGED <<start, end, nrt_from, sp_to, earliest, t, asked, merged, have_header,
                     error, observations>>
      /\ pc = "walk" /\ t > end /\ pc' = "parse"
  BY DEF WalkEnds, world
<1>2. TypeOK' /\ Control'
  BY <1>1 DEF IInv, TypeOK, Control
<1>3. /\ RequestsApart' /\ MergedSoFar'
      /\ \A d : IsAsked(d)' <=> IsAsked(d)
      /\ DayOf(start)' = DayOf(start) /\ DayOf(end)' = DayOf(end)
  BY <1>1, Kept
<1>4. RequestsSound' /\ ParsedSoFar'
  BY <1>1, <1>3 DEF IInv, RequestsSound, ParsedSoFar, After
<1>5. Covered'
  <2>1. end \in Nat /\ t \in Nat
    BY DayOfTick DEF IInv, TypeOK
  <2>2. DayOf(end) <= DayOf(t) /\ DayOf(end) \in Int /\ DayOf(t) \in Int
    BY <1>1, <2>1, Constants, Distance, Floor DEF DayOf
  <2>3. \A d \in Int : d < DayOf(end) => d < DayOf(t)
    BY <2>2
  <2> QED
    BY <1>1, <1>3, <2>3 DEF IInv, Covered
<1> QED
  BY <1>2, <1>3, <1>4, <1>5 DEF IInv

\* Of a document, what is left without the header is its rows.
LEMMA RowsOf ==
    ASSUME NEW m \in Seq(Line), IsCsv(m)
    PROVE  /\ Head(m) = Header
           /\ \A i \in 2..Len(m) : m[i] # Header
           /\ ToSet(m) \ {Header} = {m[i] : i \in 2..Len(m)}
<1>1. Len(m) \in Nat /\ Len(m) >= 1 /\ m # <<>> /\ m[1] = Header
  BY EmptySeq DEF IsCsv
<1>2. Head(m) = Header
  BY <1>1, HeadTailProperties
<1>3. \A i \in 2..Len(m) : m[i] # Header
  BY Constants DEF IsCsv, Days, Header
<1>4. DOMAIN m = 1..Len(m)
  BY LenProperties
<1>5. \A i \in 1..Len(m) : i = 1 \/ i \in 2..Len(m)
  BY <1>1
<1>6. \A i \in 2..Len(m) : i \in 1..Len(m)
  BY <1>1
<1>7. ToSet(m) = {m[i] : i \in 1..Len(m)}
  BY <1>4 DEF ToSet
<1>8. ToSet(m) \ {Header} = {m[i] : i \in 2..Len(m)}
  BY <1>1, <1>3, <1>5, <1>6, <1>7
<1> QED
  BY <1>2, <1>3, <1>8

LEMMA ParseStep == IInv /\ Parse => IInv'
<1> SUFFICES ASSUME IInv, Parse PROVE IInv'
  OBVIOUS
<1>1. /\ UNCHANGED <<start, end, nrt_from, sp_to, earliest, t, asked, merged, have_header>>
      /\ pc = "parse" /\ pc' = "done"
      /\ \/ (merged = <<>> \/ Head(merged) = Header)
            /\ error' = error /\ observations' = ToSet(merged) \ {Header}
         \/ merged # <<>> /\ Head(merged) # Header
            /\ error' = (IF error = "none" THEN "columns" ELSE error)
            /\ observations' = observations
  BY DEF Parse, world
<1>2. /\ RequestsApart' /\ MergedSoFar' /\ (HasHeader' <=> HasHeader)
      /\ \A d : IsAsked(d)' <=> IsAsked(d)
      /\ DayOf(start)' = DayOf(start) /\ DayOf(end)' = DayOf(end)
  BY <1>1, Kept
<1>3. merged \in Seq(Line)
  BY DEF IInv, TypeOK, Line
<1>4. observations' \subseteq Days
  <2>1. DOMAIN merged = 1..Len(merged)
    BY <1>3, LenProperties
  <2>2. \A i \in DOMAIN merged : merged[i] \in {Header} \cup Days
    BY <1>3, <2>1, ElementOfSeq DEF Line
  <2>3. ToSet(merged) \ {Header} \subseteq Days
    BY <2>2 DEF ToSet
  <2> QED
    BY <1>1, <2>3 DEF IInv, TypeOK
<1>5. error' \in Errors /\ (error' = "none" => error = "none")
  BY <1>1 DEF IInv, TypeOK, Errors
<1>6. TypeOK' /\ Control'
  BY <1>1, <1>4, <1>5 DEF IInv, TypeOK, Control
<1>7. RequestsSound'
  BY <1>1, <1>2 DEF IInv, RequestsSound, After
<1>8. Covered'
  BY <1>1, <1>2, <1>5 DEF IInv, Covered
<1>9. ParsedSoFar'
  <2> SUFFICES ASSUME HasHeader
               PROVE  observations' = {merged'[i] : i \in 2..Len(merged')}
    BY <1>2 DEF ParsedSoFar
  <2>1. IsCsv(merged)
    BY DEF IInv, MergedSoFar
  <2>2. /\ Head(merged) = Header
        /\ ToSet(merged) \ {Header} = {merged[i] : i \in 2..Len(merged)}
    BY <1>3, <2>1, RowsOf
  <2> QED
    BY <1>1, <2>2
<1> QED
  BY <1>2, <1>6, <1>7, <1>8, <1>9 DEF IInv

LEMMA StutterStep == IInv /\ UNCHANGED vars => IInv'
<1> SUFFICES ASSUME IInv, UNCHANGED vars PROVE IInv'
  OBVIOUS
<1>1. UNCHANGED <<start, end, nrt_from, sp_to, earliest, pc, t, asked, merged, have_header,
                  error, observations>>
  BY DEF vars, world
<1>2. TypeOK' /\ Control'
  BY <1>1 DEF IInv, TypeOK, Control
<1>3. /\ RequestsApart' /\ MergedSoFar' /\ (HasHeader' <=> HasHeader)
      /\ \A d : IsAsked(d)' <=> IsAsked(d)
      /\ DayOf(start)' = DayOf(start) /\ DayOf(end)' = DayOf(end)
  BY <1>1, Kept
<1>4. DayOf(t)' = DayOf(t)
  BY <1>1 DEF DayOf
<1>5. RequestsSound'
  BY <1>1, <1>3, <1>4 DEF IInv, RequestsSound, After
<1>6. Covered'
  BY <1>1, <1>3, <1>4 DEF IInv, Covered
<1>7. ParsedSoFar'
  BY <1>1, <1>3 DEF IInv, ParsedSoFar
<1> QED
  BY <1>2, <1>3, <1>5, <1>6, <1>7 DEF IInv
-----------------------------------------------------------------------------
\* Every step of FirmsAdapter::fetch keeps the state consistent with the
\* requests made so far.
THEOREM Inductive == Spec => []IInv
<1>1. Init => IInv
  BY Initial
<1>2. IInv /\ [Next]_vars => IInv'
  <2> SUFFICES ASSUME IInv, [Next]_vars PROVE IInv'
    OBVIOUS
  <2>1. CASE NoKey
    BY <2>1, NoKeyStep
  <2>2. CASE Enter
    BY <2>2, EnterStep
  <2>3. CASE LearnEarliest
    BY <2>3, LearnStep
  <2>4. ASSUME NEW nothing \in BOOLEAN, Answered(nothing) PROVE IInv'
    BY <2>4, AnsweredStep
  <2>5. CASE RequestFails \/ Rejected
    BY <2>5, BreaksOffStep
  <2>6. CASE WalkEnds
    BY <2>6, WalkEndsStep
  <2>7. CASE Parse
    BY <2>7, ParseStep
  <2>8. CASE UNCHANGED vars
    BY <2>8, StutterStep
  <2> QED
    BY <2>1, <2>2, <2>3, <2>4, <2>5, <2>6, <2>7, <2>8 DEF Next
<1> QED
  BY <1>1, <1>2, PTL DEF Spec

\* The types of the walk's variables.
THEOREM TypeCorrect == Spec => []TypeOK
<1>1. IInv => TypeOK
  BY DEF IInv
<1> QED
  BY <1>1, Inductive, PTL

\* source.cpp:402: the chunks neither overlap nor leave the window, for any
\* length of chunk and any alignment of the window with the days.
THEOREM DaysOnce == Spec => []NoDayTwice
<1>1. IInv => NoDayTwice
  <2> SUFFICES ASSUME IInv PROVE NoDayTwice
    OBVIOUS
  <2>1. ASSUME NEW n \in DOMAIN asked
        PROVE  /\ asked[n].first \in Int /\ asked[n].span \in Int
               /\ DaysOf(asked[n]) \subseteq Window
    <3>1. asked[n] \in Requests
      BY <2>1, LenProperties, ElementOfSeq DEF IInv, TypeOK
    <3>2. asked[n].first \in Int /\ asked[n].span \in Int
      BY <3>1, Constants DEF Requests
    <3>3. DayOf(start) \in Int /\ DayOf(end) \in Int
      BY DayOfTick DEF IInv, TypeOK, Days
    <3>4. DayOf(start) <= asked[n].first /\ asked[n].first + asked[n].span <= DayOf(end) + 1
      BY <2>1 DEF IInv, RequestsSound, After
    <3> QED
      BY <3>2, <3>3, <3>4 DEF DaysOf, Window
  <2>2. AskedDays \subseteq Window
    BY <2>1 DEF AskedDays
  <2>3. ASSUME NEW m \in DOMAIN asked, NEW n \in DOMAIN asked, m < n
        PROVE  DaysOf(asked[m]) \cap DaysOf(asked[n]) = {}
    <3>1. asked[m].first + asked[m].span <= asked[n].first
      BY <2>3 DEF IInv, RequestsApart, After
    <3> QED
      BY <2>1, <3>1 DEF DaysOf
  <2> QED
    BY <2>2, <2>3 DEF NoDayTwice
<1> QED
  BY <1>1, Inductive, PTL

\* Stepping by the instant and naming requests by the day leaves out no day but
\* the last.
THEOREM NoneLeftOut == Spec => []NoGap
<1>1. IInv => NoGap
  <2> SUFFICES ASSUME IInv, pc = "done", error = "none", Len(asked) <= MaxRequests,
                      NEW d \in Window \ {DayOf(end)}
               PROVE  d \in AskedDays
    BY DEF NoGap
  <2>1. DayOf(start) \in Int /\ DayOf(end) \in Int
    BY DayOfTick DEF IInv, TypeOK, Days
  <2>2. d \in Int /\ DayOf(start) <= d /\ d < DayOf(end)
    BY <2>1 DEF Window
  <2>3. PICK n \in DOMAIN asked : asked[n].first <= d /\ d < After(asked[n])
    BY <2>2 DEF IInv, Covered, IsAsked
  <2>4. asked[n] \in Requests
    BY <2>3, LenProperties, ElementOfSeq DEF IInv, TypeOK
  <2>5. asked[n].first \in Int /\ asked[n].span \in Int
    BY <2>4, Constants DEF Requests
  <2>6. d \in DaysOf(asked[n])
    BY <2>2, <2>3, <2>5 DEF DaysOf, After
  <2> QED
    BY <2>3, <2>6 DEF AskedDays
<1> QED
  BY <1>1, Inductive, PTL

\* source.cpp:350: NRT is asked for nothing older than it holds, whatever
\* nrt_earliest has learnt.
THEOREM NrtRight == Spec => []NrtNeverTooOld
<1>1. IInv => NrtNeverTooOld
  <2> SUFFICES ASSUME IInv, NEW n \in DOMAIN asked, asked[n].product = "NRT",
                      NEW d \in DaysOf(asked[n])
               PROVE  d >= nrt_from
    BY DEF NrtNeverTooOld
  <2>1. asked[n] \in Requests
    BY LenProperties, ElementOfSeq DEF IInv, TypeOK
  <2>2. asked[n].first \in Int /\ asked[n].span \in Int
    BY <2>1, Constants DEF Requests
  <2>3. nrt_from <= asked[n].first /\ nrt_from \in Int
    BY DEF IInv, RequestsSound, TypeOK, Days
  <2> QED
    BY <2>2, <2>3 DEF DaysOf
<1> QED
  BY <1>1, Inductive, PTL

\* source.cpp:430: the bodies merged under one header parse to every row the
\* service sent.
THEOREM MergedRight == Spec => []MergedIsCsv
<1>1. IInv => MergedIsCsv
  <2> SUFFICES ASSUME IInv, pc = "done", asked # <<>>, ~asked[1].empty, error # "rejected"
               PROVE  /\ Head(merged) = Header
                      /\ \A n \in 2..Len(merged) : merged[n] # Header
                      /\ observations = {d \in AskedDays : \E n \in Answers(d) :
                                           Serves(asked[n].product, d)}
    BY DEF MergedIsCsv
  <2>1. merged \in Seq(Line)
    BY DEF IInv, TypeOK, Line
  <2>2. /\ IsCsv(merged)
        /\ \A d \in Days : (\E i \in 2..Len(merged) : merged[i] = d) <=> Sent(d)
        /\ observations = {merged[i] : i \in 2..Len(merged)}
    BY DEF IInv, MergedSoFar, ParsedSoFar, HasHeader
  <2>3. Head(merged) = Header /\ \A n \in 2..Len(merged) : merged[n] # Header
    BY <2>1, <2>2, RowsOf
  <2>4. \A d \in observations : d \in Days /\ Sent(d)
    BY <2>2 DEF IsCsv
  <2>5. \A d : d \in Days /\ Sent(d) => d \in observations
    BY <2>2
  <2>6. ASSUME NEW n \in DOMAIN asked, NEW d \in Int
        PROVE  d \in DaysOf(asked[n]) <=> asked[n].first <= d /\ d < After(asked[n])
    <3>1. asked[n] \in Requests
      BY <2>6, LenProperties, ElementOfSeq DEF IInv, TypeOK
    <3>2. asked[n].first \in Int /\ asked[n].span \in Int
      BY <3>1, Constants DEF Requests
    <3> QED
      BY <3>2 DEF DaysOf, After
  <2>7. \A d \in Int : Sent(d) <=> \E n \in Answers(d) : Serves(asked[n].product, d)
    BY <2>6 DEF Sent, Answers
  <2>8. \A d : (\E n \in Answers(d) : Serves(asked[n].product, d)) => d \in AskedDays /\ d \in Days
    BY DEF Answers, AskedDays, Serves
  <2>9. \A d \in Days : d \in Int
    BY Constants DEF Days
  <2> QED
    BY <2>3, <2>4, <2>5, <2>7, <2>8, <2>9
<1> QED
  BY <1>1, Inductive, PTL
=============================================================================
