------------------------------ MODULE FirmsWalk ------------------------------
(***************************************************************************)
(* FirmsAdapter::fetch: a query window is walked a chunk of days at a time,  *)
(* each chunk asked of the near-real-time product (NRT) or of the archive    *)
(* (SP), and the CSV bodies merged under one header into one Fetch.          *)
(*                                                                         *)
(* Days are numbered; an instant is a number of ticks, Day of them to a day. *)
(* A line of CSV is Header or the day of a detection; the service, external  *)
(* to the code, has one detection a day and answers with a stream's rows.    *)
(***************************************************************************)
EXTENDS Integers, Sequences, SequencesExt

CONSTANTS
    Day,           \* ticks in a day (the code's kDayMs)
    ChunkDays,     \* days to a request (kChunkDays, 5)
    MaxRequests,   \* the guard against absurd spans (200)
    Horizon        \* bound: the last day of the model

ASSUME WalkAssumption ==
    /\ Day \in Nat \ {0}
    /\ ChunkDays \in Nat \ {0}
    /\ MaxRequests \in Nat
    /\ Horizon \in Nat

Days   == 0..Horizon
Ticks  == 0..((Horizon + 1) * Day - 1)
Header == -1
Never  == Horizon + 1      \* "2099-01-01"
Unset  == -1

Errors == {"none", "key", "range", "request", "rejected", "columns"}

VARIABLES
    start, end,    \* the query's window
    nrt_from,      \* external: the first day NRT holds
    sp_to,         \* external: the last day SP holds
    earliest,      \* nrt_earliest()'s cached v
    pc,
    t,             \* the loop variable
    asked,         \* the requests answered, each with whether it was with an
                   \*   empty body
    merged,
    have_header,
    error,
    observations   \* the days of f.observations

world == <<start, end, nrt_from, sp_to>>
vars == <<world, earliest, pc, t, asked, merged, have_header, error, observations>>

Requests == [first : Int, span : 1..ChunkDays, product : {"NRT", "SP"},
             empty : BOOLEAN]

TypeOK ==
    /\ start \in Ticks /\ end \in Ticks
    /\ nrt_from \in Days /\ sp_to \in Days
    /\ earliest \in {Unset, nrt_from, Never}
    /\ pc \in {"enter", "walk", "parse", "done"}
    /\ t \in Nat
    /\ asked \in Seq(Requests)
    /\ Len(asked) <= MaxRequests + 1
    /\ merged \in Seq({Header} \cup Days)
    /\ have_header \in BOOLEAN
    /\ error \in Errors
    /\ observations \subseteq Days

Init ==
    /\ start \in Ticks /\ end \in Ticks
    /\ nrt_from \in Days /\ sp_to \in Days
    /\ earliest = Unset
    /\ pc = "enter"
    /\ t = 0
    /\ asked = <<>>
    /\ merged = <<>>
    /\ have_header = FALSE
    /\ error = "none"
    /\ observations = {}

-----------------------------------------------------------------------------
DayOf(tick) == tick \div Day

Fails(reason) ==
    /\ error' = reason
    /\ pc' = "done"

\* FIRMS_MAP_KEY is not set.
NoKey ==
    /\ pc = "enter"
    /\ Fails("key")
    /\ UNCHANGED <<world, earliest, t, asked, merged, have_header,
                   observations>>

Enter ==
    /\ pc = "enter"
    /\ IF end < start
         THEN /\ Fails("range")
              /\ UNCHANGED t
         ELSE /\ t' = start
              /\ pc' = "walk"
              /\ UNCHANGED error
    /\ UNCHANGED <<world, earliest, asked, merged, have_header,
                   observations>>

\* nrt_earliest(): asked once a process; on failure, no NRT knowledge at all.
LearnEarliest ==
    /\ pc = "walk"
    /\ t <= end
    /\ earliest = Unset
    /\ earliest' \in {nrt_from, Never}
    /\ UNCHANGED <<world, pc, t, asked, merged, have_header, error,
                   observations>>

ProductByLastDay(day) == IF day + ChunkDays - 1 >= earliest THEN "NRT" ELSE "SP"
product_for(day) == IF day >= earliest THEN "NRT" ELSE "SP"

SpanWholeChunk == ChunkDays
Span ==
    LET remaining == (end - t) \div Day + 1
    IN  IF remaining < ChunkDays THEN remaining ELSE ChunkDays

Request(nothing) == [first |-> DayOf(t), span |-> Span,
                     product |-> product_for(DayOf(t)), empty |-> nothing]

DaysOf(r) == r.first..(r.first + r.span - 1)

Serves(product, d) ==
    d \in Days /\ (IF product = "NRT" THEN d >= nrt_from ELSE d <= sp_to)

\* What the service answers to r, external: 200 or 204 with nothing, or CSV.
Oldest(r) == IF r.product = "NRT" /\ r.first < nrt_from THEN nrt_from ELSE r.first
Latest(r) ==
    LET limit == IF r.product = "NRT" THEN Horizon ELSE sp_to
        last == r.first + r.span - 1
    IN  IF limit < last THEN limit ELSE last
Body(r) ==
    IF r.empty THEN <<>>
    ELSE <<Header>> \o [n \in 1..(Latest(r) - Oldest(r) + 1) |-> Oldest(r) + n - 1]

WithHeader(body) == body
Headless(body) == IF have_header /\ body # <<>> THEN Tail(body) ELSE body

StrideOverDay == t + Day * (ChunkDays + 1)
Stride == t + Day * ChunkDays

\* One turn of the loop, answered.
Answered(nothing) ==
    /\ pc = "walk"
    /\ t <= end
    /\ earliest # Unset
    /\ merged' = merged \o Headless(Body(Request(nothing)))
    /\ have_header' = TRUE
    /\ asked' = Append(asked, Request(nothing))
    /\ t' = Stride
    /\ pc' = IF Len(asked) + 1 > MaxRequests THEN "parse" ELSE "walk"
    /\ UNCHANGED <<world, earliest, error, observations>>

\* The transfer fails: the loop breaks, with what was merged so far.
RequestFails ==
    /\ pc = "walk"
    /\ t <= end
    /\ earliest # Unset
    /\ error' = "request"
    /\ pc' = "parse"
    /\ UNCHANGED <<world, earliest, t, asked, merged, have_header,
                   observations>>

\* "Invalid MAP_KEY": returned at once, nothing parsed.
Rejected ==
    /\ pc = "walk"
    /\ t <= end
    /\ earliest # Unset
    /\ Fails("rejected")
    /\ UNCHANGED <<world, earliest, t, asked, merged, have_header,
                   observations>>

WalkEnds ==
    /\ pc = "walk"
    /\ t > end
    /\ pc' = "parse"
    /\ UNCHANGED <<world, earliest, t, asked, merged, have_header, error,
                   observations>>

\* The first line names the columns; a later header's date is no date.
Parse ==
    /\ pc = "parse"
    /\ pc' = "done"
    /\ IF merged = <<>> \/ Head(merged) = Header
         THEN /\ observations' = ToSet(merged) \ {Header}
              /\ UNCHANGED error
         ELSE /\ error' = IF error = "none" THEN "columns" ELSE error
              /\ UNCHANGED observations
    /\ UNCHANGED <<world, earliest, t, asked, merged, have_header>>

Next ==
    \/ NoKey
    \/ Enter
    \/ LearnEarliest
    \/ \E nothing \in BOOLEAN : Answered(nothing)
    \/ RequestFails
    \/ Rejected
    \/ WalkEnds
    \/ Parse

Spec == Init /\ [][Next]_vars

-----------------------------------------------------------------------------
(* Properties                                                               *)

Window == DayOf(start)..DayOf(end)

AskedDays == UNION {DaysOf(asked[n]) : n \in DOMAIN asked}

\* The walk never asks for a day twice, nor for one outside the window, at any
\* alignment of the window's ends with the days and with the chunks.
NoDayTwice ==
    /\ AskedDays \subseteq Window
    /\ \A m, n \in DOMAIN asked : m < n => DaysOf(asked[m]) \cap DaysOf(asked[n]) = {}

\* A walk that ends without an error and without meeting its guard has left no
\* day out between the days it asked for, and none before the last one.
NoGap ==
    pc = "done" /\ error = "none" /\ Len(asked) <= MaxRequests =>
        (Window \ {DayOf(end)}) \subseteq AskedDays

\* source.cpp:350, "Querying NRT for an older date returns an EMPTY CSV with
\* HTTP 200 - a silent wrong answer": no day is asked of NRT that NRT lacks.
NrtNeverTooOld ==
    \A n \in DOMAIN asked :
        asked[n].product = "NRT" => \A d \in DaysOf(asked[n]) : d >= nrt_from

Answers(d) == {n \in DOMAIN asked : ~asked[n].empty /\ d \in DaysOf(asked[n])}

\* The merged body is a CSV document whenever the first answer has a header: it
\* comes once, first, and every row the service sent is an observation, up to
\* the request that failed.
MergedIsCsv ==
    pc = "done" /\ asked # <<>> /\ ~asked[1].empty /\ error # "rejected" =>
        /\ Head(merged) = Header
        /\ \A n \in 2..Len(merged) : merged[n] # Header
        /\ observations = {d \in AskedDays : \E n \in Answers(d) :
                                               Serves(asked[n].product, d)}

\* source.cpp:404, "Longer windows must be walked a chunk at a time; the caller
\* sees one Fetch": a Fetch without an error covers the window to its last day.
LastDayKept ==
    pc = "done" /\ error = "none" /\ Len(asked) <= MaxRequests => Window \subseteq AskedDays
=============================================================================
