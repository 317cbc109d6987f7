-------------------------------- MODULE Json --------------------------------
(***************************************************************************)
(* kst::json::parse.  A document is read token by token (whitespace is not  *)
(* a token); a string token carries the items between its quotes, a number  *)
(* token its characters, and parse_string and parse_number work through      *)
(* them.  The limits are constants: with them the documents are finitely     *)
(* many, so that TLC can compare what is accepted and what is refused with   *)
(* the whole language.                                                      *)
(***************************************************************************)
EXTENDS Document, Utf8

CONSTANTS max_depth, max_string_bytes, max_container_members, \* json::Limits
          max_exponent10, min_exponent10, \* the orders of magnitude of a double
          FirstTokens,  \* the tokens a document may begin with,
          ValueTokens,  \* those tried inside, where a value is read,
          OtherTokens   \* and those tried elsewhere

ASSUME JsonAssumption ==
    /\ {max_depth, max_string_bytes, max_container_members} \subseteq Nat
    /\ {max_exponent10, min_exponent10} \subseteq Int

Mark(m) == <<"mark", m>>
Opening == {Mark("{"), Mark("[")}
Closing(kind) == Mark(IF kind = "object" THEN "}" ELSE "]")
-----------------------------------------------------------------------------
(* parse_string.  An item: <<"byte", b>> below 128, <<"escape", b>>,         *)
(* <<"u", n>> (\u and four digits; <<"u", -1>> when they are not four        *)
(* hexadecimal digits), <<"raw", bytes>> from a byte of 128 or more on.      *)

Quote == <<"byte", 34>>

\* What may stand between the quotes.
CodeUnit == -1..65535
TextItem == ({"byte", "escape"} \X (0..127)) \cup ({"u"} \X CodeUnit)
            \cup ({"raw"} \X (Seq(Byte) \ {<<>>}))

ASSUME TokensAssumption ==
    \A t \in FirstTokens \cup ValueTokens \cup OtherTokens :
        t[1] = "string" => t[2] \in Seq(TextItem)

\* The byte a one-letter escape stands for: " \ / b f n r t.
Escaped == [b \in {34, 92, 47, 98, 102, 110, 114, 116} |->
              CASE b = 98 -> 8 [] b = 102 -> 12 [] b = 110 -> 10 [] b = 114 -> 13
                [] b = 116 -> 9 [] OTHER -> b]

High(n) == n \in 55296..56319
Low(n) == n \in 56320..57343

\* A scan that ended badly keeps its text.
Put(scan, bytes) == [scan EXCEPT !.out = @ \o bytes]
Fail(scan) == [scan EXCEPT !.state = "error"]

\* append_unicode_escape, in the order the two halves arrive.
append_unicode_escape(scan, n) ==
    IF scan.high # 0
      THEN IF Low(n)
             THEN [Put(scan, append_codepoint_utf8(
                               65536 + (scan.high - 55296) * 1024 + (n - 56320)))
                   EXCEPT !.high = 0]
             ELSE Fail(scan)
    ELSE IF High(n) THEN [scan EXCEPT !.high = n]
    ELSE IF Low(n) \/ n < 0 THEN Fail(scan)
    ELSE Put(scan, append_codepoint_utf8(n))

ScanItem(scan, item) ==
    IF scan.state # "open" THEN scan
    ELSE IF scan.high # 0 /\ item[1] # "u" THEN Fail(scan)
    ELSE IF scan.high = 0 /\ Len(scan.out) > max_string_bytes THEN Fail(scan)
    ELSE IF item = Quote THEN [scan EXCEPT !.state = "closed"]
    ELSE CASE item[1] = "byte"   -> IF item[2] < 32 THEN Fail(scan)
                                                    ELSE Put(scan, <<item[2]>>)
           [] item[1] = "escape" -> IF item[2] \in DOMAIN Escaped
                                      THEN Put(scan, <<Escaped[item[2]]>>)
                                      ELSE Fail(scan)
           [] item[1] = "u"      -> append_unicode_escape(scan, item[2])
           [] item[1] = "raw"    -> IF AcceptsSequence(item[2])
                                      THEN Put(scan, item[2])
                                      ELSE Fail(scan)

\* The items after the opening quote; a text that is not closed is an error.
parse_string(items) ==
    FoldLeft(ScanItem, [out |-> <<>>, high |-> 0, state |-> "open"], items)
-----------------------------------------------------------------------------
(* parse_number: the position after the part of chars it consumes, or 0.     *)

CharAt(chars, n) == IF n \in DOMAIN chars THEN chars[n] ELSE "eof"
Digit == {"0", "1"}   \* zero, and a digit that is not, which counts as one

DecimalOf(digits) ==
    FoldLeft(LAMBDA n, c : 10 * n + (IF c = "1" THEN 1 ELSE 0), 0, digits)

AfterDigits(chars, n) ==
    CHOOSE m \in n..(Len(chars) + 1) :
        /\ CharAt(chars, m) \notin Digit
        /\ \A k \in n..(m - 1) : chars[k] \in Digit

AfterInteger(chars) ==
    LET n == IF CharAt(chars, 1) = "-" THEN 2 ELSE 1
    IN  CASE CharAt(chars, n) = "0" -> n + 1
          [] CharAt(chars, n) = "1" -> AfterDigits(chars, n)
          [] OTHER -> 0

\* Digits have to follow: at least one.
AfterSomeDigits(chars, n) ==
    IF CharAt(chars, n) \in Digit THEN AfterDigits(chars, n) ELSE 0

AfterFraction(chars, n) ==
    IF n # 0 /\ CharAt(chars, n) = "." THEN AfterSomeDigits(chars, n + 1) ELSE n

AfterExponent(chars, n) ==
    IF n # 0 /\ CharAt(chars, n) = "e"
      THEN AfterSomeDigits(chars, IF CharAt(chars, n + 1) \in {"+", "-"}
                                    THEN n + 2 ELSE n + 1)
      ELSE n

\* std::from_chars: the power of ten of the first digit that is not zero, for the
\* integer part that ends before i, the fraction before f, the exponent before n.
\* A mantissa next to the largest or the smallest double is not told from others.
OutOfRange(chars, i, f, n) ==
    LET ink == {p \in 1..(f - 1) : chars[p] = "1"}
        first == CHOOSE p \in ink : \A q \in ink : p <= q
        order == IF first < i THEN i - 1 - first ELSE i - first
        exponent == IF n = f THEN 0
                    ELSE (IF chars[f + 1] = "-" THEN -1 ELSE 1)
                         * DecimalOf(SubSeq(chars, f + 1, n - 1))
    IN  ink # {} /\ order + exponent \notin min_exponent10..max_exponent10

parse_number(chars) ==
    LET i == AfterInteger(chars)
        f == AfterFraction(chars, i)
        n == AfterExponent(chars, f)
    IN  IF n # 0 /\ OutOfRange(chars, i, f, n) THEN 0 ELSE n
-----------------------------------------------------------------------------
(* parse_value, parse_object, parse_array: one action per token.             *)

\* The value of a token that is one, as a set: empty when it is malformed.  What
\* parse_number leaves unread is refused by whoever reads on.
ScalarOf(t) ==
    CASE t[1] = "word" -> IF t[2] \in {"true", "false", "null"} THEN {t} ELSE {}
      [] t[1] = "number" -> IF parse_number(t[2]) = Len(t[2]) + 1 THEN {t} ELSE {}
      [] t[1] = "string" -> IF parse_string(t[2]).state = "closed"
                              THEN {<<"string", parse_string(t[2]).out>>} ELSE {}
      [] OTHER -> {}

TakesValue == at \in {"value", "first"}

\* v is returned to the innermost of the calls that remain.
Return(v, calls) ==
    IF calls = <<>>
    THEN /\ value' = v
         /\ open' = calls
         /\ at' = "end"
         /\ UNCHANGED verdict
    ELSE LET caller == Last(calls)
             member == IF caller.kind = "object" THEN <<caller.key, v>> ELSE v
         IN  /\ open' = ReplaceAt(calls, Len(calls),
                           [caller EXCEPT !.members = Append(@, member)])
             /\ verdict' = IF Len(caller.members) + 1 > max_container_members
                             THEN "members" ELSE verdict
             /\ at' = "after"
             /\ UNCHANGED value

OpenContainer(t) ==
    /\ TakesValue
    /\ t \in Opening
    /\ Consume(t)
    /\ depth' = depth + 1
    /\ LET kind == IF t = Mark("{") THEN "object" ELSE "array"
       IN  /\ open' = Append(open, [kind |-> kind, key |-> <<>>, members |-> <<>>])
           /\ at' = IF kind = "object" THEN "firstkey" ELSE "first"
    /\ verdict' = IF depth + 1 > max_depth THEN "depth" ELSE verdict
    /\ UNCHANGED value

Returned(call) == <<call.kind, call.members>>

CloseContainerKeepsDepth(t) ==
    /\ at \in {"first", "firstkey", "after"} /\ open # <<>>
    /\ t = Closing(Innermost.kind)
    /\ Consume(t)
    /\ depth' = IF at = "after" THEN depth - 1 ELSE depth
    /\ Return(Returned(Innermost), Front(open))

CloseContainer(t) ==
    /\ at \in {"first", "firstkey", "after"} /\ open # <<>>
    /\ t = Closing(Innermost.kind)
    /\ Consume(t)
    /\ depth' = depth - 1
    /\ Return(Returned(Innermost), Front(open))

ReadScalar(t) ==
    /\ TakesValue
    /\ \E v \in ScalarOf(t) :
          /\ Consume(t)
          /\ Return(v, open)
    /\ UNCHANGED depth

KnownAsWritten(t) ==
    \E n \in DOMAIN Innermost.members :
        t = <<"string", [k \in DOMAIN Innermost.members[n][1] |->
                           <<"byte", Innermost.members[n][1][k]>>] \o <<Quote>>>>

\* A key is compared as decoded, not as written.
Known(t) ==
    \E n \in DOMAIN Innermost.members :
        Innermost.members[n][1] = parse_string(t[2]).out

ReadKey(t) ==
    /\ at \in {"firstkey", "key"}
    /\ t[1] = "string" /\ ScalarOf(t) # {}
    /\ Consume(t)
    /\ verdict' = IF Known(t) THEN "duplicate" ELSE verdict
    /\ open' = [open EXCEPT ![Len(open)].key = parse_string(t[2]).out]
    /\ at' = "colon"
    /\ UNCHANGED <<depth, value>>

ReadColon(t) ==
    /\ at = "colon"
    /\ t = Mark(":")
    /\ Consume(t)
    /\ at' = "value"
    /\ UNCHANGED <<open, depth, verdict, value>>

ReadComma(t) ==
    /\ at = "after"
    /\ t = Mark(",")
    /\ Consume(t)
    /\ at' = IF Innermost.kind = "object" THEN "key" ELSE "value"
    /\ UNCHANGED <<open, depth, verdict, value>>

ReadEnd(t) ==
    /\ at = "end"
    /\ t = Eof
    /\ Consume(t)
    /\ verdict' = Accepted
    /\ UNCHANGED <<open, depth, at, value>>

\* What the call reading here does not expect.
Unexpected(t) ==
    CASE TakesValue     -> /\ t \notin Opening
                           /\ ScalarOf(t) = {}
                           /\ ~(at = "first" /\ t = Mark("]"))
      [] at = "firstkey" -> t # Mark("}") /\ (t[1] # "string" \/ ScalarOf(t) = {})
      [] at = "key"      -> t[1] # "string" \/ ScalarOf(t) = {}
      [] at = "colon"    -> t # Mark(":")
      [] at = "after"    -> t # Mark(",") /\ t # Closing(Innermost.kind)
      [] at = "end"      -> t # Eof

RefuseToken(t) == Unexpected(t) /\ Refuse(t, "syntax")

JsonTokens == IF read = <<>> THEN FirstTokens
              ELSE IF TakesValue THEN ValueTokens
              ELSE OtherTokens

JsonBegins == Turn("json", "value")

JsonNext ==
    \E t \in JsonTokens :
        \/ OpenContainer(t)
        \/ CloseContainer(t)
        \/ ReadScalar(t)
        \/ ReadKey(t)
        \/ ReadColon(t)
        \/ ReadComma(t)
        \/ ReadEnd(t)
        \/ RefuseToken(t)
-----------------------------------------------------------------------------
(* The reference: the strings, numbers and documents of RFC 8259 within the  *)
(* limits and the range of a double.                                        *)

\* The UTF-16 units an item, or a whole text, is made of.
UnitsOfItem(item) == CASE item[1] = "raw"    -> Utf16(Point(item[2]))
                       [] item[1] = "escape" -> <<Escaped[item[2]]>>
                       [] OTHER              -> <<item[2]>>

\* A text cut into its characters: a continuation goes with those before it.
TakeByte(chunks, b) ==
    IF b \in 128..191 /\ chunks # <<>>
      THEN Append(Front(chunks), Append(Last(chunks), b))
      ELSE Append(chunks, <<b>>)

Chunks(bytes) == FoldLeft(TakeByte, <<>>, bytes)

UnitsOfText(bytes) ==
    LET chunks == Chunks(bytes)
    IN  FlattenSeq([k \in DOMAIN chunks |->
                      IF Len(chunks[k]) = 1 THEN chunks[k] ELSE Utf16(Point(chunks[k]))])

BytesOf(item) ==
    CASE item[1] = "raw" -> Len(item[2])
      [] item[1] = "u" -> CASE item[2] < 128 -> 1
                            [] item[2] \in 128..2047 -> 2
                            [] item[2] \in Surrogate -> 2
                            [] OTHER -> 3
      [] OTHER -> 1

LegalItem(items, n) ==
    LET item == items[n]
        Unit(m) == IF m \in DOMAIN items /\ items[m][1] = "u" THEN items[m][2] ELSE 0
    IN  CASE item[1] = "byte"   -> item[2] >= 32 /\ item # Quote
          [] item[1] = "escape" -> item[2] \in DOMAIN Escaped
          [] item[1] = "raw"    -> WellFormed(item[2])
          [] item[1] = "u"      -> /\ item[2] >= 0
                                   /\ High(item[2]) => Low(Unit(n + 1))
                                   /\ Low(item[2]) => High(Unit(n - 1))

LegalString(items) ==
    /\ items # <<>> /\ Last(items) = Quote
    /\ \A n \in 1..(Len(items) - 1) : LegalItem(items, n)
    /\ FoldFunction(+, 0, [n \in 1..(Len(items) - 1) |-> BytesOf(items[n])])
          <= max_string_bytes

\* Sign, integer and fraction end after a, b and c characters.  The digits without
\* the point and without the zeros before them say how large the number is.
IsNumber(chars) ==
    LET AllDigits(s) == s # <<>> /\ Range(s) \subseteq Digit
        Integer(s)   == s = <<"0">> \/ (AllDigits(s) /\ s[1] # "0")
        Fraction(s)  == s = <<>> \/ (s[1] = "." /\ AllDigits(Tail(s)))
        Exponent(s)  == \/ s = <<>>
                        \/ /\ Len(s) > 1 /\ s[1] = "e"
                           /\ \/ AllDigits(Tail(s))
                              \/ (s[2] \in {"+", "-"} /\ AllDigits(Tail(Tail(s))))
        Digits(s)    == SelectSeq(s, LAMBDA ch : ch # ".")
        Ink(s)       == {n \in DOMAIN s : \E m \in 1..n : s[m] = "1"}
        Power(s)     == IF s = <<>> THEN 0
                        ELSE IF s[2] = "-" THEN -DecimalOf(Tail(Tail(s))) ELSE DecimalOf(Tail(s))
        Held(s, fraction, power) ==
            Ink(s) # {} =>
                Cardinality(Ink(s)) - 1 - Len(Digits(fraction)) + power
                    \in min_exponent10..max_exponent10
    IN  \E a, b, c \in 0..Len(chars) :
           /\ SubSeq(chars, 1, a) \in {<<>>, <<"-">>}
           /\ Integer(SubSeq(chars, a + 1, b))
           /\ Fraction(SubSeq(chars, b + 1, c))
           /\ Exponent(SubSeq(chars, c + 1, Len(chars)))
           /\ Held(Digits(SubSeq(chars, a + 1, c)), SubSeq(chars, b + 1, c),
                   Power(SubSeq(chars, c + 1, Len(chars))))

Malformed == <<"malformed">>

Meaning(t) ==
    CASE t[1] = "string" -> IF LegalString(t[2])
                              THEN <<"string", parse_string(t[2]).out>> ELSE Malformed
      [] t[1] = "number" -> IF IsNumber(t[2]) THEN t ELSE Malformed
      [] t[1] = "word"   -> IF t[2] \in {"true", "false", "null"} THEN t ELSE Malformed
      [] OTHER           -> t

ScalarsAmong(tokens) ==
    {Meaning(t) : t \in {u \in tokens : u[1] # "mark"}} \ {Malformed}

Keys == {v[2] : v \in {w \in ScalarsAmong(OtherTokens) : w[1] = "string"}}

\* The values that nest at most n deep.
ValuesUpTo ==
    LET Container(V) ==
            {<<"array", s>> : s \in BoundedSeq(V, max_container_members)}
            \cup {<<"object", s>> : s \in
                    {m \in BoundedSeq(Keys \X V, max_container_members) :
                       \A j, k \in DOMAIN m : j # k => m[j][1] # m[k][1]}}
        V[n \in 0..max_depth] ==
            IF n = 0 THEN ScalarsAmong(ValueTokens)
                     ELSE ScalarsAmong(ValueTokens) \cup Container(V[n - 1])
    IN  V

Written[v \in ValuesUpTo[max_depth] \cup ScalarsAmong(FirstTokens)] ==
    LET Comma(n, s) == IF n = Len(s) THEN <<>> ELSE <<Mark(",")>>
        Members(s, Write(_)) ==
            FlattenSeq([n \in DOMAIN s |-> Write(s[n]) \o Comma(n, s)])
    IN  CASE v[1] = "array" ->
               <<Mark("[")>> \o Members(v[2], LAMBDA m : Written[m]) \o <<Mark("]")>>
          [] v[1] = "object" ->
               <<Mark("{")>>
               \o Members(v[2], LAMBDA m : <<<<"string", m[1]>>, Mark(":")>> \o Written[m[2]])
               \o <<Mark("}")>>
          [] OTHER -> <<v>>

Documents == {Written[v] \o <<Eof>> : v \in DOMAIN Written}
Beginnings == UNION {{SubSeq(d, 1, n) : n \in 0..Len(d)} : d \in Documents}

WhatIsRead == [n \in DOMAIN read |-> Meaning(read[n])]

TextIsRead ==
    /\ grammar = "json" /\ verdict \in {Pending, Accepted}
    /\ read # <<>> /\ Last(read)[1] = "string"

\* What is accepted is a document of RFC 8259 within the limits and the range of
\* numbers (tests/test_json.cpp:116, "out of range is an error, not inf"), with
\* no key twice however it is written, and the value says what it says: each
\* text is well-formed UTF-8 of the UTF-16 units of its characters and escapes
\* (json.hpp: "Grammar is strict RFC 8259", "Duplicate object keys are rejected
\* outright").
JsonAcceptsItsGrammar ==
    /\ grammar = "json" /\ verdict = Accepted =>
          value \in DOMAIN Written /\ WhatIsRead = Written[value] \o <<Eof>>
    /\ TextIsRead =>
          LET items == Last(read)[2]
          IN  UnitsOfText(parse_string(items).out)
                = FlattenSeq([n \in 1..(Len(items) - 1) |-> UnitsOfItem(items[n])])

\* What is refused is no document within the limits and the range of numbers,
\* whatever would have followed: nothing is refused for the depth, the members or
\* the bytes of something else, and the limits are reached (REQ-12.3, "acceptance
\* is a pure function of the bytes").
JsonRefusesNoDocument ==
    grammar = "json" /\ verdict \notin {Pending, Accepted} => WhatIsRead \notin Beginnings
=============================================================================
