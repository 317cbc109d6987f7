---------------------------- MODULE MCRetrieval -----------------------------
EXTENDS Retrieval

SourcesDef == {"usgs", "isc", "firms", "file"}

\* JSON's input limit is half of what a response may have.
InputLimits == [f \in {"json", "xml", "csv"} |-> IF f = "json" THEN 1 ELSE 2]

\* 0.1 is in range, 0.01 and 0.011 are not.
SmallestOrder == -1

(* JSON tokens.  Texts: each kind of item, well-formed or not, alone, in pairs *)
(* and a few in threes.                                                       *)
PlainItems == {<<"byte", 97>>, <<"byte", 31>>, <<"escape", 34>>, <<"escape", 110>>,
               <<"escape", 120>>}
UnicodeItems == {<<"u", n>> : n \in {-1, 1, 65, 8364, 55296, 56319, 56320, 57343}}
RawItems == {<<"raw", b>> : b \in {<<195, 169>>, <<193, 129>>, <<226, 130, 172>>,
                                   <<224, 130, 172>>, <<237, 160, 128>>,
                                   <<240, 159, 152, 128>>, <<244, 144, 128, 128>>,
                                   <<195, 34>>, <<128>>}}
Items == PlainItems \cup UnicodeItems \cup RawItems
FewItems == {<<"byte", 97>>, <<"escape", 110>>, <<"u", 8364>>, <<"u", 55296>>,
             <<"u", 57343>>, <<"raw", <<240, 159, 152, 128>>>>}
Strings == {<<"string", s \o e>> : s \in BoundedSeq(Items, 2) \cup [1..3 -> FewItems],
                                   e \in {<<>>, <<Quote>>}}
Numbers == {<<"number", s>> : s \in BoundedSeq({"-", "0", "1", ".", "e", "+"}, 4) \ {<<>>}}
Words == {<<"word", "null">>, <<"word", "nul">>}
Marks == {Mark(m) : m \in {"{", "}", "[", "]", ",", ":", "eof"}}
Key(items) == <<"string", Append(items, Quote)>>

Lone == Marks \cup Words \cup Numbers \cup Strings
Inside == Marks \cup {<<"word", "null">>}
\* "a", "a" written as an escape, and "b".
Elsewhere == Inside \cup {Key(<<<<"byte", 97>>>>), Key(<<<<"u", 97>>>>), Key(<<<<"byte", 98>>>>)}

(* XML tokens: a reference of each kind, in range and out of it.             *)
References == {<<"named", 60>>, <<"unknown">>, <<"decimal", <<6, 5>>>>,
               <<"decimal", <<10>>>>, <<"decimal", <<>>>>, <<"hex", <<14, 9>>>>,
               <<"hex", <<1, 1, 0, 0, 0, 0>>>>, <<"hex", <<1, 0, 15, 15, 15, 15>>>>,
               <<"hex", <<0, 0, 0, 0, 0, 0, 0, 0, 4, 1>>>>}
Entities == {<<"entity", r>> : r \in References}
Skips == {<<kind, closed>> : kind \in {"pi", "comment"}, closed \in BOOLEAN}
Tag(name, self) == <<"tag", name, <<>>, self>>
Long == <<"p", "long">>
TooLong == {Long}
FewPieces == {<<"byte", 120>>, <<"entity", <<"named", 60>>>>, <<"entity", <<"hex", <<14, 9>>>>>>}
Attributes == {<<<<<<"k">>, s>>>> : s \in BoundedSeq({<<"byte", 120>>} \cup Entities, 1)
                                           \cup [1..2 -> FewPieces]}
              \cup {<<<<<<>>, <<>>>>>>, <<<<Long, <<>>>>>>,
                   <<<<<<"p", "k">>, <<>>>>, <<<<"k">>, <<>>>>>>}

Before == Skips \cup {Eof, <<"doctype">>, <<"byte", 120>>, <<"byte", 10>>, <<"close", <<"a">>>>,
                      Tag(Long, TRUE),
                      Tag(<<>>, FALSE), Tag(<<"a">>, TRUE), Tag(<<"p", "a">>, FALSE)}
          \cup {<<"tag", <<"p", "a">>, a, TRUE>> : a \in Attributes}
Content == {<<"pi", TRUE>>, <<"byte", 9>>, <<"byte", 120>>, <<"cdata", <<120>>, TRUE>>,
            Tag(<<"a">>, FALSE), Tag(<<"b">>, FALSE), Tag(<<"b">>, TRUE),
            <<"close", <<"q", "a">>>>, <<"close", <<"b">>>>}
Early == Content \cup Skips \cup Entities
         \cup {Eof, <<"doctype">>, Tag(<<>>, FALSE), <<"close", <<>>>>, <<"close", Long>>,
               <<"cdata", <<>>, FALSE>>, <<"cdata", <<120, 120, 120>>, TRUE>>}

(* CSV tables: every field that needs quoting, at and over the limits.        *)
Fields == {<<>>, <<"x">>, <<Comma>>, <<Quotation>>, <<LF>>, <<CR, LF>>,
           <<"x", Quotation>>, <<Quotation, Quotation>>, <<"x", "x", "x">>,
           <<"x", "x", Quotation>>}
Grids(F, width, height) == UNION {[1..n -> UNION {[1..m -> F] : m \in 1..width}] : n \in 1..height}
MCTables == Grids(Fields, 2, 1)
            \cup [1..2 -> [1..2 -> {<<>>, <<Comma>>, <<Quotation>>, <<LF>>}]]
            \cup Grids({<<>>, <<"x">>}, 3, 2) \cup Grids({<<"x">>, <<>>}, 1, 4)
MCTexts == BoundedSeq({Quotation, Comma, CR, LF, "x"}, 3)
=============================================================================
