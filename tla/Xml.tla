-------------------------------- MODULE Xml ---------------------------------
(***************************************************************************)
(* kst::xml::parse, token by token.  Tokens, beside the end of the input:   *)
(*   <<"pi", closed>>, <<"comment", closed>>, <<"doctype">>,                 *)
(*   <<"tag", name, attributes, selfclosing>>, <<"close", name>>,            *)
(*   <<"byte", b>>, <<"entity", reference>>, <<"cdata", bytes, closed>>.     *)
(* A name is <<prefix, local>>, <<local>>, or <<>> when it is none; an       *)
(* attribute <<key, items>>, its items bytes and entities.  A blank before    *)
(* the root is a token, those inside a tag are not.                          *)
(***************************************************************************)
EXTENDS Document, Utf8

CONSTANTS max_children, max_text_bytes, max_element_depth, \* xml::Limits
          LongNames,      \* the names of more than max_name_bytes
          PrologTokens,   \* the tokens tried before the root element,
          EarlyTokens,    \* right after its tag,
          ContentTokens,  \* and from there on
          MaxTokens       \* the tokens of a document, a bound of the model

ASSUME XmlAssumption ==
    {max_children, max_text_bytes, max_element_depth, MaxTokens} \subseteq Nat

\* What a token may be.
Name == Seq(STRING)
Reference == ({"named"} \X Byte) \cup {<<"unknown">>} \cup ({"decimal", "hex"} \X Seq(0..15))
Piece == ({"byte"} \X Byte) \cup ({"entity"} \X Reference)
Markup == ({"pi", "comment"} \X BOOLEAN) \cup {Eof, <<"doctype">>}
          \cup ({"tag"} \X Name \X Seq(Name \X Seq(Piece)) \X BOOLEAN) \cup ({"close"} \X Name)
          \cup Piece \cup ({"cdata"} \X Seq(Byte) \X BOOLEAN)

ASSUME MarkupAssumption == PrologTokens \cup EarlyTokens \cup ContentTokens \subseteq Markup

\* parse_name.
NoName(name) == name = <<>> \/ name \in LongNames
LocalName(name) == name[Len(name)]
-----------------------------------------------------------------------------
(* decode_entity: the bytes of a reference, as a set, empty for an error.    *)
(* A reference is <<"named", byte>>, <<"unknown">>, <<"decimal", digits>> or *)
(* <<"hex", digits>>.  Its text between & and ; has at most 11 characters.   *)

BaseOf(r) == IF r[1] = "hex" THEN 16 ELSE 10

MaxDigits(r) == IF r[1] = "hex" THEN 9 ELSE 10

\* Refused as soon as a digit takes it out of range, so that it cannot overflow.
CodeOf(r) ==
    LET Shift(cp, d) == IF cp = -1 \/ d >= BaseOf(r) \/ cp * BaseOf(r) + d > 1114111
                          THEN -1 ELSE cp * BaseOf(r) + d
    IN  FoldLeft(Shift, 0, r[2])

decode_entity(r) ==
    CASE r[1] = "named"   -> {<<r[2]>>}
      [] r[1] = "unknown" -> {}
      [] OTHER            -> IF Len(r[2]) > MaxDigits(r) \/ CodeOf(r) = -1 THEN {}
                             ELSE {append_codepoint_utf8(CodeOf(r))}

\* The text with one more item, as a set.  Only a plain byte is measured.
WithItem(text, item) ==
    CASE item[1] = "byte"   -> IF Len(text) + 1 > max_text_bytes THEN {}
                               ELSE {Append(text, item[2])}
      [] item[1] = "entity" -> {text \o bytes : bytes \in decode_entity(item[2])}
      [] item[1] = "cdata"  -> IF item[3] THEN {text \o item[2]} ELSE {}

\* parse_attributes: the attributes, as a set, empty for an error.
AttributeValue(items) ==
    FoldLeft(LAMBDA texts, item : UNION {WithItem(text, item) : text \in texts},
             {<<>>}, items)

parse_attributes(attributes) ==
    IF \E n \in DOMAIN attributes :
          NoName(attributes[n][1]) \/ AttributeValue(attributes[n][2]) = {}
    THEN {}
    ELSE {[n \in DOMAIN attributes |->
             <<LocalName(attributes[n][1]),
               CHOOSE text \in AttributeValue(attributes[n][2]) : TRUE>>]}
-----------------------------------------------------------------------------
(* skip_prolog, parse_element: one action per token.                        *)

Space == {9, 10, 13, 32}
Blank(t) == t[1] = "byte" /\ t[2] \in Space

InContent == at = "content"

Skipped(t) ==
    \/ t[1] \in {"pi", "comment"} /\ t[2]
    \/ Blank(t) /\ ~InContent

SkipMarkup(t) ==
    /\ Skipped(t)
    /\ Consume(t)
    /\ UNCHANGED <<open, depth, at, verdict, value>>

\* Leading and trailing spaces of an element's text are dropped.
Trim(text) ==
    LET ink == {n \in DOMAIN text : text[n] \notin Space}
    IN  IF ink = {} THEN <<>>
        ELSE SubSeq(text, CHOOSE n \in ink : \A m \in ink : n <= m,
                          CHOOSE n \in ink : \A m \in ink : m <= n)

ReturnClearsText(element, calls) ==
    IF calls = <<>>
    THEN /\ value' = element
         /\ verdict' = Accepted
         /\ open' = calls
         /\ at' = "end"
    ELSE /\ open' = [calls EXCEPT ![Len(calls)].children = Append(@, element),
                                  ![Len(calls)].text = <<>>]
         /\ at' = "content"
         /\ UNCHANGED <<verdict, value>>

\* parse_element returns; after the root, what is left is not looked at.
ReturnElement(element, calls) ==
    IF calls = <<>>
    THEN /\ value' = element
         /\ verdict' = Accepted
         /\ open' = calls
         /\ at' = "end"
    ELSE /\ open' = [calls EXCEPT ![Len(calls)].children = Append(@, element)]
         /\ at' = "content"
         /\ UNCHANGED <<verdict, value>>

\* The errors of a start tag, in the order they are looked for; "" for none.
TagError(t) ==
    IF open # <<>> /\ Len(Innermost.children) >= max_children THEN "children"
    ELSE IF Len(open) > max_element_depth THEN "depth"
    ELSE IF NoName(t[2]) THEN "name"
    ELSE IF parse_attributes(t[3]) = {} THEN "attribute"
    ELSE ""

OpenElement(t) ==
    /\ t[1] = "tag"
    /\ TagError(t) = ""
    /\ Consume(t)
    /\ \E attributes \in parse_attributes(t[3]) :
          LET element == [name |-> LocalName(t[2]), attributes |-> attributes,
                          text |-> <<>>, children |-> <<>>]
          IN  IF t[4] THEN ReturnElement(element, open)
              ELSE /\ open' = Append(open, element)
                   /\ at' = "content"
                   /\ UNCHANGED <<verdict, value>>
    /\ UNCHANGED depth

\* The end tag has the element's local name, whatever the prefixes.
ClosesAsWritten(t) == ~NoName(t[2]) /\ t[2] = <<Innermost.name>>
Closes(t) == ~NoName(t[2]) /\ LocalName(t[2]) = Innermost.name

CloseElement(t) ==
    /\ InContent
    /\ t[1] = "close" /\ Closes(t)
    /\ Consume(t)
    /\ ReturnElement([Innermost EXCEPT !.text = Trim(@)], Front(open))
    /\ UNCHANGED depth

AddText(t) ==
    /\ InContent
    /\ t[1] \in {"byte", "entity", "cdata"}
    /\ \E text \in WithItem(Innermost.text, t) :
          /\ Consume(t)
          /\ open' = [open EXCEPT ![Len(open)].text = text]
    /\ UNCHANGED <<depth, at, verdict, value>>

MalformedMarkup(t) ==
    \/ t = Eof \/ t[1] = "doctype"
    \/ t[1] \in {"pi", "comment"} /\ ~Skipped(t)
    \/ t[1] = "tag" /\ TagError(t) # ""
    \/ t[1] = "close" /\ (InContent => ~Closes(t))
    \/ t[1] \in {"byte", "entity", "cdata"}
         /\ ~Skipped(t) /\ (InContent => WithItem(Innermost.text, t) = {})

RefuseMarkup(t) ==
    /\ MalformedMarkup(t)
    /\ Refuse(t, IF t[1] = "tag" THEN TagError(t) ELSE "malformed")

XmlTokens ==
    IF Len(read) = MaxTokens THEN {Eof}
    ELSE IF at = "prolog" THEN PrologTokens
    ELSE IF Last(read)[1] = "tag" /\ Len(open) = 1 THEN EarlyTokens
    ELSE ContentTokens

XmlBegins == Turn("xml", "prolog")

XmlNext ==
    \E t \in XmlTokens :
        \/ SkipMarkup(t)
        \/ OpenElement(t)
        \/ CloseElement(t)
        \/ AddText(t)
        \/ RefuseMarkup(t)
-----------------------------------------------------------------------------
(* The reference: what each token of a document s is directly in, from the   *)
(* positions of its tags.                                                   *)

IsTag(s, n) == s[n][1] = "tag"
Enters(s, n) == IsTag(s, n) /\ ~s[n][4]
Leaves(s, n) == s[n][1] = "close"

\* The number of elements that the n-th token is in.
Level(s, n) == Cardinality({m \in 1..(n - 1) : Enters(s, m)})
               - Cardinality({m \in 1..(n - 1) : Leaves(s, m)})

DirectlyIn(s, n, m) ==
    /\ m < n /\ Enters(s, m) /\ Level(s, n) = Level(s, m) + 1
    /\ \A k \in (m + 1)..n : Level(s, k) > Level(s, m)

ChildOf(s, n, m) == IsTag(s, n) /\ DirectlyIn(s, n, m)

DataOf(t) == CASE t[1] = "byte"   -> <<t[2]>>
               [] t[1] = "cdata"  -> t[2]
               [] t[1] = "entity" -> CHOOSE bytes \in decode_entity(t[2]) : TRUE
               [] OTHER           -> <<>>

\* The character data of the first n items, and that directly in an element.
DataOfItems(items, n) == FlattenSeq([k \in 1..n |-> DataOf(items[k])])

DataIn(s, m, n) ==
    FlattenSeq([k \in 1..n |-> IF DirectlyIn(s, k, m) THEN DataOf(s[k]) ELSE <<>>])

AttributesOf(t) ==
    [k \in DOMAIN t[3] |-> <<LocalName(t[3][k][1]), DataOfItems(t[3][k][2], Len(t[3][k][2]))>>]

\* The element of each tag.
Trees(s) ==
    LET Tree[m \in {k \in DOMAIN s : IsTag(s, k)}] ==
            [name       |-> LocalName(s[m][2]),
             attributes |-> AttributesOf(s[m]),
             text       |-> Trim(DataIn(s, m, Len(s))),
             children   |-> FlattenSeq([k \in DOMAIN s |->
                               IF ChildOf(s, k, m) THEN <<Tree[k]>> ELSE <<>>])]
    IN  Tree

Root(s) == CHOOSE n \in DOMAIN s :
              IsTag(s, n) /\ \A m \in DOMAIN s : IsTag(s, m) => n <= m

\* An accepted document's tree is the one its tags draw: each element's children
\* are the elements directly in it, in their order, and its text is all the
\* character data directly in it, joined across its children (xml.hpp:
\* "concatenated direct character data, trimmed"), with the document closed.
XmlReturnsItsTree ==
    grammar = "xml" /\ verdict = Accepted =>
        /\ value = Trees(read)[Root(read)]
        /\ Enters(read, Root(read)) => Level(read, Len(read)) = 1

\* An attribute's items, and the n-th token of a document.
Illegal(items) ==
    \E k \in DOMAIN items :
        \/ items[k][1] = "entity" /\ decode_entity(items[k][2]) = {}
        \/ items[k][1] = "byte" /\ Len(DataOfItems(items, k)) > max_text_bytes

Wrong(s, n) ==
    LET t == s[n]
    IN  \/ t = Eof \/ t[1] = "doctype"
        \/ t[1] \in {"pi", "comment"} /\ ~t[2]
        \/ t[1] = "cdata" /\ ~t[3]
        \/ t[1] = "entity" /\ decode_entity(t[2]) = {}
        \/ t[1] \notin {"tag", "pi", "comment"} /\ ~Blank(t) /\ Level(s, n) = 0
        \/ t[1] = "tag" /\ \/ NoName(t[2])
                           \/ Level(s, n) > max_element_depth
                           \/ \E k \in DOMAIN t[3] : NoName(t[3][k][1]) \/ Illegal(t[3][k][2])
        \/ \E m \in 1..(n - 1) :
              /\ DirectlyIn(s, n, m)
              /\ \/ t[1] = "close" /\ (NoName(t[2]) \/ LocalName(t[2]) # LocalName(s[m][2]))
                 \/ t[1] = "byte" /\ Len(DataIn(s, m, n)) > max_text_bytes
                 \/ t[1] = "tag" /\ Cardinality({k \in 1..(n - 1) : ChildOf(s, k, m)})
                                       >= max_children

\* A limit of xml.hpp is exceeded at the n-th token, which the parser may let pass:
\* text longer than max_text_bytes by its CDATA or entities, an element max_depth
\* deep (json.hpp's limit, which the header says is mirrored, counts it).
Doubtful(s, n) ==
    LET t == s[n]
    IN  \/ t[1] = "tag" /\ \/ Level(s, n) = max_element_depth
                           \/ \E k \in DOMAIN t[3] :
                                 Len(DataOfItems(t[3][k][2], Len(t[3][k][2]))) > max_text_bytes
        \/ \E m \in 1..(n - 1) :
              DirectlyIn(s, n, m) /\ Len(DataIn(s, m, n)) > max_text_bytes

\* A document is refused as soon as a token is wrong: an end tag of another element
\* than the one it is in, an element too deep or one too many among its siblings,
\* text that a byte takes past its limit, a name too long, a declaration or an entity
\* that is refused, the end of the input (xml.hpp: "exceeding one is a clean
\* error").  And it is not refused otherwise: prefixes, comments, instructions and
\* blanks do not matter.  Left open, for there the code and xml.hpp differ: whether
\* text too long by CDATA or entities, or an element max_depth deep, is refused.
XmlRefusesWhatIsWrong ==
    grammar = "xml" /\ read # <<>> =>
        /\ Wrong(read, Len(read)) => verdict \notin {Pending, Accepted}
        /\ verdict \notin {Pending, Accepted} =>
              Wrong(read, Len(read)) \/ Doubtful(read, Len(read))
=============================================================================
