------------------------------ MODULE Document ------------------------------
(***************************************************************************)
(* The state of one of the program's two recursive-descent parsers          *)
(* (json.cpp, xml.cpp) over one buffer.  The tokens are chosen as they are   *)
(* read, so that a behaviour is a document; a parser that has refused reads  *)
(* no further.                                                              *)
(***************************************************************************)
EXTENDS Integers, Sequences, SequencesExt, FiniteSets

VARIABLES
    grammar,  \* history: "json" or "xml", the parser at work; "" when none is
    read,     \* history: the tokens read so far
    open,     \* the calls in progress, outermost first
    depth,    \* depth_ of json.cpp; xml.cpp passes it down and counts nothing
    at,       \* where the innermost call stands
    verdict,  \* Pending, Accepted, or the first error kept
    value     \* what the outermost call returned

document == <<grammar, read, open, depth, at, verdict, value>>

Pending == "pending"
Accepted == "accepted"
Eof == <<"mark", "eof">>

NoDocument ==
    /\ grammar = ""
    /\ read = <<>>
    /\ open = <<>>
    /\ depth = 0
    /\ at = ""
    /\ verdict = Pending
    /\ value = <<>>

\* A parser is started, at start, or the document it was given is left.
Turn(parser, start) ==
    /\ grammar' = parser
    /\ read' = <<>>
    /\ open' = <<>>
    /\ depth' = 0
    /\ at' = start
    /\ verdict' = Pending
    /\ value' = <<>>

\* A token is consumed; set_error keeps the first error and every caller returns.
Consume(t) ==
    /\ verdict = Pending
    /\ read' = Append(read, t)
    /\ UNCHANGED grammar

Refuse(t, error) ==
    /\ Consume(t)
    /\ verdict' = error
    /\ UNCHANGED <<open, depth, at, value>>

Innermost == Last(open)
=============================================================================
