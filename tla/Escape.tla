------------------------------- MODULE Escape -------------------------------
(***************************************************************************)
(* json_escape, the writer of every text in events.geojson, against the      *)
(* program's own reader.                                                    *)
(***************************************************************************)
EXTENDS Json

ShortEscape == [b \in {34, 92, 10, 13, 9} |->
                  CASE b = 10 -> 110 [] b = 13 -> 114 [] b = 9 -> 116 [] OTHER -> b]

json_escape_printable(bytes) ==
    [k \in DOMAIN Chunks(bytes) |->
        LET chunk == Chunks(bytes)[k]
        IN  IF chunk[1] \in DOMAIN ShortEscape THEN <<"escape", ShortEscape[chunk[1]]>>
            ELSE IF Len(chunk) = 1 THEN <<"byte", chunk[1]>>
            ELSE <<"raw", chunk>>]

\* The items written for a text; a byte of 32 or more is copied.
json_escape(bytes) ==
    [k \in DOMAIN Chunks(bytes) |->
        LET chunk == Chunks(bytes)[k]
        IN  IF chunk[1] \in DOMAIN ShortEscape THEN <<"escape", ShortEscape[chunk[1]]>>
            ELSE IF chunk[1] < 32 THEN <<"u", chunk[1]>>
            ELSE IF Len(chunk) = 1 THEN <<"byte", chunk[1]>>
            ELSE <<"raw", chunk>>]

\* A text that came in through the parser (a place, an author, a native id)
\* goes out as a JSON string that the parser reads back as the same text,
\* whatever escapes and control characters it was spelled with (REQ-8.2).
WrittenIsReadBack ==
    TextIsRead =>
        LET text == parse_string(Last(read)[2]).out
        IN  parse_string(Append(json_escape(text), Quote))
              = [out |-> text, high |-> 0, state |-> "closed"]
=============================================================================
