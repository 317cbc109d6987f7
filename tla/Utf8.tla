-------------------------------- MODULE Utf8 --------------------------------
(***************************************************************************)
(* UTF-8 as json.cpp and xml.cpp write and check it, byte by byte, and      *)
(* against it the table of well-formed sequences of the Unicode standard.   *)
(***************************************************************************)
EXTENDS Integers, Sequences

Surrogate == 55296..57343            \* U+D800..U+DFFF
IsScalar(cp) == cp \in Nat /\ cp <= 1114111 /\ cp \notin Surrogate
Byte == 0..255

\* The bytes written for a code point, surrogates included: the caller's matter.
append_codepoint_utf8(cp) ==
    IF cp < 128 THEN <<cp>>
    ELSE IF cp < 2048 THEN <<192 + cp \div 64, 128 + (cp % 64)>>
    ELSE IF cp < 65536
      THEN <<224 + cp \div 4096, 128 + ((cp \div 64) % 64), 128 + (cp % 64)>>
    ELSE <<240 + cp \div 262144, 128 + ((cp \div 4096) % 64),
           128 + ((cp \div 64) % 64), 128 + (cp % 64)>>

\* The length a leading byte announces; 0 for none.
Announced(b) == IF b \in 192..223 THEN 2
                ELSE IF b \in 224..239 THEN 3
                ELSE IF b \in 240..247 THEN 4
                ELSE 0

\* The code point of a sequence, and the least one its length is for.
Point(s) ==
    IF Len(s) = 2 THEN (s[1] % 32) * 64 + (s[2] % 64)
    ELSE IF Len(s) = 3 THEN ((s[1] % 16) * 64 + (s[2] % 64)) * 64 + (s[3] % 64)
    ELSE (((s[1] % 8) * 64 + (s[2] % 64)) * 64 + (s[3] % 64)) * 64 + (s[4] % 64)

Least(len) == IF len = 2 THEN 128 ELSE IF len = 3 THEN 2048 ELSE 65536

\* append_utf8_sequence takes s: as many bytes as the first one announces, each
\* further one a continuation, and a scalar value not written longer than need be.
AcceptsSequence(s) ==
    /\ Len(s) = Announced(s[1])
    /\ \A n \in 2..Len(s) : s[n] \in 128..191
    /\ Point(s) >= Least(Len(s))
    /\ IsScalar(Point(s))
-----------------------------------------------------------------------------
(* The reference: table 3-7 of the Unicode standard, for more than one byte. *)

Tail80(s) == \A n \in 3..Len(s) : s[n] \in 128..191

WellFormed(s) ==
    \/ Len(s) = 2 /\ s[1] \in 194..223 /\ s[2] \in 128..191
    \/ Len(s) = 3 /\ Tail80(s) /\ \/ s[1] = 224 /\ s[2] \in 160..191
                                  \/ s[1] \in 225..236 /\ s[2] \in 128..191
                                  \/ s[1] = 237 /\ s[2] \in 128..159
                                  \/ s[1] \in 238..239 /\ s[2] \in 128..191
    \/ Len(s) = 4 /\ Tail80(s) /\ \/ s[1] = 240 /\ s[2] \in 144..191
                                  \/ s[1] \in 241..243 /\ s[2] \in 128..191
                                  \/ s[1] = 244 /\ s[2] \in 128..143

\* The UTF-16 code units of a scalar value.
Utf16(cp) == IF cp < 65536 THEN <<cp>>
             ELSE <<55296 + (cp - 65536) \div 1024, 56320 + ((cp - 65536) % 1024)>>
=============================================================================
