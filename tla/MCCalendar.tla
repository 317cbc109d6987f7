----------------------------- MODULE MCCalendar -----------------------------
(* Values for TLC.                                                          *)
EXTENDS Calendar

\* A whole era of 400 years, with the epoch and the turn of the era (in March
\* 2000) inside, so that day numbers and day numbers plus 719468 change sign or
\* era, and every kind of year occurs; and the first years, before which the
\* era is negative.
CenturiesAroundEpoch == {0, 1} \cup 1800..2210

\* The first millisecond of a day, one in the middle and the last one.
Edges == {0, 37, 95}

\* East and west, across midnight, and one of more than a day, which the code
\* does not refuse.
Offsets == {<<1, 1, 1>>, <<-1, 2, 0>>, <<1, 7, 1>>}
=============================================================================
