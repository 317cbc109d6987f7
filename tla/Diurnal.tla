------------------------------- MODULE Diurnal -------------------------------
(***************************************************************************)
(* kst::analysis::diurnal_cells: the explosions of each cell are counted by  *)
(* hour of day, the busiest window of hours is sought around the clock, and   *)
(* a cell is called industrial when nearly all of its explosions lie in that  *)
(* window, enough hours are empty, and the window is centred in daylight.     *)
(*                                                                         *)
(* An observation is what the loop reads of it: its cell, its hour (UTC), and *)
(* lon/15, the offset of local solar time, in ticks of Tick to the hour; None *)
(* stands for one that is not typed as an explosion, or has no position.      *)
(***************************************************************************)
EXTENDS Integers, Sequences, FiniteSets, FiniteSetsExt

CONSTANTS
    Hours,            \* hours in a day (24)
    Tick,             \* ticks in an hour
    window_hours, min_events, min_empty_hours, daylight_start, daylight_end,
                      \* the DiurnalRule, its hours local solar
    Percent,          \* its concentration, 90 for 0.90
    Cells,            \* cell keys
    Offsets,          \* the values of lon/15
    MaxObs,           \* bound on the observations
    None

ASSUME RuleAssumption ==
    /\ Hours \in Nat \ {0}
    /\ Tick \in Nat \ {0}
    /\ Tick % 2 = 0
    /\ window_hours \in 1..Hours
    /\ min_events \in Nat \ {0}
    /\ min_empty_hours \in Nat
    /\ daylight_start \in Nat
    /\ daylight_end \in Nat
    /\ Percent \in 0..100
    /\ Cells \subseteq Int
    /\ Offsets \subseteq Int
    /\ MaxObs \in Nat
    /\ None \notin Int

Clock == 0..(Hours - 1)
Observation == [cell : Cells, hour : Clock, offset : Offsets]
Verdict == [count : Nat, start : Clock, inside : Nat, empty : 0..Hours,
            daylight : BOOLEAN, industrial : BOOLEAN]

VARIABLES
    obs,          \* the argument, in input order
    pc,
    n,            \* index of the counting loop
    hist, cell_lon,
    left,         \* the cells of hist still to judge
    start, best, best_start,   \* of the window scan
    out

vars == <<obs, pc, n, hist, cell_lon, left, start, best, best_start, out>>

TypeOK ==
    /\ Len(obs) <= MaxObs
    /\ obs \in [1..Len(obs) -> Observation \cup {None}]
    /\ pc \in {"count", "cell", "scan", "done"}
    /\ n \in 1..(Len(obs) + 1)
    /\ hist \in [Cells -> [Clock -> Nat]]
    /\ cell_lon \in [Cells -> Offsets \cup {None}]
    /\ left \subseteq Cells
    /\ start \in 0..Hours
    /\ best \in Nat
    /\ best_start \in Clock
    /\ out \in [Cells -> Verdict \cup {None}]

Init ==
    /\ \E m \in 0..MaxObs : obs \in [1..m -> Observation \cup {None}]
    /\ pc = "count"
    /\ n = 1
    /\ hist = [c \in Cells |-> [h \in Clock |-> 0]]
    /\ cell_lon = [c \in Cells |-> None]
    /\ left = {}
    /\ start = 0
    /\ best = 0
    /\ best_start = 0
    /\ out = [c \in Cells |-> None]

-----------------------------------------------------------------------------
Count ==
    /\ pc = "count"
    /\ n <= Len(obs)
    /\ obs[n] # None
    /\ hist' = [hist EXCEPT ![obs[n].cell][obs[n].hour] = @ + 1]
    /\ cell_lon' = [cell_lon EXCEPT ![obs[n].cell] = obs[n].offset]
    /\ left' = left \cup {obs[n].cell}
    /\ n' = n + 1
    /\ UNCHANGED <<obs, pc, start, best, best_start, out>>

Skip ==
    /\ pc = "count"
    /\ n <= Len(obs)
    /\ obs[n] = None
    /\ n' = n + 1
    /\ UNCHANGED <<obs, pc, hist, cell_lon, left, start, best, best_start, out>>

Counted ==
    /\ pc = "count"
    /\ n > Len(obs)
    /\ pc' = "cell"
    /\ UNCHANGED <<obs, n, hist, cell_lon, left, start, best, best_start, out>>

cell == Min(left)      \* std::map visits keys in order

InHours(c, S) == MapThenSumSet(LAMBDA h : hist[c][h], S)

Total(c) == InHours(c, Clock)

TooFew ==
    /\ pc = "cell"
    /\ left # {}
    /\ Total(cell) < min_events
    /\ left' = left \ {cell}
    /\ UNCHANGED <<obs, pc, n, hist, cell_lon, start, best, best_start, out>>

ScanKeepsBest ==
    /\ pc = "cell"
    /\ left # {}
    /\ Total(cell) >= min_events
    /\ pc' = "scan"
    /\ start' = 0
    /\ UNCHANGED <<obs, n, hist, cell_lon, left, best, best_start, out>>

BeginScan ==
    /\ pc = "cell"
    /\ left # {}
    /\ Total(cell) >= min_events
    /\ pc' = "scan"
    /\ start' = 0
    /\ best' = 0
    /\ best_start' = 0
    /\ UNCHANGED <<obs, n, hist, cell_lon, left, out>>

Window(s) == {(s + k) % Hours : k \in 0..(window_hours - 1)}

Scan ==
    /\ pc = "scan"
    /\ start < Hours
    /\ LET sum == InHours(cell, Window(start))
       IN  IF sum > best THEN /\ best' = sum
                              /\ best_start' = start
                         ELSE UNCHANGED <<best, best_start>>
    /\ start' = start + 1
    /\ UNCHANGED <<obs, pc, n, hist, cell_lon, left, out>>

\* The local solar time of the centre of the window that starts at s.
Local(s, offset) == (s * Tick + (window_hours * Tick) \div 2 + offset) % (Hours * Tick)

InDaylight(s, offset) ==
    /\ Local(s, offset) >= daylight_start * Tick
    /\ Local(s, offset) <= daylight_end * Tick

EmptyOutside(c) == Hours - window_hours
Empty(c) == Cardinality({h \in Clock : hist[c][h] = 0})

Judge ==
    /\ pc = "scan"
    /\ start = Hours
    /\ LET daylight == InDaylight(best_start, cell_lon[cell])
       IN  out' = [out EXCEPT ![cell] =
                     [count |-> Total(cell), start |-> best_start, inside |-> best,
                      empty |-> Empty(cell), daylight |-> daylight,
                      industrial |-> /\ 100 * best >= Percent * Total(cell)
                                     /\ Empty(cell) >= min_empty_hours
                                     /\ daylight]]
    /\ left' = left \ {cell}
    /\ pc' = "cell"
    /\ UNCHANGED <<obs, n, hist, cell_lon, start, best, best_start>>

Finish ==
    /\ pc = "cell"
    /\ left = {}
    /\ pc' = "done"
    /\ UNCHANGED <<obs, n, hist, cell_lon, left, start, best, best_start, out>>

Next ==
    \/ Count
    \/ Skip
    \/ Counted
    \/ TooFew
    \/ BeginScan
    \/ Scan
    \/ Judge
    \/ Finish

Spec == Init /\ [][Next]_vars
-----------------------------------------------------------------------------
(* Properties.  They are stated of the observations, not of the histogram.  *)

Explosions(c) == {m \in DOMAIN obs : obs[m] # None /\ obs[m].cell = c}
Within(c, S) == Cardinality({m \in Explosions(c) : obs[m].hour \in S})

Judged(c) == pc = "done" /\ out[c] # None

\* REQ-5.12: the window a cell is judged by is the busiest of all those around
\* the clock, midnight included, and its count is that of the observations.
WindowIsBusiest ==
    \A c \in Cells : Judged(c) =>
        /\ out[c].inside = Within(c, Window(out[c].start))
        /\ \A s \in Clock : Within(c, Window(s)) <= out[c].inside

\* REQ-5.12: a cell is called industrial only on enough explosions, of which
\* the stated share falls in consecutive hours, with enough hours unused by any
\* of them; no other cell's explosions count towards it.
IndustryIsRegular ==
    \A c \in Cells : Judged(c) /\ out[c].industrial =>
        /\ Cardinality(Explosions(c)) >= min_events
        /\ \E s \in Clock : 100 * Within(c, Window(s)) >= Percent * Cardinality(Explosions(c))
        /\ Cardinality({h \in Clock : Within(c, {h}) = 0}) >= min_empty_hours
=============================================================================
