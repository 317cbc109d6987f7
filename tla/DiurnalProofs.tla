---------------------------- MODULE DiurnalProofs ----------------------------
(***************************************************************************)
(* Proofs about diurnal_cells for any number of observations, any clock, any *)
(* window and any rule.  The histogram's sums are folds over sets of hours:  *)
(* what they compute is proved by induction on the set, in the form "a       *)
(* smallest set for which it is false" (SmallestSet).                        *)
(***************************************************************************)
EXTENDS Diurnal, TLAPS, FiniteSetTheorems, SequenceTheorems,
        WellFoundedInduction

-----------------------------------------------------------------------------
(* Induction over finite sets.                                              *)

(* Among some subsets of a finite set one contains no other.                *)
LEMMA SmallestSet ==
    ASSUME NEW S, IsFiniteSet(S), NEW T, T \subseteq SUBSET S, T # {}
    PROVE  \E x \in T : \A y \in T : y \subseteq x => y = x
  <1>1. IsWellFoundedOn(StrictSubsetOrdering(S), SUBSET S)
    BY FS_StrictSubsetOrderingWellFounded, FS_FiniteSubsetsOfFinite
  <1>2. PICK x \in T : \A y \in T : ~(<<y, x>> \in StrictSubsetOrdering(S))
    BY <1>1, WFMin
  <1> QED
    BY <1>2 DEF StrictSubsetOrdering

(* The cells left have a first one: std::map's begin.                       *)
LEMMA LeastExists ==
    ASSUME NEW S, IsFiniteSet(S)
    PROVE  S \subseteq Int /\ S # {} => \E x \in S : \A y \in S : x <= y
  <1> DEFINE HasLeast(s) == \E x \in s : \A y \in s : x <= y
             T == {s \in SUBSET S : s \subseteq Int /\ s # {} /\ ~HasLeast(s)}
  <1>1. SUFFICES ASSUME S \in T PROVE FALSE
    OBVIOUS
  <1>2. T # {} /\ T \subseteq SUBSET S
    BY <1>1
  <1> HIDE DEF T
  <1>3. PICK t \in T : \A y \in T : y \subseteq t => y = t
    BY <1>2, SmallestSet
  <1> USE DEF T
  <1>4. t \subseteq Int /\ t \subseteq S /\ t # {} /\ ~HasLeast(t)
    BY <1>3
  <1>5. PICK e \in t : TRUE
    BY <1>4
  <1>6. t \ {e} \notin T /\ t \ {e} \in SUBSET S
    BY <1>3, <1>4, <1>5
  <1>7. CASE t \ {e} = {}
    <2>1. t = {e}
      BY <1>5, <1>7
    <2> QED
      BY <1>4, <1>5, <2>1
  <1>8. CASE t \ {e} # {}
    <2>1. PICK x \in t \ {e} : \A y \in t \ {e} : x <= y
      BY <1>6, <1>8
    <2>2. CASE x <= e
      BY <1>4, <1>5, <2>1, <2>2
    <2>3. CASE ~(x <= e)
      BY <1>4, <1>5, <2>1, <2>3
    <2> QED
      BY <2>2, <2>3
  <1> QED
    BY <1>7, <1>8

LEMMA FirstCell ==
    ASSUME left # {}, IsFiniteSet(left), left \subseteq Int
    PROVE  cell \in left
  BY LeastExists DEF cell, Min

(* A fold that adds up f over S is any function that the fold's equation      *)
(* describes.                                                               *)
Unfolds(G, f, S) ==
    G = [s \in SUBSET S |->
           IF s = {} THEN 0
                     ELSE f[CHOOSE x \in s : TRUE] + G[s \ {CHOOSE x \in s : TRUE}]]

LEMMA SumIs ==
    ASSUME NEW c, NEW S, IsFiniteSet(S), NEW G, Unfolds(G, hist[c], S)
    PROVE  InHours(c, S) = G[S]
  <1> DEFINE f == hist[c]
             g == CHOOSE i : Unfolds(i, f, S)
  <1>1. InHours(c, S) = g[S]
    BY Zenon DEF InHours, MapThenSumSet, MapThenFoldSet, Unfolds
  <1>2. Unfolds(g, f, S)
    BY Zenon
  <1>3. Unfolds(G, f, S)
    OBVIOUS
  <1> HIDE DEF g, f
  <1>4. SUFFICES ASSUME g[S] # G[S] PROVE FALSE
    BY <1>1
  <1> DEFINE T == {s \in SUBSET S : g[s] # G[s]}
  <1>5. T # {} /\ T \subseteq SUBSET S
    BY <1>4
  <1> HIDE DEF T
  <1>6. PICK t \in T : \A y \in T : y \subseteq t => y = t
    BY <1>5, SmallestSet
  <1> USE DEF T
  <1>7. t \in SUBSET S /\ g[t] # G[t]
    BY <1>6
  <1>8. t # {}
    BY <1>2, <1>3, <1>7 DEF Unfolds
  <1> DEFINE e == CHOOSE x \in t : TRUE
  <1>9. e \in t
    BY <1>8
  <1>10. t \ {e} \in SUBSET S /\ t \ {e} \notin T
    BY <1>6, <1>7, <1>9
  <1>11. g[t \ {e}] = G[t \ {e}]
    BY <1>10
  <1>12. g[t] = f[e] + g[t \ {e}] /\ G[t] = f[e] + G[t \ {e}]
    BY <1>2, <1>3, <1>7, <1>8 DEF Unfolds
  <1> QED
    BY <1>7, <1>11, <1>12

-----------------------------------------------------------------------------
(* The histogram counts the observations.                                   *)

(* Those of c at hour h among the observations before the m-th.             *)
Hits(c, h, m) == {k \in 1..(m - 1) : obs[k] # None /\ obs[k].cell = c /\ obs[k].hour = h}

Counting == \A c \in Cells, h \in Clock : hist[c][h] = Cardinality(Hits(c, h, n))

(* What the scan has found of the windows before start.                     *)
Scanned ==
    /\ cell \in left
    /\ Total(cell) >= min_events
    /\ best = 0 => best_start = 0
    /\ best # 0 => best = InHours(cell, Window(best_start))
    /\ \A s \in Clock : s < start => InHours(cell, Window(s)) <= best

(* A verdict given is the one of the observations.                          *)
Verdicts ==
    \A c \in Cells : out[c] # None =>
        /\ out[c].count = Cardinality(Explosions(c)) /\ out[c].count >= min_events
        /\ out[c].inside = Within(c, Window(out[c].start))
        /\ \A s \in Clock : Within(c, Window(s)) <= out[c].inside
        /\ out[c].empty = Cardinality({h \in Clock : Within(c, {h}) = 0})
        /\ out[c].industrial => /\ 100 * out[c].inside >= Percent * out[c].count
                                /\ out[c].empty >= min_empty_hours

IInv ==
    /\ TypeOK
    /\ IsFiniteSet(left)
    /\ Counting
    /\ pc # "count" => n = Len(obs) + 1
    /\ pc = "count" => \A c \in Cells : out[c] = None
    /\ pc = "scan" => Scanned
    /\ Verdicts

LEMMA SeenFinite ==
    ASSUME TypeOK, NEW P, P \subseteq 1..Len(obs)
    PROVE  IsFiniteSet(P) /\ Cardinality(P) \in Nat
  <1>1. Len(obs) \in Nat
    BY RuleAssumption DEF TypeOK
  <1>2. IsFiniteSet(1..Len(obs))
    BY <1>1, FS_Interval
  <1>3. IsFiniteSet(P)
    BY <1>2, FS_Subset
  <1> QED
    BY <1>3, FS_CardinalityType

LEMMA WithinCounts ==
    ASSUME TypeOK, NEW c \in Cells, NEW S
    PROVE  /\ IsFiniteSet({m \in Explosions(c) : obs[m].hour \in S})
           /\ Within(c, S) \in Nat
  <1>1. DOMAIN obs = 1..Len(obs)
    BY DEF TypeOK
  <1>2. {m \in Explosions(c) : obs[m].hour \in S} \subseteq 1..Len(obs)
    BY <1>1 DEF Explosions
  <1> QED
    BY <1>2, SeenFinite DEF Within

(* One hour more is its observations more.                                  *)
LEMMA WithinAdds ==
    ASSUME TypeOK, NEW c \in Cells, NEW S, NEW e \in S
    PROVE  Within(c, S) = Within(c, {e}) + Within(c, S \ {e})
  <1> DEFINE At(R) == {m \in Explosions(c) : obs[m].hour \in R}
  <1>1. /\ At(S) = At({e}) \cup At(S \ {e})
        /\ At({e}) \cap At(S \ {e}) = {}
    OBVIOUS
  <1>2. IsFiniteSet(At({e})) /\ IsFiniteSet(At(S \ {e}))
    BY WithinCounts
  <1>3. /\ Within(c, {e}) = Cardinality(At({e})) /\ Within(c, {e}) \in Nat
        /\ Within(c, S \ {e}) = Cardinality(At(S \ {e})) /\ Within(c, S \ {e}) \in Nat
        /\ Within(c, S) = Cardinality(At(S))
    BY WithinCounts DEF Within
  <1> HIDE DEF At
  <1>4. Cardinality(At({e}) \cup At(S \ {e})) =
           Cardinality(At({e})) + Cardinality(At(S \ {e})) - Cardinality({})
    BY <1>1, <1>2, FS_Union
  <1> QED
    BY <1>1, <1>3, <1>4, FS_EmptySet

LEMMA ClockFinite ==
    /\ IsFiniteSet(Clock)
    /\ \A S \in SUBSET Clock : IsFiniteSet(S) /\ Cardinality(S) \in 0..Hours
  <1>1. Hours \in Nat /\ Hours - 1 \in Int /\ ~(0 > Hours - 1)
    BY RuleAssumption
  <1>2. IsFiniteSet(Clock) /\ Cardinality(Clock) = Hours
    BY <1>1, FS_Interval DEF Clock
  <1> QED
    BY <1>1, <1>2, FS_Subset, FS_CardinalityType

(* Once all are counted, an hour of the histogram is its observations, and a *)
(* sum over hours is the observations of those hours.                        *)
LEMMA HourIsWithin ==
    ASSUME TypeOK, Counting, n = Len(obs) + 1, NEW c \in Cells, NEW h \in Clock
    PROVE  hist[c][h] = Within(c, {h})
  <1>1. Len(obs) \in Nat /\ DOMAIN obs = 1..Len(obs)
    BY RuleAssumption DEF TypeOK
  <1>2. 1..(n - 1) = DOMAIN obs
    BY <1>1
  <1>3. Hits(c, h, n) = {m \in Explosions(c) : obs[m].hour \in {h}}
    BY <1>2 DEF Hits, Explosions
  <1> QED
    BY <1>3 DEF Counting, Within

LEMMA SumIsWithin ==
    ASSUME TypeOK, Counting, n = Len(obs) + 1, NEW c \in Cells, NEW S \in SUBSET Clock
    PROVE  InHours(c, S) = Within(c, S)
  <1> DEFINE G == [s \in SUBSET S |-> Within(c, s)]
  <1>1. ASSUME NEW s \in SUBSET S, s # {}
        PROVE  Within(c, s) = hist[c][CHOOSE x \in s : TRUE]
                                + Within(c, s \ {CHOOSE x \in s : TRUE})
    <2>1. PICK e \in s : e = CHOOSE x \in s : TRUE
      BY <1>1
    <2>2. e \in Clock
      BY <2>1
    <2>3. hist[c][e] = Within(c, {e})
      BY <2>2, HourIsWithin
    <2>4. Within(c, s) = Within(c, {e}) + Within(c, s \ {e})
      BY WithinAdds
    <2> QED
      BY <2>1, <2>3, <2>4
  <1>2. Within(c, {}) = 0
    BY FS_EmptySet DEF Within
  <1>3. \A s \in SUBSET S : s \ {CHOOSE x \in s : TRUE} \in SUBSET S
    OBVIOUS
  <1>4. Unfolds(G, hist[c], S)
    BY <1>1, <1>2, <1>3 DEF Unfolds
  <1> HIDE DEF G
  <1>5. InHours(c, S) = G[S]
    BY <1>4, ClockFinite, SumIs
  <1> QED
    BY <1>5 DEF G

LEMMA Windows ==
    ASSUME NEW s \in Clock
    PROVE  Window(s) \in SUBSET Clock
  <1>1. Hours \in Nat \ {0} /\ s \in Nat
    BY RuleAssumption DEF Clock
  <1>2. ASSUME NEW k \in 0..(window_hours - 1) PROVE (s + k) % Hours \in Clock
    BY <1>1 DEF Clock
  <1> QED
    BY <1>2 DEF Window

(* The explosions are all at some hour.                                     *)
LEMMA TotalIsAll ==
    ASSUME TypeOK, Counting, n = Len(obs) + 1, NEW c \in Cells
    PROVE  Total(c) = Cardinality(Explosions(c)) /\ Total(c) \in Nat
  <1>1. \A m \in Explosions(c) : obs[m].hour \in Clock
    BY DEF TypeOK, Explosions, Observation
  <1>2. {m \in Explosions(c) : obs[m].hour \in Clock} = Explosions(c)
    BY <1>1
  <1>3. Total(c) = Within(c, Clock)
    BY SumIsWithin DEF Total
  <1> QED
    BY <1>2, <1>3, WithinCounts DEF Within

LEMMA EmptyIsUnused ==
    ASSUME TypeOK, Counting, n = Len(obs) + 1, NEW c \in Cells
    PROVE  /\ Empty(c) = Cardinality({h \in Clock : Within(c, {h}) = 0})
           /\ Empty(c) \in 0..Hours
  <1>1. {h \in Clock : hist[c][h] = 0} = {h \in Clock : Within(c, {h}) = 0}
    BY HourIsWithin
  <1>2. {h \in Clock : hist[c][h] = 0} \in SUBSET Clock
    OBVIOUS
  <1> QED
    BY <1>1, <1>2, ClockFinite DEF Empty

-----------------------------------------------------------------------------
(* The steps.                                                               *)

LEMMA Initial == Init => IInv
  <1> SUFFICES ASSUME Init PROVE IInv
    OBVIOUS
  <1>1. PICK m \in 0..MaxObs : obs \in [1..m -> Observation \cup {None}]
    BY DEF Init
  <1>2. MaxObs \in Nat /\ Hours \in Nat \ {0} /\ 0 \in Clock
    BY RuleAssumption DEF Clock
  <1>3. m \in Nat /\ m <= MaxObs
    BY <1>1, <1>2
  <1>4. Len(obs) = m
    <2>1. DOMAIN obs = 1..m /\ obs \in Seq(Observation \cup {None})
      BY <1>1, <1>3
    <2> QED
      BY <1>3, <2>1, LenProperties
  <1>5. TypeOK
    BY <1>1, <1>2, <1>3, <1>4 DEF Init, TypeOK
  <1>6. Counting
    <2>1. \A c \in Cells, h \in Clock : Hits(c, h, 1) = {}
      BY DEF Hits
    <2>2. n = 1 /\ \A c \in Cells, h \in Clock : hist[c][h] = 0
      BY DEF Init
    <2> QED
      BY <2>1, <2>2, FS_EmptySet DEF Counting
  <1>7. IsFiniteSet(left) /\ pc = "count" /\ \A c \in Cells : out[c] = None
    BY FS_EmptySet DEF Init
  <1>8. Verdicts
    BY <1>7 DEF Verdicts
  <1> QED
    BY <1>5, <1>6, <1>7, <1>8 DEF IInv

(* The sums do not change while the histogram does not.                     *)
LEMMA SumKept == UNCHANGED hist => /\ \A c, S : InHours(c, S)' = InHours(c, S)
                                   /\ \A c : Total(c)' = Total(c)
  BY DEF InHours, Total, Clock, MapThenSumSet, MapThenFoldSet

(* What the verdicts say does not change while the observations do not.      *)
LEMMA WithinKept == UNCHANGED obs => /\ \A c, S : Within(c, S)' = Within(c, S)
                                     /\ \A c : Explosions(c)' = Explosions(c)
  BY DEF Within, Explosions

LEMMA VerdictsKept ==
    ASSUME Verdicts, UNCHANGED <<obs, out>>
    PROVE  Verdicts'
  <1>1. /\ \A c, S : Within(c, S)' = Within(c, S)
        /\ \A c : Explosions(c)' = Explosions(c)
        /\ out' = out
    BY WithinKept
  <1>2. \A c : {h \in Clock : Within(c, {h}) = 0}' = {h \in Clock : Within(c, {h}) = 0}
    BY <1>1 DEF Clock
  <1>3. \A c, s : Within(c, Window(s))' = Within(c, Window(s))
    BY <1>1 DEF Window
  <1> QED
    BY <1>1, <1>2, <1>3 DEF Verdicts, Clock

LEMMA CountStep == IInv /\ Count => IInv'
  <1> SUFFICES ASSUME IInv, Count PROVE IInv'
    OBVIOUS
  <1> DEFINE d == obs[n].cell
             g == obs[n].hour
  <1>1. /\ TypeOK /\ n \in Nat /\ n <= Len(obs) /\ Len(obs) \in Nat
        /\ obs[n] \in Observation /\ obs[n] # None
    <2>1. TypeOK /\ n <= Len(obs) /\ obs[n] # None
      BY DEF IInv, Count
    <2>2. n \in 1..(Len(obs) + 1) /\ Len(obs) \in Nat
      BY <2>1 DEF TypeOK
    <2>3. n \in 1..Len(obs)
      BY <2>1, <2>2
    <2> QED
      BY <2>1, <2>2, <2>3 DEF TypeOK
  <1>2. d \in Cells /\ g \in Clock /\ obs[n].offset \in Offsets
    BY <1>1 DEF Observation
  <1>3. /\ hist' = [hist EXCEPT ![d][g] = @ + 1] /\ n' = n + 1 /\ pc = "count"
        /\ UNCHANGED <<obs, pc, start, best, best_start, out>>
        /\ left' = left \cup {d}
        /\ cell_lon' = [cell_lon EXCEPT ![d] = obs[n].offset]
    BY DEF Count
  <1>4. \A c \in Cells, h \in Clock :
           hist'[c][h] = IF c = d /\ h = g THEN hist[c][h] + 1 ELSE hist[c][h]
    BY <1>1, <1>2, <1>3 DEF TypeOK
  <1>5. TypeOK'
    <2>1. hist' \in [Cells -> [Clock -> Nat]]
      BY <1>1, <1>2, <1>3 DEF TypeOK
    <2>2. /\ n' \in 1..(Len(obs') + 1) /\ left' \subseteq Cells
          /\ cell_lon' \in [Cells -> Offsets \cup {None}]
      BY <1>1, <1>2, <1>3 DEF TypeOK
    <2> QED
      BY <1>1, <1>3, <2>1, <2>2 DEF TypeOK
  <1>6. ASSUME NEW c \in Cells, NEW h \in Clock
        PROVE  hist'[c][h] = Cardinality(Hits(c, h, n)')
    <2>1. /\ hist[c][h] = Cardinality(Hits(c, h, n))
          /\ IsFiniteSet(Hits(c, h, n)) /\ n \notin Hits(c, h, n)
      <3>1. 1..(n - 1) \subseteq 1..Len(obs) /\ n \notin 1..(n - 1)
        BY <1>1
      <3> QED
        BY <1>1, <3>1, SeenFinite DEF IInv, Counting, Hits
    <2>2. 1..(n' - 1) = 1..(n - 1) \cup {n} /\ n' - 1 = n
      <3>1. n' - 1 = n /\ n \in Nat \ {0}
        BY <1>1, <1>3 DEF TypeOK
      <3> QED
        BY <3>1
    <2>3. CASE c = d /\ h = g
      <3>1. Hits(c, h, n)' = Hits(c, h, n) \cup {n}
        BY <1>1, <1>3, <2>2, <2>3 DEF Hits
      <3>2. Cardinality(Hits(c, h, n) \cup {n}) = Cardinality(Hits(c, h, n)) + 1
        BY <2>1, FS_AddElement
      <3>3. hist'[c][h] = hist[c][h] + 1
        BY <1>4, <2>3
      <3> QED
        BY <2>1, <3>1, <3>2, <3>3
    <2>4. CASE ~(c = d /\ h = g)
      <3>1. Hits(c, h, n)' = Hits(c, h, n)
        BY <1>3, <2>2, <2>4 DEF Hits
      <3> QED
        BY <1>4, <2>1, <2>4, <3>1
    <2> QED
      BY <2>3, <2>4
  <1>7. IsFiniteSet(left')
    BY <1>3, FS_AddElement DEF IInv
  <1>8. Counting'
    BY <1>6 DEF Counting
  <1>9. Verdicts'
    BY <1>3, VerdictsKept DEF IInv
  <1> QED
    BY <1>3, <1>5, <1>7, <1>8, <1>9 DEF IInv

LEMMA SkipStep == IInv /\ Skip => IInv'
  <1> SUFFICES ASSUME IInv, Skip PROVE IInv'
    OBVIOUS
  <1>1. /\ n' = n + 1 /\ pc = "count" /\ obs[n] = None /\ n <= Len(obs)
        /\ UNCHANGED <<obs, pc, hist, cell_lon, left, start, best, best_start, out>>
        /\ TypeOK
    BY DEF Skip, IInv
  <1>2. n \in Nat \ {0} /\ Len(obs) \in Nat
    BY <1>1 DEF TypeOK
  <1>3. TypeOK'
    <2>1. n' \in 1..(Len(obs) + 1)
      BY <1>1, <1>2
    <2> QED
      BY <1>1, <2>1 DEF TypeOK
  <1>4. ASSUME NEW c \in Cells, NEW h \in Clock
        PROVE  Hits(c, h, n)' = Hits(c, h, n)
    <2>1. 1..(n' - 1) = 1..(n - 1) \cup {n}
      BY <1>1, <1>2
    <2> QED
      BY <1>1, <2>1 DEF Hits
  <1>5. Counting'
    BY <1>1, <1>4 DEF IInv, Counting
  <1>6. Verdicts'
    BY <1>1, VerdictsKept DEF IInv
  <1> QED
    BY <1>1, <1>3, <1>5, <1>6 DEF IInv

(* The steps after the counting leave what was counted alone.               *)
LEMMA CountedKept ==
    ASSUME IInv, UNCHANGED <<obs, n, hist>>
    PROVE  Counting'
  BY DEF IInv, Counting, Hits

LEMMA CountedStep == IInv /\ Counted => IInv'
  <1> SUFFICES ASSUME IInv, Counted PROVE IInv'
    OBVIOUS
  <1>1. /\ n > Len(obs) /\ pc' = "cell" /\ TypeOK
        /\ UNCHANGED <<obs, n, hist, cell_lon, left, start, best, best_start, out>>
    BY DEF Counted, IInv
  <1>2. n = Len(obs) + 1
    BY <1>1 DEF TypeOK
  <1>3. TypeOK'
    BY <1>1 DEF TypeOK
  <1>4. Counting' /\ Verdicts'
    BY <1>1, CountedKept, VerdictsKept DEF IInv
  <1> QED
    BY <1>1, <1>2, <1>3, <1>4 DEF IInv

LEMMA TooFewStep == IInv /\ TooFew => IInv'
  <1> SUFFICES ASSUME IInv, TooFew PROVE IInv'
    OBVIOUS
  <1>1. /\ pc = "cell" /\ pc' = "cell" /\ left' = left \ {cell} /\ TypeOK
        /\ UNCHANGED <<obs, n, hist, cell_lon, start, best, best_start, out>>
    BY DEF TooFew, IInv
  <1>2. TypeOK'
    BY <1>1 DEF TypeOK
  <1>3. IsFiniteSet(left')
    BY <1>1, FS_RemoveElement DEF IInv
  <1>4. Counting' /\ Verdicts'
    BY <1>1, CountedKept, VerdictsKept DEF IInv
  <1> QED
    BY <1>1, <1>2, <1>3, <1>4 DEF IInv

LEMMA BeginScanStep == IInv /\ BeginScan => IInv'
  <1> SUFFICES ASSUME IInv, BeginScan PROVE IInv'
    OBVIOUS
  <1>1. /\ pc = "cell" /\ pc' = "scan" /\ left # {} /\ Total(cell) >= min_events
        /\ start' = 0 /\ best' = 0 /\ best_start' = 0 /\ TypeOK
        /\ UNCHANGED <<obs, n, hist, cell_lon, left, out>>
    BY DEF BeginScan, IInv
  <1>2. Hours \in Nat \ {0} /\ Clock = 0..(Hours - 1) /\ left \subseteq Int
    BY <1>1, RuleAssumption DEF TypeOK, Clock
  <1>3. TypeOK'
    BY <1>1, <1>2 DEF TypeOK
  <1>4. cell \in left /\ cell' = cell
    BY <1>1, <1>2, FirstCell DEF IInv, cell
  <1>5. Total(cell)' = Total(cell)
    BY <1>1, <1>4, SumKept
  <1>6. Scanned'
    BY <1>1, <1>2, <1>4, <1>5 DEF Scanned
  <1>7. Counting' /\ Verdicts'
    BY <1>1, CountedKept, VerdictsKept DEF IInv
  <1> QED
    BY <1>1, <1>3, <1>6, <1>7 DEF IInv

LEMMA ScanStep == IInv /\ Scan => IInv'
  <1> SUFFICES ASSUME IInv, Scan PROVE IInv'
    OBVIOUS
  <1> DEFINE sum == InHours(cell, Window(start))
  <1>1. /\ pc = "scan" /\ start < Hours /\ start' = start + 1 /\ TypeOK /\ Counting
        /\ UNCHANGED <<obs, pc, n, hist, cell_lon, left, out>>
        /\ IF sum > best THEN best' = sum /\ best_start' = start
                         ELSE best' = best /\ best_start' = best_start
        /\ n = Len(obs) + 1 /\ Scanned
    BY DEF Scan, IInv
  <1>2. Hours \in Nat /\ start \in Clock /\ start \in Nat /\ best \in Nat
    BY <1>1, RuleAssumption DEF TypeOK, Clock
  <1>3. cell \in Cells /\ cell' = cell
    BY <1>1 DEF Scanned, TypeOK, cell
  <1>4. sum \in Nat
    BY <1>1, <1>2, <1>3, SumIsWithin, WithinCounts, Windows
  <1>5. TypeOK'
    <2>1. best' \in Nat /\ best_start' \in Clock /\ start' \in 0..Hours
      BY <1>1, <1>2, <1>4 DEF TypeOK
    <2> QED
      BY <1>1, <2>1 DEF TypeOK
  <1>6. \A s \in Clock : InHours(cell, Window(s))' = InHours(cell, Window(s))
    BY <1>1, <1>3, SumKept DEF Window, Clock
  <1>7. Total(cell)' = Total(cell)
    BY <1>1, <1>3, SumKept
  <1>8. Scanned'
    <2>1. best' = 0 => best_start' = 0
      BY <1>1, <1>2, <1>4 DEF Scanned
    <2>2. best' # 0 => best' = InHours(cell, Window(best_start))'
      <3>1. CASE sum > best
        <4>1. InHours(cell, Window(best_start))' = InHours(cell, Window(start))
          BY <1>1, <1>3, <3>1, SumKept DEF Window
        <4> QED
          BY <1>1, <3>1, <4>1
      <3>2. CASE ~(sum > best)
        <4>1. InHours(cell, Window(best_start))' = InHours(cell, Window(best_start))
          BY <1>1, <1>3, <3>2, SumKept DEF Window
        <4> QED
          BY <1>1, <3>2, <4>1 DEF Scanned
      <3> QED
        BY <3>1, <3>2
    <2>3. ASSUME NEW s \in Clock, s < start'
          PROVE  InHours(cell, Window(s)) <= best'
      <3>1. s \in Nat /\ (s < start \/ s = start)
        BY <1>1, <1>2, <2>3, RuleAssumption DEF Clock
      <3>2. InHours(cell, Window(s)) \in Nat
        BY <1>1, <1>3, SumIsWithin, WithinCounts, Windows
      <3>3. CASE s < start
        <4>1. InHours(cell, Window(s)) <= best
          BY <1>1, <3>3 DEF Scanned
        <4> QED
          BY <1>1, <1>2, <1>4, <3>2, <4>1
      <3>4. CASE s = start
        BY <1>1, <1>2, <1>4, <3>4
      <3> QED
        BY <3>1, <3>3, <3>4
    <2> QED
      BY <1>1, <1>3, <1>6, <1>7, <2>1, <2>2, <2>3 DEF Scanned
  <1>9. Counting' /\ Verdicts'
    BY <1>1, CountedKept, VerdictsKept DEF IInv
  <1> QED
    BY <1>1, <1>5, <1>8, <1>9 DEF IInv

(* At the end of the scan the best is the count of the window it names.      *)
LEMMA BestIsItsWindow ==
    ASSUME IInv, pc = "scan", start = Hours
    PROVE  /\ cell \in Cells
           /\ best = Within(cell, Window(best_start))
           /\ \A s \in Clock : Within(cell, Window(s)) <= best
           /\ Total(cell) = Cardinality(Explosions(cell)) /\ Total(cell) \in Nat
  <1>1. TypeOK /\ Counting /\ n = Len(obs) + 1 /\ Scanned
    BY DEF IInv
  <1>2. cell \in Cells /\ best \in Nat /\ best_start \in Clock
    BY <1>1 DEF Scanned, TypeOK
  <1>3. Hours \in Nat /\ 0 \in Clock /\ \A s \in Clock : s < start
    BY RuleAssumption DEF Clock
  <1>4. \A s \in Clock : /\ InHours(cell, Window(s)) = Within(cell, Window(s))
                         /\ Within(cell, Window(s)) \in Nat
    BY <1>1, <1>2, SumIsWithin, WithinCounts, Windows
  <1>5. \A s \in Clock : Within(cell, Window(s)) <= best
    BY <1>1, <1>3, <1>4 DEF Scanned
  <1>6. best = Within(cell, Window(best_start))
    <2>1. CASE best = 0
      <3>1. Within(cell, Window(0)) = 0 /\ best_start = 0
        BY <1>1, <1>3, <1>4, <1>5, <2>1 DEF Scanned
      <3> QED
        BY <2>1, <3>1
    <2>2. CASE best # 0
      BY <1>1, <1>2, <1>4, <2>2 DEF Scanned
    <2> QED
      BY <2>1, <2>2
  <1> QED
    BY <1>1, <1>2, <1>5, <1>6, TotalIsAll

LEMMA JudgeStep == IInv /\ Judge => IInv'
  <1> SUFFICES ASSUME IInv, Judge PROVE IInv'
    OBVIOUS
  <1> DEFINE daylight == InDaylight(best_start, cell_lon[cell])
             v == [count |-> Total(cell), start |-> best_start, inside |-> best,
                   empty |-> Empty(cell), daylight |-> daylight,
                   industrial |-> /\ 100 * best >= Percent * Total(cell)
                                  /\ Empty(cell) >= min_empty_hours
                                  /\ daylight]
  <1>1. /\ pc = "scan" /\ start = Hours /\ pc' = "cell" /\ left' = left \ {cell}
        /\ out' = [out EXCEPT ![cell] = v]
        /\ UNCHANGED <<obs, n, hist, cell_lon, start, best, best_start>>
        /\ TypeOK /\ Counting /\ n = Len(obs) + 1 /\ Scanned
    BY DEF Judge, IInv
  <1>2. /\ cell \in Cells
        /\ best = Within(cell, Window(best_start))
        /\ \A s \in Clock : Within(cell, Window(s)) <= best
        /\ Total(cell) = Cardinality(Explosions(cell)) /\ Total(cell) \in Nat
    BY <1>1, BestIsItsWindow
  <1>3. /\ Empty(cell) = Cardinality({h \in Clock : Within(cell, {h}) = 0})
        /\ Empty(cell) \in 0..Hours
    BY <1>1, <1>2, EmptyIsUnused
  <1>4. daylight \in BOOLEAN
    BY DEF InDaylight
  <1>5. /\ v.count = Total(cell) /\ v.start = best_start /\ v.inside = best
        /\ v.empty = Empty(cell)
        /\ v.industrial => /\ 100 * best >= Percent * Total(cell)
                           /\ Empty(cell) >= min_empty_hours
        /\ v \in Verdict
    BY <1>1, <1>2, <1>3, <1>4 DEF Verdict, TypeOK
  <1> HIDE DEF v, daylight
  <1>6. TypeOK'
    BY <1>1, <1>2, <1>5 DEF TypeOK
  <1>7. IsFiniteSet(left')
    BY <1>1, FS_RemoveElement DEF IInv
  <1>8. /\ \A c, S : Within(c, S)' = Within(c, S)
        /\ \A c : Explosions(c)' = Explosions(c)
    BY <1>1, WithinKept
  <1>9. Verdicts'
    <2> SUFFICES ASSUME NEW c \in Cells, out'[c] # None
                 PROVE  /\ out'[c].count = Cardinality(Explosions(c))
                        /\ out'[c].count >= min_events
                        /\ out'[c].inside = Within(c, Window(out'[c].start))
                        /\ \A s \in Clock : Within(c, Window(s)) <= out'[c].inside
                        /\ out'[c].empty = Cardinality({h \in Clock : Within(c, {h}) = 0})
                        /\ out'[c].industrial =>
                              /\ 100 * out'[c].inside >= Percent * out'[c].count
                              /\ out'[c].empty >= min_empty_hours
      BY <1>8 DEF Verdicts, Window, Clock
    <2>1. CASE c = cell
      <3>1. out'[c] = v
        BY <1>1, <1>2, <2>1 DEF TypeOK
      <3> QED
        BY <1>1, <1>2, <1>3, <1>5, <2>1, <3>1 DEF Scanned
    <2>2. CASE c # cell
      <3>1. out'[c] = out[c]
        BY <1>1, <2>2 DEF TypeOK
      <3> QED
        BY <3>1 DEF IInv, Verdicts
    <2> QED
      BY <2>1, <2>2
  <1>10. Counting'
    BY <1>1, CountedKept
  <1> QED
    BY <1>1, <1>6, <1>7, <1>9, <1>10 DEF IInv

LEMMA FinishStep == IInv /\ (Finish \/ UNCHANGED vars) => IInv'
  <1> SUFFICES ASSUME IInv, Finish \/ UNCHANGED vars PROVE IInv'
    OBVIOUS
  <1>1. /\ UNCHANGED <<obs, n, hist, cell_lon, left, start, best, best_start, out>>
        /\ pc' = pc \/ (pc = "cell" /\ pc' = "done")
    BY DEF Finish, vars
  <1>2. TypeOK'
    BY <1>1 DEF IInv, TypeOK
  <1>3. Counting' /\ Verdicts'
    BY <1>1, CountedKept, VerdictsKept DEF IInv
  <1>4. Scanned => Scanned'
    BY <1>1, SumKept DEF Scanned, Window, Clock, cell
  <1> QED
    BY <1>1, <1>2, <1>3, <1>4 DEF IInv

-----------------------------------------------------------------------------
(* The invariant: the histogram is the observations' counts so far, the scan's *)
(* best is the best of the windows tried, and each verdict given is that of    *)
(* the cell's own observations.                                             *)
THEOREM Inductive == Spec => []IInv
  <1>1. IInv /\ [Next]_vars => IInv'
    BY CountStep, SkipStep, CountedStep, TooFewStep, BeginScanStep, ScanStep, JudgeStep,
       FinishStep DEF Next
  <1> QED
    BY <1>1, Initial, PTL DEF Spec

(* Every variable of diurnal_cells keeps its type; a cell's hours that are     *)
(* empty are at most the hours there are.                                   *)
THEOREM TypeCorrect == Spec => []TypeOK
  <1>1. IInv => TypeOK
    BY DEF IInv
  <1> QED
    BY <1>1, Inductive, PTL

(* REQ-5.12: a cell is judged by the busiest window around the clock, and by   *)
(* the number of its own explosions in it.                                  *)
THEOREM BusiestWindow == Spec => []WindowIsBusiest
  <1>1. IInv => WindowIsBusiest
    BY DEF IInv, Verdicts, WindowIsBusiest, Judged
  <1> QED
    BY <1>1, Inductive, PTL

(* REQ-5.12: a cell called industrial has enough explosions, the stated share  *)
(* of them in consecutive hours, and enough hours that none of them uses.      *)
THEOREM IndustryRegular == Spec => []IndustryIsRegular
  <1>1. IInv => IndustryIsRegular
    <2> SUFFICES ASSUME IInv, NEW c \in Cells, Judged(c), out[c].industrial
                 PROVE  /\ Cardinality(Explosions(c)) >= min_events
                        /\ \E s \in Clock : 100 * Within(c, Window(s))
                                               >= Percent * Cardinality(Explosions(c))
                        /\ Cardinality({h \in Clock : Within(c, {h}) = 0}) >= min_empty_hours
      BY DEF IndustryIsRegular
    <2>1. out[c].start \in Clock
      BY DEF IInv, TypeOK, Judged, Verdict
    <2> QED
      BY <2>1 DEF IInv, Verdicts, Judged
  <1> QED
    BY <1>1, Inductive, PTL
==============================================================================
