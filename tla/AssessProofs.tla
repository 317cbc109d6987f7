----------------------------- MODULE AssessProofs -----------------------------
(***************************************************************************)
(* Theorems about Assess: for any universe of observations and events of any *)
(* length, the verdict, the position and the confidence factors are what the *)
(* whole set of constituents says, in whatever order they come.  Each of the *)
(* four loops is described by the constituents it has walked so far.         *)
(***************************************************************************)
EXTENDS Assess, TLAPS, FiniteSetTheorems, SequenceTheorems

\* The constituents the loops have looked at: for a position, for a verdict,
\* for a cell with the signature, and for the confidence factors.
Looked  == IF loop = "position" THEN 1..(k - 1) ELSE DOMAIN e
Heard   == IF loop = "position" THEN {}
           ELSE IF loop = "verdict" THEN 1..(k - 1) ELSE DOMAIN e
Crossed == IF loop = "diurnal" THEN 1..(k - 1)
           ELSE IF loop \in {"confidence", "done"} THEN DOMAIN e ELSE {}
Weighed == IF loop = "confidence" THEN 1..(k - 1)
           ELSE IF loop = "done" THEN DOMAIN e ELSE {}

PlacedIn(ev, S) == {n \in S : ev[n].place # "none"}
SeismicIn(ev, S) == {n \in S : ev[n].place # "none" /\ ev[n].class = "instrumental"}

\* best is the first of the positions that count among S.
BestOf(ev, b, S) ==
    LET candidates == IF SeismicIn(ev, S) = {} THEN PlacedIn(ev, S) ELSE SeismicIn(ev, S)
    IN  \/ candidates = {} /\ b = 0
        \/ b \in candidates /\ \A n \in candidates : b <= n

PositionSoFar == BestOf(e, best, Looked)

\* A definite verdict has been kept, and the diurnal rule may have changed it.
Definite == \E n \in Heard : Verdict(e[n]) # "indeterminate"

VerdictSoFar ==
    /\ explained = Heard
    /\ classification # "indeterminate" <=> Definite
    /\ classification # "indeterminate" =>
          \/ \E n \in Heard : classification = Verdict(e[n])
          \/ /\ loop \in {"confidence", "done"}
             /\ classification = "industrial-blast"
             /\ \E n \in Heard : Verdict(e[n]) = "surface-explosion"

\* A depth that gave a verdict has been declared.
DepthSoFar ==
    \A n \in Heard : DepthApplies(e[n]) /\ Verdict(e[n]) # "indeterminate" => applied

\* While an event is called a surface explosion no cell crossed has the signature.
DiurnalSoFar ==
    /\ loop = "diurnal" /\ classification # "surface-explosion" => k = 1
    /\ classification = "surface-explosion" =>
          \A n \in Crossed : e[n].place # "working-hours"

Least(ev, u, S) ==
    LET stated == {ev[n].uncertainty : n \in S} \ {None}
    IN  \/ stated = {} /\ u = -1
        \/ u \in stated /\ \A v \in stated : u <= v

ConfidenceSoFar ==
    /\ confidence.sources = {e[n].source : n \in Weighed}
    /\ Least(e, confidence.uncertainty, Weighed)
    /\ classification = "surface-explosion" =>
          (confidence.disconfirmed <=> \E n \in Weighed : e[n].type = "earthquake")
    /\ loop \notin {"confidence", "done"} => ~confidence.disconfirmed
    /\ \A n \in {confidence.instrumental, confidence.reporting} :
          /\ loop = "confidence" => n <= k - 1
          /\ loop \notin {"confidence", "done"} => n = 0

IInv ==
    /\ TypeOK
    /\ PositionSoFar
    /\ VerdictSoFar
    /\ DepthSoFar
    /\ DiurnalSoFar
    /\ ConfidenceSoFar
-----------------------------------------------------------------------------
\* The constituents are observations of the universe, whose members are typed.
LEMMA Constituent ==
    ASSUME TypeOK, NEW n \in DOMAIN e
    PROVE  /\ e[n] \in Universe
           /\ e[n].class \in Class
           /\ e[n].type \in Type
           /\ e[n].uncertainty \in Nat \cup {None}
           /\ e[n].place \in Place
           /\ Verdict(e[n]) \in Verdicts
<1>1. e[n] \in Universe
  BY DEF TypeOK
<1>2. Verdict(e[n]) \in Verdicts
  BY DEF Verdict, Verdicts
<1> QED
  BY <1>1, <1>2, UniverseAssumption

\* A loop's index is in range, and what it has walked, with the index, is the
\* next prefix.
LEMMA Walk ==
    ASSUME TypeOK
    PROVE  /\ Len(e) \in Nat /\ 1 <= Len(e) /\ DOMAIN e = 1..Len(e)
           /\ k \in 1..Len(e)
           /\ 1..((k + 1) - 1) = (1..(k - 1)) \cup {k}
           /\ k = Len(e) => DOMAIN e = (1..(k - 1)) \cup {k}
           /\ 1..(1 - 1) = {}
           /\ 1..(k - 1) \subseteq DOMAIN e
<1>1. Len(e) \in Nat /\ 1 <= Len(e) /\ DOMAIN e = 1..Len(e) /\ k \in 1..Len(e)
  BY UniverseAssumption DEF TypeOK
<1>2. k \in Int /\ 1..((k + 1) - 1) = 1..k
  BY <1>1
<1>3. 1..k = (1..(k - 1)) \cup {k}
  BY <1>1
<1>4. 1..(1 - 1) = {} /\ 1..(k - 1) \subseteq DOMAIN e
  BY <1>1
<1> QED
  BY <1>1, <1>2, <1>3, <1>4

\* Advance keeps the types and reaches either the next index or the next loop.
LEMMA Advanced ==
    ASSUME TypeOK, NEW next \in Loops, Advance(next), e' = e
    PROVE  /\ k < Len(e) => k' = k + 1 /\ loop' = loop
           /\ k >= Len(e) => k = Len(e) /\ k' = 1 /\ loop' = next
           /\ k' \in DOMAIN e
           /\ loop' \in Loops
<1>1. Len(e) \in Nat /\ 1 <= Len(e) /\ DOMAIN e = 1..Len(e) /\ k \in 1..Len(e)
  BY Walk
<1>2. k \in Int /\ k <= Len(e) /\ Len(e) \in Int
  BY <1>1
<1>3. loop \in Loops
  BY DEF TypeOK
<1>4. k < Len(e) => k' = k + 1 /\ loop' = loop
  BY DEF Advance
<1>5. k >= Len(e) => ~(k < Len(e))
  BY <1>1, <1>2
<1>6. k >= Len(e) => k' = 1 /\ loop' = next
  BY <1>5 DEF Advance
<1>7. k >= Len(e) => k = Len(e)
  BY <1>2
<1>8. k < Len(e) => k + 1 \in 1..Len(e)
  BY <1>1, <1>2
<1>9. 1 \in 1..Len(e)
  BY <1>1
<1>10. k < Len(e) \/ k >= Len(e)
  BY <1>1, <1>2
<1>11. CASE k < Len(e)
  <2>1. k' \in DOMAIN e /\ loop' \in Loops
    BY <1>1, <1>3, <1>4, <1>8, <1>11
  <2> QED
    BY <1>4, <1>6, <1>7, <2>1
<1>12. CASE k >= Len(e)
  <2>1. k' \in DOMAIN e /\ loop' \in Loops
    BY <1>1, <1>6, <1>9, <1>12
  <2> QED
    BY <1>4, <1>6, <1>7, <2>1
<1> QED
  BY <1>10, <1>11, <1>12

\* The representative position with one constituent more.
LEMMA BestStep ==
    ASSUME TypeOK, BestOf(e, best, 1..(k - 1)), NEW b,
           b = IF obs.place # "none" /\ Better THEN k ELSE best
    PROVE  BestOf(e, b, (1..(k - 1)) \cup {k})
<1> DEFINE S == 1..(k - 1)
<1>1. k \in Nat /\ k # 0 /\ k <= k
  BY Walk
<1>2. \A n \in S : n \in Nat /\ n # 0 /\ n <= k
  BY <1>1
<1>3. obs = e[k]
  BY DEF obs
<1>4. PlacedIn(e, S) \subseteq S /\ SeismicIn(e, S) \subseteq PlacedIn(e, S)
  BY DEF PlacedIn, SeismicIn
<1> HIDE DEF S
<1>5. BestOf(e, best, S)
  BY DEF S
<1>6. CASE obs.place = "none"
  <2>1. PlacedIn(e, S \cup {k}) = PlacedIn(e, S) /\ SeismicIn(e, S \cup {k}) = SeismicIn(e, S)
    BY <1>3, <1>6 DEF PlacedIn, SeismicIn
  <2>2. b = best
    BY <1>6
  <2>3. BestOf(e, b, S \cup {k})
    BY <1>5, <2>1, <2>2 DEF BestOf
  <2> QED
    BY <2>3 DEF S
<1>7. CASE obs.place # "none" /\ obs.class = "instrumental"
  <2>1. SeismicIn(e, S \cup {k}) = SeismicIn(e, S) \cup {k}
    BY <1>3, <1>7 DEF SeismicIn
  <2>2. CASE SeismicIn(e, S) = {}
    <3>1. best = 0 \/ (best \in S /\ e[best].place # "none" /\ best \notin SeismicIn(e, S))
      BY <1>4, <1>5, <2>2 DEF BestOf, PlacedIn
    <3>2. Better
      BY <1>3, <1>7, <3>1 DEF Better, SeismicIn
    <3>3. b = k /\ SeismicIn(e, S \cup {k}) = {k}
      BY <1>7, <2>1, <2>2, <3>2
    <3>4. BestOf(e, b, S \cup {k})
      BY <1>1, <3>3 DEF BestOf
    <3> QED
      BY <3>4 DEF S
  <2>3. CASE SeismicIn(e, S) # {}
    <3>1. best \in SeismicIn(e, S) /\ \A n \in SeismicIn(e, S) : best <= n
      BY <2>3, <1>5 DEF BestOf
    <3>2. best # 0 /\ best <= k
      BY <3>1, <1>2, <1>4
    <3>3. b = best
      BY <3>1, <3>2 DEF Better, SeismicIn
    <3>4. BestOf(e, b, S \cup {k})
      BY <2>1, <2>3, <3>1, <3>2, <3>3 DEF BestOf
    <3> QED
      BY <3>4 DEF S
  <2> QED
    BY <2>2, <2>3
<1>8. CASE obs.place # "none" /\ obs.class # "instrumental"
  <2>1. PlacedIn(e, S \cup {k}) = PlacedIn(e, S) \cup {k} /\ SeismicIn(e, S \cup {k}) = SeismicIn(e, S)
    BY <1>3, <1>8 DEF PlacedIn, SeismicIn
  <2>2. CASE best = 0
    <3>1. PlacedIn(e, S) = {} /\ SeismicIn(e, S) = {}
      BY <2>2, <1>2, <1>4, <1>5 DEF BestOf
    <3>2. b = k
      BY <2>2, <1>8 DEF Better
    <3>3. PlacedIn(e, S \cup {k}) = {k} /\ SeismicIn(e, S \cup {k}) = {}
      BY <2>1, <3>1
    <3>4. BestOf(e, b, S \cup {k})
      BY <1>1, <3>2, <3>3 DEF BestOf
    <3> QED
      BY <3>4 DEF S
  <2>3. CASE best # 0
    <3>1. b = best
      BY <2>3, <1>8 DEF Better
    <3>2. best \in PlacedIn(e, S) /\ best <= k
      BY <2>3, <1>2, <1>4, <1>5 DEF BestOf
    <3>3. BestOf(e, b, S \cup {k})
      BY <1>5, <2>1, <2>3, <3>1, <3>2 DEF BestOf
    <3> QED
      BY <3>3 DEF S
  <2> QED
    BY <2>2, <2>3
<1> QED
  BY <1>6, <1>7, <1>8
-----------------------------------------------------------------------------
LEMMA Initial == Init => IInv
<1> SUFFICES ASSUME Init PROVE IInv
  OBVIOUS
<1>1. PICK n \in 1..MaxLen : e \in [1..n -> Universe]
  BY DEF Init
<1>2. n \in Nat /\ 1 <= n /\ 1 \in 1..n
  BY <1>1, UniverseAssumption
<1>3. e \in Seq(Universe)
  BY <1>1, <1>2, SeqDef
<1>4. Len(e) = n /\ DOMAIN e = 1..n
  BY <1>1, <1>2, <1>3, LenProperties
<1>5. Looked = {} /\ Heard = {} /\ Crossed = {} /\ Weighed = {}
  BY DEF Init, Looked, Heard, Crossed, Weighed
<1>6. TypeOK
  <2>1. Len(e) \in 1..MaxLen /\ e \in [1..Len(e) -> Universe] /\ k \in DOMAIN e
    BY <1>1, <1>2, <1>4 DEF Init
  <2>2. confidence \in
          [sources : SUBSET {u.source : u \in Universe},
           instrumental : 0..Len(e), reporting : 0..Len(e), government : BOOLEAN,
           disconfirmed : BOOLEAN, suspected : BOOLEAN, uncertainty : Nat \cup {-1}]
    BY <1>2, <1>4 DEF Init
  <2>3. best \in 0..Len(e)
    BY <1>2, <1>4 DEF Init
  <2> QED
    BY <2>1, <2>2, <2>3 DEF Init, TypeOK, Loops, Verdicts
<1>7. PositionSoFar
  BY <1>5 DEF Init, PositionSoFar, BestOf, PlacedIn, SeismicIn
<1>8. VerdictSoFar /\ DepthSoFar
  BY <1>5 DEF Init, VerdictSoFar, DepthSoFar, Definite
<1>9. DiurnalSoFar
  BY DEF Init, DiurnalSoFar
<1>10. ConfidenceSoFar
  BY <1>5 DEF Init, ConfidenceSoFar, Least
<1> QED
  BY <1>6, <1>7, <1>8, <1>9, <1>10 DEF IInv

LEMMA PositionStep == IInv /\ Position => IInv'
<1> SUFFICES ASSUME IInv, Position PROVE IInv'
  OBVIOUS
<1> USE DEF IInv
<1>1. /\ loop = "position" /\ Advance("verdict") /\ e' = e
      /\ UNCHANGED <<classification, applied, explained, confidence>>
  BY DEF Position
<1>2. /\ k < Len(e) => k' = k + 1 /\ loop' = "position"
      /\ k >= Len(e) => k = Len(e) /\ k' = 1 /\ loop' = "verdict"
      /\ k' \in DOMAIN e /\ loop' \in Loops
  BY <1>1, Advanced DEF Loops
<1>3. k < Len(e) \/ k >= Len(e)
  BY Walk
<1>4. /\ Looked = 1..(k - 1)
      /\ Looked' = (1..(k - 1)) \cup {k}
      /\ Heard = {} /\ Heard' = {} /\ Crossed' = {} /\ Weighed = {} /\ Weighed' = {}
  <2>1. CASE k < Len(e)
    BY <1>1, <1>2, <2>1, Walk DEF Looked, Heard, Crossed, Weighed
  <2>2. CASE k >= Len(e)
    BY <1>1, <1>2, <2>2, Walk DEF Looked, Heard, Crossed, Weighed
  <2> QED
    BY <1>3, <2>1, <2>2
<1>5. best' = IF obs.place # "none" /\ Better THEN k ELSE best
  BY DEF Position
<1>6. TypeOK'
  <2>1. best' \in 0..Len(e)
    BY <1>5, Walk DEF TypeOK
  <2> QED
    BY <1>1, <1>2, <2>1 DEF TypeOK, Positioned
<1>7. PositionSoFar'
  BY <1>1, <1>4, <1>5, BestStep DEF PositionSoFar
<1>8. VerdictSoFar'
  BY <1>1, <1>4 DEF VerdictSoFar, Definite
<1>9. DepthSoFar'
  BY <1>4 DEF DepthSoFar
<1>10. DiurnalSoFar'
  BY <1>1, <1>2, <1>3, <1>4 DEF DiurnalSoFar
<1>11. ConfidenceSoFar'
  BY <1>1, <1>2, <1>3, <1>4 DEF ConfidenceSoFar
<1> QED
  BY <1>6, <1>7, <1>8, <1>9, <1>10, <1>11

LEMMA DiscriminateStep == IInv /\ Discriminate => IInv'
<1> SUFFICES ASSUME IInv, Discriminate PROVE IInv'
  OBVIOUS
<1> USE DEF IInv
<1>1. /\ loop = "verdict" /\ Advance("diurnal") /\ e' = e
      /\ best' = best /\ confidence' = confidence
  BY DEF Discriminate
<1>2. /\ k < Len(e) => k' = k + 1 /\ loop' = "verdict"
      /\ k >= Len(e) => k = Len(e) /\ k' = 1 /\ loop' = "diurnal"
      /\ k' \in DOMAIN e /\ loop' \in Loops
  BY <1>1, Advanced DEF Loops
<1>3. k < Len(e) \/ k >= Len(e)
  BY Walk
<1>4. /\ Looked' = Looked
      /\ Heard' = Heard \cup {k}
      /\ Crossed' = {} /\ Weighed = {} /\ Weighed' = {}
  <2>1. CASE k < Len(e)
    BY <1>1, <1>2, <2>1, Walk DEF Looked, Heard, Crossed, Weighed
  <2>2. CASE k >= Len(e)
    BY <1>1, <1>2, <2>2, Walk DEF Looked, Heard, Crossed, Weighed
  <2> QED
    BY <1>3, <2>1, <2>2
<1>5. /\ classification' = IF Adopts THEN Verdict(e[k]) ELSE classification
      /\ applied' = (applied \/ (Adopts /\ DepthApplies(e[k])))
      /\ explained' = explained \cup {k}
  BY DEF Discriminate, obs
<1>6. Adopts <=> \/ Verdict(e[k]) # "indeterminate"
                 \/ classification = "indeterminate" /\ explained = {}
  BY DEF Adopts, obs
<1>7. k \in DOMAIN e
  BY DEF TypeOK
<1>8. TypeOK'
  <2>1. classification' \in Verdicts
    BY <1>5, <1>7, Constituent DEF TypeOK
  <2>2. applied' \in BOOLEAN
    BY <1>5 DEF TypeOK
  <2>3. explained' \subseteq DOMAIN e
    BY <1>5, <1>7 DEF TypeOK
  <2> QED
    BY <1>1, <1>2, <2>1, <2>2, <2>3 DEF TypeOK, Positioned
<1>9. PositionSoFar'
  BY <1>1, <1>4 DEF PositionSoFar
<1>10. VerdictSoFar'
  <2>1. explained' = Heard'
    BY <1>4, <1>5 DEF VerdictSoFar
  <2>2. classification' = Verdict(e[k]) \/ classification' = classification
    BY <1>5
  <2>3. classification' # "indeterminate" <=> (Definite \/ Verdict(e[k]) # "indeterminate")
    BY <1>5, <1>6 DEF VerdictSoFar
  <2>4. Definite' <=> (Definite \/ Verdict(e[k]) # "indeterminate")
    BY <1>1, <1>4 DEF Definite
  <2>5. classification' # "indeterminate" => \E n \in Heard' : classification' = Verdict(e[n])
    BY <1>1, <1>4, <2>2 DEF VerdictSoFar
  <2> QED
    BY <1>1, <2>1, <2>3, <2>4, <2>5 DEF VerdictSoFar
<1>11. DepthSoFar'
  BY <1>1, <1>4, <1>5, <1>6 DEF DepthSoFar
<1>12. DiurnalSoFar'
  BY <1>1, <1>2, <1>3, <1>4 DEF DiurnalSoFar
<1>13. ConfidenceSoFar'
  <2>1. Least(e', confidence'.uncertainty, Weighed')
    BY <1>1, <1>4 DEF ConfidenceSoFar
  <2>2. confidence.sources = {} /\ confidence.instrumental = 0 /\ confidence.reporting = 0
    BY <1>1, <1>4 DEF ConfidenceSoFar
  <2>3. ~confidence.disconfirmed
    BY <1>1, <1>4 DEF ConfidenceSoFar
  <2> QED
    BY <1>1, <1>2, <1>3, <1>4, <2>1, <2>2, <2>3 DEF ConfidenceSoFar
<1> QED
  BY <1>8, <1>9, <1>10, <1>11, <1>12, <1>13

LEMMA DiurnalStep == IInv /\ Diurnal => IInv'
<1> SUFFICES ASSUME IInv, Diurnal PROVE IInv'
  OBVIOUS
<1> USE DEF IInv
<1>1. /\ loop = "diurnal" /\ classification = "surface-explosion"
      /\ UNCHANGED <<e, best, applied, explained, confidence>>
  BY DEF Diurnal
<1>2. Weighed = {} /\ Heard = DOMAIN e /\ Looked = DOMAIN e
  BY <1>1 DEF Weighed, Heard, Looked
<1>3. CASE Override
  <2>1. classification' = "industrial-blast" /\ loop' = "confidence" /\ k' = 1
    BY <1>3 DEF Diurnal
  <2>2. Looked' = DOMAIN e /\ Heard' = DOMAIN e /\ Weighed' = {}
    BY <1>1, <2>1, Walk DEF Looked, Heard, Weighed
  <2>3. TypeOK'
    BY <1>1, <2>1, Walk DEF TypeOK, Positioned, Loops, Verdicts
  <2>4. PositionSoFar'
    BY <1>1, <1>2, <2>2 DEF PositionSoFar
  <2>5. VerdictSoFar'
    <3>1. \E n \in Heard : Verdict(e[n]) = "surface-explosion"
      BY <1>1 DEF VerdictSoFar
    <3> QED
      BY <1>1, <1>2, <2>1, <2>2, <3>1 DEF VerdictSoFar, Definite
  <2>6. DepthSoFar'
    BY <1>1, <1>2, <2>2 DEF DepthSoFar
  <2>7. DiurnalSoFar'
    BY <2>1 DEF DiurnalSoFar
  <2>8. ConfidenceSoFar'
    <3>1. confidence.instrumental = 0 /\ confidence.reporting = 0
      BY <1>1 DEF ConfidenceSoFar
    <3>2. Least(e', confidence'.uncertainty, Weighed')
      BY <1>1, <1>2, <2>2 DEF ConfidenceSoFar
    <3> QED
      BY <1>1, <1>2, <2>1, <2>2, <3>1, <3>2 DEF ConfidenceSoFar
  <2> QED
    BY <2>3, <2>4, <2>5, <2>6, <2>7, <2>8
<1>4. CASE ~Override
  <2>1. Advance("confidence") /\ classification' = classification
    BY <1>4 DEF Diurnal
  <2>2. /\ k < Len(e) => k' = k + 1 /\ loop' = "diurnal"
        /\ k >= Len(e) => k = Len(e) /\ k' = 1 /\ loop' = "confidence"
        /\ k' \in DOMAIN e /\ loop' \in Loops
    BY <1>1, <2>1, Advanced DEF Loops
  <2>3. k < Len(e) \/ k >= Len(e)
    BY Walk
  <2>4. Looked' = DOMAIN e /\ Heard' = DOMAIN e /\ Weighed' = {} /\ Crossed' = Crossed \cup {k}
    <3>1. CASE k < Len(e)
      BY <1>1, <2>2, <3>1, Walk DEF Looked, Heard, Crossed, Weighed
    <3>2. CASE k >= Len(e)
      BY <1>1, <2>2, <3>2, Walk DEF Looked, Heard, Crossed, Weighed
    <3> QED
      BY <2>3, <3>1, <3>2
  <2>5. TypeOK'
    BY <1>1, <2>1, <2>2 DEF TypeOK, Positioned
  <2>6. PositionSoFar'
    BY <1>1, <1>2, <2>4 DEF PositionSoFar
  <2>7. VerdictSoFar'
    BY <1>1, <1>2, <2>1, <2>4 DEF VerdictSoFar, Definite
  <2>8. DepthSoFar'
    BY <1>1, <1>2, <2>4 DEF DepthSoFar
  <2>9. DiurnalSoFar'
    BY <1>1, <1>4, <2>1, <2>4 DEF DiurnalSoFar, Override, obs
  <2>10. ConfidenceSoFar'
    <3>1. confidence.instrumental = 0 /\ confidence.reporting = 0 /\ ~confidence.disconfirmed
      BY <1>1 DEF ConfidenceSoFar
    <3>2. Least(e', confidence'.uncertainty, Weighed')
      BY <1>1, <1>2, <2>4 DEF ConfidenceSoFar
    <3>3. loop' = "confidence" => 0 <= k' - 1
      BY <2>2, <2>3, <1>1
    <3> QED
      BY <1>1, <1>2, <2>1, <2>4, <3>1, <3>2, <3>3 DEF ConfidenceSoFar
  <2> QED
    BY <2>5, <2>6, <2>7, <2>8, <2>9, <2>10
<1> QED
  BY <1>3, <1>4

LEMMA SkipDiurnalStep == IInv /\ SkipDiurnal => IInv'
<1> SUFFICES ASSUME IInv, SkipDiurnal PROVE IInv'
  OBVIOUS
<1> USE DEF IInv
<1>1. /\ loop = "diurnal" /\ classification # "surface-explosion" /\ loop' = "confidence"
      /\ UNCHANGED <<e, k, best, classification, applied, explained, confidence>>
  BY DEF SkipDiurnal
<1>2. k = 1
  BY <1>1 DEF DiurnalSoFar
<1>3. /\ Looked' = Looked /\ Heard' = Heard /\ Weighed = {} /\ Weighed' = {}
  BY <1>1, <1>2, Walk DEF Looked, Heard, Weighed
<1>4. TypeOK'
  BY <1>1 DEF TypeOK, Positioned, Loops
<1>5. PositionSoFar'
  BY <1>1, <1>3 DEF PositionSoFar
<1>6. VerdictSoFar' /\ DepthSoFar' /\ DiurnalSoFar'
  BY <1>1, <1>3 DEF VerdictSoFar, Definite, DepthSoFar, DiurnalSoFar
<1>7. ConfidenceSoFar'
  <2>1. Least(e', confidence'.uncertainty, Weighed')
    BY <1>1, <1>3 DEF ConfidenceSoFar
  <2>2. confidence.instrumental = 0 /\ confidence.reporting = 0
    BY <1>1 DEF ConfidenceSoFar
  <2> QED
    BY <1>1, <1>2, <1>3, <2>1, <2>2 DEF ConfidenceSoFar
<1> QED
  BY <1>4, <1>5, <1>6, <1>7

\* The smallest uncertainty with one constituent more.
LEMMA LeastStep ==
    ASSUME NEW S, NEW j, NEW u, Least(e, u, S), TypeOK, S \subseteq DOMAIN e, j \in DOMAIN e
    PROVE  Least(e, IF e[j].uncertainty # None /\ (u < 0 \/ e[j].uncertainty < u)
                      THEN e[j].uncertainty ELSE u, S \cup {j})
<1> DEFINE stated == {e[n].uncertainty : n \in S} \ {None}
           w == e[j].uncertainty
           stated1 == {e[n].uncertainty : n \in S \cup {j}} \ {None}
<1>1. w \in Nat \cup {None} /\ stated \subseteq Nat
  BY Constituent
<1>2. None \notin Int
  BY UniverseAssumption
<1>3. stated1 = stated \cup ({w} \ {None})
  OBVIOUS
<1>4. (stated = {} /\ u = -1) \/ (u \in stated /\ \A v \in stated : u <= v)
  BY DEF Least
<1> HIDE DEF stated, w, stated1
<1>5. CASE w = None
  BY <1>3, <1>4, <1>5 DEF Least, stated1, w
<1>6. CASE w \in Nat /\ stated = {}
  <2>1. u = -1 /\ w # None /\ stated1 = {w}
    BY <1>2, <1>3, <1>4, <1>6
  <2>2. w <= w /\ u < 0
    BY <1>6, <2>1
  <2> QED
    BY <2>1, <2>2 DEF Least, stated1, w
<1>7. CASE w \in Nat /\ stated # {}
  <2>1. u \in Nat /\ u \in stated /\ \A v \in stated : v \in Nat /\ u <= v
    BY <1>1, <1>4, <1>7
  <2>2. w # None /\ stated1 = stated \cup {w} /\ ~(u < 0)
    BY <1>2, <1>3, <1>7, <2>1
  <2>3. CASE w < u
    <3>1. w \in stated1 /\ \A v \in stated1 : w <= v
      BY <1>7, <2>1, <2>2, <2>3
    <3> QED
      BY <2>2, <2>3, <3>1 DEF Least, stated1, w
  <2>4. CASE ~(w < u)
    <3>1. u \in stated1 /\ \A v \in stated1 : u <= v
      BY <1>7, <2>1, <2>2, <2>4
    <3> QED
      BY <2>2, <2>4, <3>1 DEF Least, stated1, w
  <2> QED
    BY <2>3, <2>4
<1> QED
  BY <1>1, <1>5, <1>6, <1>7

LEMMA WeighStep == IInv /\ Weigh => IInv'
<1> SUFFICES ASSUME IInv, Weigh PROVE IInv'
  OBVIOUS
<1> USE DEF IInv
<1>1. /\ loop = "confidence" /\ Advance("done") /\ e' = e
      /\ UNCHANGED <<best, classification, applied, explained>>
  BY DEF Weigh
<1>2. /\ k < Len(e) => k' = k + 1 /\ loop' = "confidence"
      /\ k >= Len(e) => k = Len(e) /\ k' = 1 /\ loop' = "done"
      /\ k' \in DOMAIN e /\ loop' \in Loops
  BY <1>1, Advanced DEF Loops
<1>3. k < Len(e) \/ k >= Len(e)
  BY Walk
<1>4. k \in DOMAIN e /\ Weighed \subseteq DOMAIN e
  BY <1>1, Walk DEF TypeOK, Weighed
<1>5. /\ Looked = DOMAIN e /\ Heard = DOMAIN e /\ Crossed = DOMAIN e
      /\ Looked' = DOMAIN e /\ Heard' = DOMAIN e /\ Crossed' = DOMAIN e
      /\ Weighed' = Weighed \cup {k}
  <2>1. CASE k < Len(e)
    BY <1>1, <1>2, <2>1, Walk DEF Looked, Heard, Crossed, Weighed
  <2>2. CASE k >= Len(e)
    BY <1>1, <1>2, <2>2, Walk DEF Looked, Heard, Crossed, Weighed
  <2> QED
    BY <1>3, <2>1, <2>2
<1>6. /\ confidence'.sources = confidence.sources \cup {e[k].source}
      /\ confidence'.instrumental = IF e[k].class = "instrumental"
                                       THEN confidence.instrumental + 1
                                       ELSE confidence.instrumental
      /\ confidence'.reporting = IF e[k].class = "reporting"
                                    THEN confidence.reporting + 1
                                    ELSE confidence.reporting
      /\ confidence'.government = (confidence.government \/ e[k].class = "government")
      /\ confidence'.disconfirmed = Disconfirms(confidence.disconfirmed)
      /\ confidence'.suspected = (confidence.suspected \/ e[k].suspected)
      /\ confidence'.uncertainty = Tightest(confidence.uncertainty)
      /\ DOMAIN confidence' = {"sources", "instrumental", "reporting", "government",
                              "disconfirmed", "suspected", "uncertainty"}
  BY DEF Weigh, Tally, obs
<1>7. Least(e, confidence'.uncertainty, Weighed')
  BY <1>4, <1>5, <1>6, LeastStep DEF ConfidenceSoFar, Tightest, obs
<1>8. \A n \in {confidence'.instrumental, confidence'.reporting} : n \in Nat /\ n <= k
  <2>1. \A n \in {confidence.instrumental, confidence.reporting} :
           n \in Nat /\ n <= k - 1 /\ k \in Nat
    BY <1>1, Walk DEF ConfidenceSoFar, TypeOK
  <2> QED
    BY <1>6, <2>1
<1>9. TypeOK'
  <2>1. e[k].source \in {u.source : u \in Universe}
    BY <1>4, Constituent
  <2>2. confidence'.sources \in SUBSET {u.source : u \in Universe}
    BY <1>6, <2>1 DEF TypeOK
  <2>3. confidence'.instrumental \in 0..Len(e) /\ confidence'.reporting \in 0..Len(e)
    BY <1>8, Walk
  <2>4. confidence'.uncertainty \in Nat \cup {-1}
    BY <1>4, <1>6, Constituent DEF TypeOK, Tightest, obs
  <2>5. confidence'.government \in BOOLEAN /\ confidence'.disconfirmed \in BOOLEAN
          /\ confidence'.suspected \in BOOLEAN
    BY <1>6 DEF Disconfirms
  <2>6. confidence' = [sources |-> confidence'.sources,
                       instrumental |-> confidence'.instrumental,
                       reporting |-> confidence'.reporting,
                       government |-> confidence'.government,
                       disconfirmed |-> confidence'.disconfirmed,
                       suspected |-> confidence'.suspected,
                       uncertainty |-> confidence'.uncertainty]
    BY DEF Weigh
  <2>7. confidence' \in
          [sources : SUBSET {u.source : u \in Universe},
           instrumental : 0..Len(e), reporting : 0..Len(e), government : BOOLEAN,
           disconfirmed : BOOLEAN, suspected : BOOLEAN, uncertainty : Nat \cup {-1}]
    BY <2>2, <2>3, <2>4, <2>5, <2>6
  <2> QED
    BY <1>1, <1>2, <2>7 DEF TypeOK, Positioned
<1>10. PositionSoFar'
  BY <1>1, <1>5 DEF PositionSoFar
<1>11. VerdictSoFar'
  BY <1>1, <1>2, <1>3, <1>5 DEF VerdictSoFar, Definite
<1>12. DepthSoFar' /\ DiurnalSoFar'
  BY <1>1, <1>2, <1>3, <1>5 DEF DepthSoFar, DiurnalSoFar
<1>13. ConfidenceSoFar'
  <2>1. confidence'.sources = {e'[n].source : n \in Weighed'}
    BY <1>1, <1>5, <1>6 DEF ConfidenceSoFar
  <2>2. classification' = "surface-explosion" =>
          (confidence'.disconfirmed <=> \E n \in Weighed' : e'[n].type = "earthquake")
    BY <1>1, <1>5, <1>6 DEF ConfidenceSoFar, Disconfirms, obs
  <2>3. \A n \in {confidence'.instrumental, confidence'.reporting} :
           loop' = "confidence" => n <= k' - 1
    BY <1>2, <1>3, <1>8, Walk
  <2>4. loop' \in {"confidence", "done"}
    BY <1>2, <1>3
  <2> QED
    BY <1>1, <1>7, <2>1, <2>2, <2>3, <2>4 DEF ConfidenceSoFar
<1> QED
  BY <1>9, <1>10, <1>11, <1>12, <1>13

-----------------------------------------------------------------------------
\* The strengthened invariant: whatever the constituents and their order, each
\* loop of correlate's second half has dealt with exactly those it has walked.
THEOREM Inductive == Spec => []IInv
<1>1. Init => IInv
  BY Initial
<1>2. IInv /\ [Next]_vars => IInv'
  <2> SUFFICES ASSUME IInv, [Next]_vars PROVE IInv'
    OBVIOUS
  <2>1. CASE Position
    BY <2>1, PositionStep
  <2>2. CASE Discriminate
    BY <2>2, DiscriminateStep
  <2>3. CASE Diurnal
    BY <2>3, DiurnalStep
  <2>4. CASE SkipDiurnal
    BY <2>4, SkipDiurnalStep
  <2>5. CASE Weigh
    BY <2>5, WeighStep
  <2>6. CASE UNCHANGED vars
    <3>1. UNCHANGED <<e, loop, k, best, classification, applied, explained, confidence>>
      BY <2>6 DEF vars
    <3>2. UNCHANGED <<Looked, Heard, Crossed, Weighed>>
      BY <3>1 DEF Looked, Heard, Crossed, Weighed
    <3>3. TypeOK'
      BY <3>1 DEF IInv, TypeOK, Positioned
    <3>4. PositionSoFar'
      BY <3>1, <3>2 DEF IInv, PositionSoFar
    <3>5. VerdictSoFar' /\ DepthSoFar' /\ DiurnalSoFar'
      BY <3>1, <3>2 DEF IInv, VerdictSoFar, Definite, DepthSoFar, DiurnalSoFar
    <3>6. ConfidenceSoFar'
      <4>1. Least(e', confidence'.uncertainty, Weighed')
        BY <3>1, <3>2 DEF IInv, ConfidenceSoFar
      <4>2. confidence' = confidence
        BY <3>1
      <4> QED
        BY <3>1, <3>2, <4>1, <4>2 DEF IInv, ConfidenceSoFar
    <3> QED
      BY <3>3, <3>4, <3>5, <3>6 DEF IInv
  <2> QED
    BY <2>1, <2>2, <2>3, <2>4, <2>5, <2>6 DEF Next
<1> QED
  BY <1>1, <1>2, PTL DEF Spec

\* Type correctness, for any universe of observations and any length of events.
THEOREM TypeCorrect == Spec => []TypeOK
<1>1. IInv => TypeOK
  BY DEF IInv
<1> QED
  BY <1>1, Inductive, PTL

\* analysis.cpp:309: the order of the constituents never loses a verdict or
\* invents one, for events of any length.
THEOREM VerdictKept == Spec => []DefiniteVerdictKept
<1>1. IInv => DefiniteVerdictKept
  <2> SUFFICES ASSUME IInv, loop \in {"confidence", "done"}
               PROVE  /\ classification = "indeterminate" <=> Given(Class) \subseteq {"indeterminate"}
                      /\ \/ classification \in Given(Class)
                         \/ /\ classification = "industrial-blast"
                            /\ "surface-explosion" \in Given(Class)
    BY DEF DefiniteVerdictKept
  <2> USE DEF IInv
  <2>1. Heard = DOMAIN e
    BY DEF Heard
  <2>2. \A n \in DOMAIN e : e[n].class \in Class
    BY Constituent
  <2>3. Given(Class) = {Verdict(e[n]) : n \in DOMAIN e}
    BY <2>2 DEF Given
  <2>4. k \in DOMAIN e
    BY DEF TypeOK
  <2>5. classification = "indeterminate" <=> Given(Class) \subseteq {"indeterminate"}
    BY <2>1, <2>3 DEF VerdictSoFar, Definite
  <2>6. CASE classification = "indeterminate"
    <3>1. Verdict(e[k]) = "indeterminate"
      BY <2>3, <2>4, <2>5, <2>6
    <3> QED
      BY <2>3, <2>4, <2>5, <2>6, <3>1
  <2>7. CASE classification # "indeterminate"
    BY <2>1, <2>3, <2>5, <2>7 DEF VerdictSoFar
  <2> QED
    BY <2>6, <2>7
<1> QED
  BY <1>1, Inductive, PTL

\* REQ-5.2, REQ-5.12: no event is called a surface explosion on a default depth,
\* on one that QuakeML does not say was solved, or against the working-hours
\* signature of any of its positions, for any universe of observations.
THEOREM SurfaceEarned == Spec => []SurfaceIsEarned
<1>1. IInv => SurfaceIsEarned
  <2> SUFFICES ASSUME IInv, loop = "done", classification = "surface-explosion"
               PROVE  /\ \A n \in DOMAIN e : e[n].place # "working-hours"
                      /\ \E n \in DOMAIN e :
                            \/ e[n].type = "explosion"
                            \/ /\ applied
                               /\ e[n].depth # None
                               /\ e[n].depth <= 1
                               /\ IF e[n].format = "quakeml" THEN e[n].declared = "solved"
                                                             ELSE e[n].depth # 0
    BY DEF SurfaceIsEarned
  <2> USE DEF IInv
  <2>1. Heard = DOMAIN e /\ Crossed = DOMAIN e
    BY DEF Heard, Crossed
  <2>2. \A n \in DOMAIN e : e[n].place # "working-hours"
    BY <2>1 DEF DiurnalSoFar
  <2>3. PICK n \in DOMAIN e : Verdict(e[n]) = "surface-explosion"
    BY <2>1 DEF VerdictSoFar
  <2>4. \/ e[n].type = "explosion"
        \/ DepthApplies(e[n]) /\ e[n].depth <= 1
    BY <2>3 DEF Verdict
  <2>5. DepthApplies(e[n]) => applied
    BY <2>1, <2>3 DEF DepthSoFar
  <2>6. DepthApplies(e[n]) =>
          /\ e[n].depth # None
          /\ IF e[n].format = "quakeml" THEN e[n].declared = "solved" ELSE e[n].depth # 0
    BY DEF DepthApplies, DepthIsFixed
  <2> QED
    BY <2>2, <2>4, <2>5, <2>6
<1> QED
  BY <1>1, Inductive, PTL

\* REQ-7.6: contradicted by a constituent's "earthquake", a surface verdict is
\* never characterised above "low", nor said to have occurred above "low" when a
\* single source tells of it, in whatever order the two come.
THEOREM DoubtReflected == Spec => []DoubtIsReflected
<1>1. IInv => DoubtIsReflected
  <2> SUFFICES ASSUME IInv, loop = "done", classification = "surface-explosion",
                      NEW m \in DOMAIN e, e[m].type = "earthquake"
               PROVE  /\ characterisation_band = "low"
                      /\ (\A n \in DOMAIN e : e[n].source = e[1].source) =>
                            occurrence_band = "low"
    BY DEF DoubtIsReflected
  <2> USE DEF IInv
  <2>1. Weighed = DOMAIN e
    BY DEF Weighed
  <2>2. confidence.disconfirmed
    BY <2>1 DEF ConfidenceSoFar
  <2>3. characterisation_band = "low"
    BY <2>2 DEF characterisation_band
  <2>4. ASSUME \A n \in DOMAIN e : e[n].source = e[1].source
        PROVE  occurrence_band = "low"
    <3>1. confidence.sources = {e[1].source}
      BY <2>1, <2>4 DEF ConfidenceSoFar
    <3>2. independent_sources = 1
      BY <3>1, FS_Singleton DEF independent_sources
    <3> QED
      BY <2>2, <3>2 DEF occurrence_band
  <2> QED
    BY <2>3, <2>4
<1> QED
  BY <1>1, Inductive, PTL

\* REQ-7.8: the location band is that of the smallest uncertainty published.
THEOREM BandPublished == Spec => []LocationBandIsPublished
<1>1. IInv => LocationBandIsPublished
  <2> SUFFICES ASSUME IInv, loop = "done" PROVE LocationBandIsPublished
    BY DEF LocationBandIsPublished
  <2> USE DEF IInv
  <2> DEFINE stated == {e[n].uncertainty : n \in DOMAIN e} \ {None}
             u == confidence.uncertainty
  <2>1. stated \subseteq Nat
    BY Constituent
  <2>2. \/ stated = {} /\ u = -1
        \/ u \in stated /\ \A v \in stated : u <= v
    BY DEF ConfidenceSoFar, Least, Weighed
  <2> HIDE DEF stated
  <2>3. CASE stated = {}
    <3>1. location_band = "unknown"
      BY <2>2, <2>3 DEF location_band
    <3> QED
      BY <2>3, <3>1 DEF LocationBandIsPublished, stated
  <2>4. CASE stated # {}
    <3>1. u \in stated /\ u \in Nat /\ \A v \in stated : v \in Nat /\ u <= v
      BY <2>1, <2>2, <2>4
    <3>2. /\ location_band # "unknown"
          /\ location_band = "high" <=> u <= 5
          /\ location_band = "unusable" <=> u > 100
      BY <3>1 DEF location_band
    <3>3. u <= 5 <=> \E v \in stated : v <= 5
      BY <3>1
    <3>4. u > 100 <=> \A v \in stated : v > 100
      BY <3>1
    <3> QED
      BY <2>4, <3>2, <3>3, <3>4 DEF LocationBandIsPublished, stated
  <2> QED
    BY <2>3, <2>4
<1> QED
  BY <1>1, Inductive, PTL

\* analysis.cpp:290: the representative position is an instrumental one, failing
\* that the first, however many constituents there are.
THEOREM PositionRight == Spec => []PositionIsInstrumental
<1>1. IInv => PositionIsInstrumental
  <2> SUFFICES ASSUME IInv, loop = "done" PROVE PositionIsInstrumental
    BY DEF PositionIsInstrumental
  <2>1. BestOf(e, best, DOMAIN e)
    BY DEF IInv, PositionSoFar, Looked
  <2>2. PlacedIn(e, DOMAIN e) = Placed /\ SeismicIn(e, DOMAIN e) = Seismic
    BY DEF PlacedIn, SeismicIn, Placed, Seismic
  <2>3. CASE Seismic = {}
    BY <2>1, <2>2, <2>3 DEF BestOf, PositionIsInstrumental
  <2>4. CASE Seismic # {}
    <3>1. best \in Seismic /\ Placed # {}
      BY <2>1, <2>2, <2>4 DEF BestOf, Seismic
    <3> QED
      BY <2>4, <3>1 DEF PositionIsInstrumental
  <2> QED
    BY <2>3, <2>4
<1> QED
  BY <1>1, Inductive, PTL
=============================================================================
