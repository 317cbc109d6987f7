------------------------------- MODULE Assess --------------------------------
(***************************************************************************)
(* What kst::analysis::correlate makes of one group of associated            *)
(* observations: the representative position, the verdict, the diurnal       *)
(* override and the confidence factors, each a loop over the constituents    *)
(* in canonical order; and the bands a report derives from the factors.      *)
(*                                                                         *)
(* An observation is reduced to what these loops read of it.  Depths and     *)
(* uncertainties are whole kilometres; the event types are grouped by the    *)
(* verdict `discriminate` attaches to them.                                  *)
(***************************************************************************)
EXTENDS Integers, Sequences, FiniteSets

CONSTANTS
    Universe,   \* the observations adapters may produce
    MaxLen,     \* bound on the constituents of an event
    None        \* an optional the source did not publish

Class  == {"instrumental", "government", "reporting"}
Type   == {"industrial", "explosion", "earthquake", "other"}
Format == {"quakeml", "json", "csv"}    \* which parse function read it
Place  == {"none", "plain", "working-hours"}
    \* no coordinates; or a cell without, or with, the diurnal signature

ASSUME UniverseAssumption ==
    /\ MaxLen \in Nat \ {0}
    /\ None \notin Int
    /\ \A u \in Universe :
         /\ DOMAIN u = {"source", "class", "type", "format", "depth", "declared",
                        "uncertainty", "place", "suspected"}
         /\ u.class \in Class
         /\ u.type \in Type
         /\ u.format \in Format
         /\ u.depth \in Int \cup {None}
         /\ u.declared \in {"nothing", "assigned", "solved"}
         /\ u.uncertainty \in Nat \cup {None}
         /\ u.place \in Place
         /\ u.suspected \in BOOLEAN

\* same_physical_event rejects a pair without coordinates, so only an event of
\* a single observation can lack them.
Positioned(s) == Len(s) > 1 => \A n \in DOMAIN s : s[n].place # "none"

VARIABLES
    e,              \* e.constituents, in canonical order
    loop,           \* which loop runs
    k,              \* its index
    best,           \* index of the representative position's owner; 0: nullptr
    classification,
    applied,        \* depth_discriminant_applied
    explained,      \* the constituents whose reasons have been appended
    confidence

vars == <<e, loop, k, best, classification, applied, explained, confidence>>

Verdicts == {"natural-earthquake", "surface-explosion", "industrial-blast",
             "indeterminate"}
Loops == {"position", "verdict", "diurnal", "confidence", "done"}

TypeOK ==
    /\ Len(e) \in 1..MaxLen
    /\ e \in [1..Len(e) -> Universe]
    /\ Positioned(e)
    /\ loop \in Loops
    /\ k \in DOMAIN e
    /\ best \in 0..Len(e)
    /\ classification \in Verdicts
    /\ applied \in BOOLEAN
    /\ explained \subseteq DOMAIN e
    /\ confidence \in
         [sources : SUBSET {u.source : u \in Universe},   \* distinct_sources
          instrumental : 0..Len(e), reporting : 0..Len(e), government : BOOLEAN,
          disconfirmed : BOOLEAN, suspected : BOOLEAN,
          uncertainty : Nat \cup {-1}]

Init ==
    /\ \E n \in 1..MaxLen : e \in [1..n -> Universe]
    /\ Positioned(e)
    /\ loop = "position"
    /\ k = 1
    /\ best = 0
    /\ classification = "indeterminate"
    /\ applied = FALSE
    /\ explained = {}
    /\ confidence = [sources |-> {}, instrumental |-> 0, reporting |-> 0,
                     government |-> FALSE, disconfirmed |-> FALSE,
                     suspected |-> FALSE, uncertainty |-> -1]

-----------------------------------------------------------------------------
(* discriminate(o)                                                          *)

SilenceIsPermission(o) ==
    IF o.format = "quakeml" THEN o.declared = "assigned" ELSE o.depth \in {0, 10, 33, 35}

\* looks_like_fixed_depth, where the format has no word for how a depth was
\* found; QuakeML's depthType otherwise, its absence counting as fixed.
DepthIsFixed(o) ==
    IF o.format = "quakeml" THEN o.declared # "solved" ELSE o.depth \in {0, 10, 33, 35}

DepthApplies(o) ==
    /\ o.type \notin {"industrial", "explosion"}
    /\ o.depth # None
    /\ ~DepthIsFixed(o)

Verdict(o) ==
    CASE o.type = "industrial" -> "industrial-blast"
      [] o.type = "explosion"  -> "surface-explosion"
      [] DepthApplies(o) /\ o.depth <= 1 -> "surface-explosion"
      [] DepthApplies(o) /\ o.depth >= 5 -> "natural-earthquake"
      [] OTHER -> "indeterminate"

-----------------------------------------------------------------------------
obs == e[k]

Advance(next) ==
    IF k < Len(e) THEN /\ k' = k + 1
                       /\ UNCHANGED loop
                  ELSE /\ k' = 1
                       /\ loop' = next

BetterThanReporting == best = 0 \/ e[best].class # "instrumental"

\* Only the class is compared: the stated uncertainty is not read.
Better == best = 0 \/ (obs.class = "instrumental" /\ e[best].class # "instrumental")

Position ==
    /\ loop = "position"
    /\ best' = IF obs.place # "none" /\ Better THEN k ELSE best
    /\ Advance("verdict")
    /\ UNCHANGED <<e, classification, applied, explained, confidence>>

AdoptsEvery == TRUE

\* A definite verdict is taken over whatever an earlier constituent gave; an
\* indeterminate one only while there is neither a verdict nor a reason.
Adopts ==
    \/ Verdict(obs) # "indeterminate"
    \/ classification = "indeterminate" /\ explained = {}

Discriminate ==
    /\ loop = "verdict"
    /\ classification' = IF Adopts THEN Verdict(obs) ELSE classification
    /\ applied' = (applied \/ (Adopts /\ DepthApplies(obs)))
    /\ explained' = explained \cup {k}
    /\ Advance("diurnal")
    /\ UNCHANGED <<e, best, confidence>>

Override == obs.place = "working-hours"

\* REQ-5.12's override; the loop breaks at the first cell that has a signature.
Diurnal ==
    /\ loop = "diurnal"
    /\ classification = "surface-explosion"
    /\ IF Override THEN /\ classification' = "industrial-blast"
                        /\ loop' = "confidence"
                        /\ k' = 1
                   ELSE /\ Advance("confidence")
                        /\ UNCHANGED classification
    /\ UNCHANGED <<e, best, applied, explained, confidence>>

SkipDiurnal ==
    /\ loop = "diurnal"
    /\ classification # "surface-explosion"
    /\ loop' = "confidence"
    /\ UNCHANGED <<e, k, best, classification, applied, explained, confidence>>

Tally(n, class) == IF obs.class = class THEN n + 1 ELSE n

LatestUncertainty(u) == IF obs.uncertainty = None THEN u ELSE obs.uncertainty
Tightest(u) ==
    IF obs.uncertainty # None /\ (u < 0 \/ obs.uncertainty < u) THEN obs.uncertainty ELSE u

DisconfirmsByOneself(d) ==
    d \/ (obs.type = "earthquake" /\ Verdict(obs) = "surface-explosion")
Disconfirms(d) ==
    d \/ (obs.type = "earthquake" /\ classification = "surface-explosion")

Weigh ==
    /\ loop = "confidence"
    /\ confidence' =
         [sources |-> confidence.sources \cup {obs.source},
          instrumental |-> Tally(confidence.instrumental, "instrumental"),
          reporting |-> Tally(confidence.reporting, "reporting"),
          government |-> confidence.government \/ obs.class = "government",
          disconfirmed |-> Disconfirms(confidence.disconfirmed),
          suspected |-> confidence.suspected \/ obs.suspected,
          uncertainty |-> Tightest(confidence.uncertainty)]
    /\ Advance("done")
    /\ UNCHANGED <<e, best, classification, applied, explained>>

Next == Position \/ Discriminate \/ Diurnal \/ SkipDiurnal \/ Weigh

Spec == Init /\ [][Next]_vars

-----------------------------------------------------------------------------
(* The bands.                                                               *)

independent_sources == Cardinality(confidence.sources)

occurrence_band ==
    LET n == confidence.instrumental
        doubted == confidence.disconfirmed /\ independent_sources <= 1
        strong == n >= 2 \/ (n = 1 /\ independent_sources >= 2)
        some == n = 1 \/ confidence.government \/ independent_sources >= 3
    IN  CASE ~doubted /\ strong -> "high"
          [] ~doubted /\ ~strong /\ some -> "moderate"
          [] OTHER -> "low"

location_band ==
    LET u == confidence.uncertainty
    IN  CASE u < 0 -> "unknown"
          [] 0 <= u /\ u <= 5 -> "high"
          [] 5 < u /\ u <= 30 -> "moderate"
          [] 30 < u /\ u <= 100 -> "low"
          [] u > 100 -> "unusable"

characterisation_band ==
    IF /\ ~confidence.disconfirmed
       /\ ~confidence.suspected
       /\ confidence.instrumental >= 1
       /\ independent_sources >= 2
      THEN "moderate"
      ELSE "low"

-----------------------------------------------------------------------------
(* Properties                                                               *)

Given(S) == {Verdict(e[n]) : n \in {m \in DOMAIN e : e[m].class \in S}}

\* analysis.cpp:309, "a definite verdict from any constituent beats
\* indeterminate", and nothing but a constituent or the diurnal rule decides:
\* the order of the constituents never loses a verdict or invents one.
DefiniteVerdictKept ==
    loop \in {"confidence", "done"} =>
        /\ classification = "indeterminate" <=> Given(Class) \subseteq {"indeterminate"}
        /\ \/ classification \in Given(Class)
           \/ classification = "industrial-blast" /\ "surface-explosion" \in Given(Class)

\* REQ-5.12 and REQ-5.2: an event is called a surface explosion only on a
\* source's word or on a shallow depth that is evidence, whose use is declared:
\* one that QuakeML says was solved (source.cpp:279, "silence is treated as
\* unknown provenance, not as permission"), or, where the format has no word for
\* it, no default; and never when any of its positions lies in a cell with the
\* working-hours signature.
SurfaceIsEarned ==
    loop = "done" /\ classification = "surface-explosion" =>
        /\ \A n \in DOMAIN e : e[n].place # "working-hours"
        /\ \E n \in DOMAIN e :
              \/ e[n].type = "explosion"
              \/ /\ applied
                 /\ e[n].depth # None
                 /\ e[n].depth <= 1
                 /\ IF e[n].format = "quakeml" THEN e[n].declared = "solved"
                                               ELSE e[n].depth # 0

\* REQ-7.6: a surface verdict that any constituent, before or after the one
\* that gave it, contradicts by calling the event an earthquake is never
\* characterised better than "low", nor -- from a single source -- said to have
\* occurred with more than "low" confidence.
DoubtIsReflected ==
    loop = "done" /\ classification = "surface-explosion"
      /\ (\E n \in DOMAIN e : e[n].type = "earthquake") =>
        /\ characterisation_band = "low"
        /\ (\A n \in DOMAIN e : e[n].source = e[1].source) => occurrence_band = "low"

\* REQ-7.8: the location band is that of the smallest uncertainty any
\* constituent publishes, and "unknown" exactly when none publishes one.
LocationBandIsPublished ==
    loop = "done" =>
        LET stated == {e[n].uncertainty : n \in DOMAIN e} \ {None}
        IN  /\ location_band = "unknown" <=> stated = {}
            /\ location_band = "high" <=> \E u \in stated : u <= 5
            /\ location_band = "unusable" <=> stated # {} /\ \A u \in stated : u > 100

\* analysis.cpp:290, "prefer the instrumental observation [...] otherwise the
\* first with a position": in whatever order the constituents come, the position
\* is that of an instrumental one if one has a position, failing those of the
\* first that has, and there is none only when no constituent has one.  Which of
\* several instrumental ones, is not said here.
Placed == {n \in DOMAIN e : e[n].place # "none"}
Seismic == {n \in Placed : e[n].class = "instrumental"}

PositionIsInstrumental ==
    loop = "done" =>
        /\ Seismic # {} => best \in Seismic
        /\ Seismic = {} /\ Placed # {} => best \in Placed /\ \A n \in Placed : best <= n
        /\ Placed = {} => best = 0
=============================================================================
