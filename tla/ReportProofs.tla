---------------------------- MODULE ReportProofs ----------------------------
(***************************************************************************)
(* What a report tells is the table of one instant, whatever ingests do      *)
(* meanwhile and wherever a statement fails or the command is killed, for    *)
(* any sources, ids, bodies, options and number of commands.                *)
(***************************************************************************)
EXTENDS Report, TLAPS

Key == Source \X Id
RowSet == [key : Key, body : Body]
Told == {"files", "text", "done"}

Types ==
    /\ catalog \in [Key -> Body \cup {None}]
    /\ snapshot \in [Key -> Body \cup {None}]
    /\ rows \in Seq(RowSet)

\* A value has its evidence, in the table and in what a SELECT saw of it.
Backed ==
    \A k \in Key :
        /\ catalog[k] # None => <<k[1], catalog[k]>> \in evidence
        /\ snapshot[k] # None => <<k[1], snapshot[k]>> \in evidence

FromSnapshot ==
    \A n \in DOMAIN rows : rows[n].key \in Stored /\ rows[n].body = snapshot[rows[n].key]

InOrder ==
    \A m, n \in DOMAIN rows : m < n => Earlier(rows[m].key, rows[n].key, snapshot)

\* What is still to come is later than what has come.
RestLater ==
    \A m \in DOMAIN rows : \A k \in Left(snapshot) : Earlier(rows[m].key, k, snapshot)

Loads ==
    /\ pc \in {"open", "prepare"} => rows = <<>>
    /\ pc \in {"rows", "loaded"} \cup Told => FromSnapshot /\ InOrder
    /\ pc = "rows" => RestLater
    /\ pc \in {"loaded"} \cup Told /\ ~failed => Loaded = Stored

\* The map tells what was printed, but for the attributions.
Mapped == geojson.rows = printed.rows /\ geojson.notes = printed.notes

Prints ==
    /\ pc \in Told => printed.rows = rows
    /\ pc = "text" /\ ~failed => Mapped
    /\ pc = "done" /\ command = "report" /\ ~failed => Mapped /\ report = printed

IInv == Types /\ Backed /\ Loads /\ Prints
-----------------------------------------------------------------------------
LEMMA InitHolds == ReportInit => IInv
<1> SUFFICES ASSUME ReportInit PROVE IInv
    OBVIOUS
<1> USE DEF ReportInit, Init
<1>1. Types
    BY DEF Types, Key
<1>2. Backed
    BY DEF Backed, Key
<1>3. Loads /\ Prints
    BY DEF Loads, Prints, Told
<1>4. QED
    BY <1>1, <1>2, <1>3 DEF IInv

\* The store only gains evidence, and an entry only takes a value it has.
LEMMA StoreStep == IInv /\ Next /\ UNCHANGED reader => IInv'
<1> SUFFICES ASSUME IInv, Next, UNCHANGED reader PROVE IInv'
    OBVIOUS
<1> USE DEF IInv, reader
<1>1. PICK b \in Body : \/ Archive(b)
                        \/ \E s \in Source : Record(s, b)
                        \/ \E s \in Source, id \in Id : Adopt(s, id, b)
    BY DEF Next
<1>2. evidence \subseteq evidence'
    BY <1>1 DEF Archive, Record, Adopt
<1>3. Types' /\ Backed'
  <2>1. CASE catalog' = catalog
    BY <1>2, <2>1 DEF Types, Backed, Key
  <2>2. ASSUME NEW s \in Source, NEW id \in Id, Adopt(s, id, b) PROVE Types' /\ Backed'
    <3>1. /\ <<s, b>> \in evidence /\ evidence' = evidence /\ <<s, id>> \in Key
          /\ catalog' = [catalog EXCEPT ![<<s, id>>] = b]
          /\ snapshot' = snapshot /\ rows' = rows
      BY <2>2 DEF Adopt, Key
    <3>2. Types'
      BY <1>1, <3>1 DEF Types
    <3>3. ASSUME NEW k \in Key
          PROVE  catalog'[k] = IF k = <<s, id>> THEN b ELSE catalog[k]
      BY <3>1 DEF Types
    <3>4. ASSUME NEW k \in Key, catalog'[k] # None
          PROVE  <<k[1], catalog'[k]>> \in evidence
      <4>1. CASE k = <<s, id>>
        BY <3>1, <3>3, <4>1
      <4>2. CASE k # <<s, id>>
        BY <3>3, <3>4, <4>2 DEF Backed
      <4>3. QED
        BY <4>1, <4>2
    <3>5. Backed'
      BY <3>1, <3>4 DEF Backed
    <3>6. QED
      BY <3>2, <3>5
  <2>3. QED
    BY <1>1, <2>1, <2>2 DEF Archive, Record
<1>4. Loads' /\ Prints'
    BY DEF Loads, Prints, Mapped, FromSnapshot, InOrder, RestLater, Loaded, Left, Earlier, Stored
<1>5. QED
    BY <1>3, <1>4

\* The steps before the rows, and those that end a command without printing.
LEMMA EarlySteps ==
    ASSUME IInv,
           \/ \E c \in {"query", "analyse", "replay", "report"}, o \in Options : Command(c, o)
           \/ Open \/ Abort \/ Kill \/ Select
    PROVE  IInv'
<1> USE DEF IInv, vars
<1>1. ASSUME NEW c, NEW o, Command(c, o) PROVE IInv'
    BY <1>1 DEF Command, Types, Backed, Loads, Prints, Mapped, Told
<1>2. CASE Open
    BY <1>2 DEF Open, Goto, Types, Backed, Loads, Prints, Mapped, Told
<1>3. CASE Abort \/ Kill
    BY <1>3 DEF Abort, Kill, Types, Backed, Loads, Prints, Mapped, Told
<1>4. CASE Select
  <2>1. Types' /\ Backed' /\ Prints' /\ pc' = "rows" /\ rows' = <<>>
    BY <1>4 DEF Select, Goto, Types, Backed, Loads, Prints, Mapped, Told
  <2>2. Loads'
    BY <2>1 DEF Loads, Told, FromSnapshot, InOrder, RestLater
  <2>3. QED
    BY <2>1, <2>2
<1>5. QED
    BY <1>1, <1>2, <1>3, <1>4

\* A row: it is of the snapshot, it follows all before it, and comes before the rest.
LEMMA RowStep == ASSUME IInv, NEW k \in Key, Row(k) PROVE IInv'
<1> USE DEF IInv, vars
<1> DEFINE r == [key |-> k, body |-> snapshot[k]]
<1>1. /\ pc = "rows" /\ k \in Left(snapshot) /\ rows' = Append(rows, r)
      /\ \A j \in Left(snapshot) \ {k} : Earlier(k, j, snapshot)
      /\ UNCHANGED <<vars, pc, command, options, snapshot, failed, printed, geojson,
                     report, commands>>
    BY DEF Row
<1>2. k \in Stored /\ r \in RowSet
    BY <1>1 DEF Left, Stored, Types, RowSet, Key
<1>3. /\ rows' \in Seq(RowSet)
      /\ DOMAIN rows' = 1..(Len(rows) + 1) /\ DOMAIN rows = 1..Len(rows)
      /\ rows'[Len(rows) + 1] = r /\ \A n \in DOMAIN rows : rows'[n] = rows[n]
      /\ Len(rows) \in Nat
    BY <1>1, <1>2 DEF Types
<1>4. Types' /\ Backed' /\ Prints'
    BY <1>1, <1>3 DEF Types, Backed, Prints, Mapped, Told
<1>5. FromSnapshot /\ InOrder /\ RestLater
    BY <1>1 DEF Loads
<1>6. FromSnapshot'
    BY <1>1, <1>2, <1>3, <1>5 DEF FromSnapshot, Stored
<1>7. InOrder'
  <2> SUFFICES ASSUME NEW m \in DOMAIN rows', NEW n \in DOMAIN rows', m < n
               PROVE  Earlier(rows'[m].key, rows'[n].key, snapshot)
    BY <1>1 DEF InOrder, Earlier
  <2>1. m \in DOMAIN rows
    BY <1>3
  <2>2. CASE n = Len(rows) + 1
    BY <1>1, <1>3, <1>5, <2>1, <2>2 DEF RestLater
  <2>3. CASE n \in DOMAIN rows
    BY <1>3, <1>5, <2>1, <2>3 DEF InOrder
  <2>4. QED
    BY <1>3, <2>2, <2>3
<1>8. Left(snapshot)' = Left(snapshot) \ {k}
  <2>1. Loaded' = Loaded \cup {k}
    BY <1>1, <1>3 DEF Loaded
  <2>2. QED
    BY <1>1, <2>1 DEF Left
<1>9. RestLater'
  <2> SUFFICES ASSUME NEW m \in DOMAIN rows', NEW j \in Left(snapshot) \ {k}
               PROVE  Earlier(rows'[m].key, j, snapshot)
    BY <1>1, <1>8 DEF RestLater, Earlier
  <2>1. CASE m = Len(rows) + 1
    BY <1>1, <1>3, <2>1
  <2>2. CASE m \in DOMAIN rows
    BY <1>3, <1>5, <2>2 DEF RestLater
  <2>3. QED
    BY <1>3, <2>1, <2>2
<1>10. QED
    BY <1>1, <1>4, <1>6, <1>7, <1>9 DEF Loads, Told

LEMMA LoadEnds == IInv /\ (RowsEnd \/ LoadFails) => IInv'
<1> SUFFICES ASSUME IInv, RowsEnd \/ LoadFails PROVE IInv'
    OBVIOUS
<1> USE DEF IInv, vars
<1>1. CASE RowsEnd
  <2>1. /\ pc = "rows" /\ pc' = "loaded" /\ Left(snapshot) = {}
        /\ UNCHANGED <<vars, command, options, snapshot, rows, failed, printed, geojson,
                       report, commands>>
    BY <1>1 DEF RowsEnd, Goto
  <2>2. FromSnapshot /\ InOrder
    BY <2>1 DEF Loads
  <2>3. Loaded = Stored
    BY <2>1, <2>2 DEF Left, Loaded, Stored, FromSnapshot
  <2>4. Loads'
    BY <2>1, <2>2, <2>3 DEF Loads, Told, FromSnapshot, InOrder, Loaded, Stored, Earlier
  <2>5. QED
    BY <2>1, <2>4 DEF Types, Backed, Prints, Mapped, Told
<1>2. CASE LoadFails
  <2>1. /\ pc \in {"prepare", "rows"} /\ pc' = "loaded" /\ failed' = TRUE
        /\ UNCHANGED <<vars, command, options, snapshot, rows, printed, geojson,
                       report, commands>>
    BY <1>2 DEF LoadFails
  <2>2. FromSnapshot /\ InOrder
    BY <2>1 DEF Loads, FromSnapshot, InOrder
  <2>3. Loads'
    BY <2>1, <2>2 DEF Loads, Told, FromSnapshot, InOrder, Stored, Earlier
  <2>4. QED
    BY <2>1, <2>3 DEF Types, Backed, Prints, Mapped, Told
<1>3. QED
    BY <1>1, <1>2

LEMMA OutputSteps == IInv /\ (Show \/ WriteGeoJson \/ WriteReport) => IInv'
<1> SUFFICES ASSUME IInv, Show \/ WriteGeoJson \/ WriteReport PROVE IInv'
    OBVIOUS
<1> USE DEF IInv, vars
<1>1. /\ UNCHANGED <<vars, command, options, snapshot, rows, commands>>
      /\ pc \in {"loaded", "files", "text"} /\ pc' \in Told
      /\ failed' = failed \/ failed' = TRUE
    BY DEF Show, WriteGeoJson, WriteReport, Goto, Told
<1>2. Types' /\ Backed'
    BY <1>1 DEF Types, Backed
<1>3. Loads'
    BY <1>1 DEF Loads, Told, FromSnapshot, InOrder, Loaded, Stored, Earlier
<1>4. Prints'
  <2>1. CASE Show
    BY <2>1 DEF Show, Prints, Mapped, Told
  <2>2. CASE WriteGeoJson
    BY <1>1, <2>2 DEF WriteGeoJson, Goto, Prints, Mapped, Told
  <2>3. CASE WriteReport
    BY <2>3 DEF WriteReport, Goto, Prints, Mapped, Told
  <2>4. QED
    BY <2>1, <2>2, <2>3
<1>5. QED
    BY <1>2, <1>3, <1>4

\* Every step of a command or of an ingest preserves the invariant.
THEOREM Inductive == ReportSpec => []IInv
<1>1. IInv /\ [ReportNext]_all => IInv'
  <2> SUFFICES ASSUME IInv, [ReportNext]_all PROVE IInv'
    OBVIOUS
  <2>1. CASE UNCHANGED all
    BY <2>1 DEF all, vars, reader, IInv, Types, Backed, Loads, Prints, Mapped, FromSnapshot,
                InOrder, RestLater, Loaded, Left, Earlier, Stored
  <2>2. CASE \E k \in Source \X Id : Row(k)
    BY <2>2, RowStep DEF Key
  <2>3. QED
    BY <2>1, <2>2, StoreStep, EarlySteps, LoadEnds, OutputSteps DEF ReportNext
<1>2. QED
    BY InitHolds, <1>1, PTL DEF ReportSpec

\* A command prints the table of one instant, in order and with evidence, whole
\* unless something has failed, and its files tell the same events.
THEOREM OneInstant == ReportSpec => []ReportIsOneInstant
<1>1. IInv => ReportIsOneInstant
  <2> SUFFICES ASSUME IInv, pc \in Told PROVE ReportIsOneInstant
    BY DEF ReportIsOneInstant, Told
  <2>1. printed.rows = rows /\ FromSnapshot /\ InOrder
    BY DEF IInv, Loads, Prints
  <2>2. \A n \in DOMAIN rows : <<rows[n].key[1], rows[n].body>> \in evidence
    BY <2>1 DEF IInv, Backed, FromSnapshot, Stored, Types
  <2>3. ~failed => {rows[n].key : n \in DOMAIN rows} = Stored
    BY DEF IInv, Loads, Loaded
  <2>4. pc = "done" /\ command = "report" /\ ~failed =>
          geojson.rows = rows /\ geojson.notes = printed.notes /\ report = printed
    BY <2>1 DEF IInv, Prints, Mapped
  <2>5. QED
    BY <2>1, <2>2, <2>3, <2>4 DEF ReportIsOneInstant, FromSnapshot, InOrder
<1>2. QED
    BY Inductive, <1>1, PTL
=============================================================================
