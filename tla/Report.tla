------------------------------- MODULE Report -------------------------------
(***************************************************************************)
(* The commands that read: main's options, load_observations row by row, the *)
(* coverage notes, what is printed and the two files.  They run while        *)
(* `kst ingest` writes; of that they only need what Provenance promises (and *)
(* Ingest keeps), so the store here is Provenance's.  Correlation groups the *)
(* rows and loses none (Correlate!GroupsPartition): a report is its rows.    *)
(***************************************************************************)
EXTENDS Provenance, Integers, Sequences

CONSTANTS
    Path,          \* paths of local files
    Options,       \* the options commands are given; the order and the repeats of
                   \*   --file and --seed are left out
    TimeOf(_, _),  \* TimeOf(b, id): the origin time body b gives id
    Rank(_),       \* the order of the observation_uid of keys
    MaxCommands    \* bound on the commands run

ASSUME ReportAssumption ==
    /\ Options \subseteq [offline : BOOLEAN, firms : BOOLEAN,
                          files : SUBSET Path, seeds : SUBSET Path]
    /\ MaxCommands \in Nat
    /\ None \notin Body

VARIABLES
    pc,         \* "idle", "open", "prepare", "rows", "loaded", "files", "text", "done"
    command,    \* "query", "analyse", "replay", "report"
    options,    \* o
    snapshot,   \* the catalog the SELECT sees, from its first step on
    rows,       \* the observations loaded: [key, body]
    failed,     \* history: a statement or a write of this command failed
    printed,    \* the events, the coverage notes and the attributions
    geojson, report,  \* what the files hold, in the same form
    commands

reader == <<pc, command, options, snapshot, rows, failed, printed, geojson, report, commands>>
all == <<vars, reader>>

Nothing == [rows |-> <<>>, notes |-> {}, attributions |-> {}]

ReportInit ==
    /\ Init
    /\ pc = "idle"
    /\ command = "query"
    /\ options \in Options
    /\ snapshot = catalog
    /\ rows = <<>>
    /\ failed = FALSE
    /\ printed = Nothing
    /\ geojson = Nothing
    /\ report = Nothing
    /\ commands = 0

Services(o) == IF o.offline THEN {}
               ELSE {"isc", "usgs"} \cup (IF o.firms THEN {"firms"} ELSE {})

build_adapters(o) ==
    [id : Services(o), path : {""}]
    \cup [id : {"file"}, path : o.files]
    \cup [id : {"seed"}, path : o.seeds]

\* A note goes by the source id; a file is attributed by its path, all seeds alike.
coverage_notes(adapters) == {a.id : a \in adapters}
Attribution(a) == IF a.id = "file" THEN <<a.id, a.path>> ELSE <<a.id>>

\* replay is analyse without the network.
Command(c, o) ==
    /\ pc \in {"idle", "done"} /\ commands < MaxCommands
    /\ commands' = commands + 1
    /\ command' = c
    /\ options' = IF c = "replay" THEN [o EXCEPT !.offline = TRUE] ELSE o
    /\ pc' = "open"
    /\ rows' = <<>>
    /\ failed' = FALSE
    /\ printed' = Nothing
    /\ UNCHANGED <<vars, snapshot, geojson, report>>

Goto(from, to) == pc = from /\ pc' = to

Open ==
    /\ Goto("open", "prepare")
    /\ UNCHANGED <<vars, command, options, snapshot, rows, failed, printed, geojson,
                   report, commands>>

\* The command ends: the database cannot be opened, or create_directories throws.
Abort ==
    /\ pc \in {"open", "files"}
    /\ pc' = "idle"
    /\ UNCHANGED <<vars, command, options, snapshot, rows, failed, printed, geojson,
                   report, commands>>

\* load_observations returns what it has, and no error, when prepare fails or a
\* step does.
LoadFails ==
    /\ pc \in {"prepare", "rows"}
    /\ pc' = "loaded"
    /\ failed' = TRUE
    /\ UNCHANGED <<vars, command, options, snapshot, rows, printed, geojson, report, commands>>

\* The statement's read transaction begins with its first step.
Select ==
    /\ Goto("prepare", "rows")
    /\ snapshot' = catalog
    /\ UNCHANGED <<vars, command, options, rows, failed, printed, geojson, report, commands>>

\* ORDER BY origin_time, observation_uid
Earlier(j, k, table) ==
    LET t(key) == TimeOf(table[key], key[2])
    IN  t(j) < t(k) \/ (t(j) = t(k) /\ Rank(j) < Rank(k))

Loaded == {rows[n].key : n \in DOMAIN rows}
Left(table) == {k \in DOMAIN table : table[k] # None} \ Loaded

RowFromNewSelect(k) ==
    /\ pc = "rows"
    /\ k \in Left(catalog)
    /\ \A j \in Left(catalog) \ {k} : Earlier(k, j, catalog)
    /\ rows' = Append(rows, [key |-> k, body |-> catalog[k]])
    /\ UNCHANGED <<vars, pc, command, options, snapshot, failed, printed, geojson,
                   report, commands>>

Row(k) ==
    /\ pc = "rows"
    /\ k \in Left(snapshot)
    /\ \A j \in Left(snapshot) \ {k} : Earlier(k, j, snapshot)
    /\ rows' = Append(rows, [key |-> k, body |-> snapshot[k]])
    /\ UNCHANGED <<vars, pc, command, options, snapshot, failed, printed, geojson,
                   report, commands>>

RowsEnd ==
    /\ Goto("rows", "loaded")
    /\ Left(snapshot) = {}
    /\ UNCHANGED <<vars, command, options, snapshot, rows, failed, printed, geojson,
                   report, commands>>

\* cmd_query prints the rows alone; cmd_report adds the notes and the attributions
\* of this command's adapters, and may write.
Show ==
    /\ pc = "loaded"
    /\ LET adapters == IF command = "query" THEN {} ELSE build_adapters(options)
       IN  printed' = [rows |-> rows, notes |-> coverage_notes(adapters),
                       attributions |-> {Attribution(a) : a \in adapters}]
    /\ pc' = IF command = "report" THEN "files" ELSE "done"
    /\ UNCHANGED <<vars, command, options, snapshot, rows, failed, geojson, report, commands>>

\* to_geojson is given the notes, not the attributions.  A stream that cannot be
\* opened or written is not noticed.
WriteGeoJson ==
    /\ Goto("files", "text")
    /\ \/ /\ geojson' = [rows |-> printed.rows, notes |-> printed.notes, attributions |-> {}]
          /\ UNCHANGED failed
       \/ failed' = TRUE /\ geojson' \in {geojson, Nothing}
    /\ UNCHANGED <<vars, command, options, snapshot, rows, printed, report, commands>>

WriteReport ==
    /\ Goto("text", "done")
    /\ \/ report' = printed /\ UNCHANGED failed
       \/ failed' = TRUE /\ report' \in {report, Nothing}
    /\ UNCHANGED <<vars, command, options, snapshot, rows, printed, geojson, commands>>

\* The process is killed.
Kill ==
    /\ pc \notin {"idle", "done"}
    /\ pc' = "idle"
    /\ UNCHANGED <<vars, command, options, snapshot, rows, failed, printed, geojson,
                   report, commands>>

ReportNext ==
    \/ Next /\ UNCHANGED reader
    \/ \E c \in {"query", "analyse", "replay", "report"}, o \in Options : Command(c, o)
    \/ Open
    \/ Abort
    \/ LoadFails
    \/ Select
    \/ \E k \in Source \X Id : Row(k)
    \/ RowsEnd
    \/ Show
    \/ WriteGeoJson
    \/ WriteReport
    \/ Kill

ReportSpec == ReportInit /\ [][ReportNext]_all
-----------------------------------------------------------------------------
Stored == {k \in DOMAIN snapshot : snapshot[k] # None}

\* Whatever ingests do meanwhile, a command prints the table of one instant: each
\* observation at most once, with the value it had then, in the canonical order,
\* and all of them unless something it ignores has failed; every value printed
\* has its evidence in the store; and a report that nothing disturbed leaves two
\* files that tell the events it printed, with the limitations it printed, and a
\* text that is what it printed (REQ-6.3, REQ-8.4, REQ-8.6; README.md:23).
ReportIsOneInstant ==
    pc \in {"files", "text", "done"} =>
        LET told == printed.rows
        IN  /\ \A m, n \in DOMAIN told :
                  m < n => Earlier(told[m].key, told[n].key, snapshot)
            /\ \A n \in DOMAIN told :
                  /\ told[n].key \in Stored /\ told[n].body = snapshot[told[n].key]
                  /\ <<told[n].key[1], told[n].body>> \in evidence
            /\ ~failed => {told[n].key : n \in DOMAIN told} = Stored
            /\ pc = "done" /\ command = "report" /\ ~failed =>
                  /\ geojson.rows = told /\ geojson.notes = printed.notes
                  /\ report = printed
=============================================================================
