# Kinetic Strike Tracker: specification and proofs

TLA+ models of the program's own logic, TLC configurations that check them on
small instances, and TLAPS proofs of their most important invariants. Paths are
given as in `PROJECT.json`: `src/` is the root of the repository, so the C++
files are under `src/src/`. Below they are called by their file name.

## 1. The system

`kst` is a command line program. `ingest` retrieves from source adapters and
stores into SQLite; `analyse`, `replay`, `report` and `query` read the store,
correlate observations into events and print them. One command is one process
and one thread; several commands may run at once on one database file.

| Part | State it keeps | Operations | Interacts with |
|---|---|---|---|
| Adapters USGS, ISC, FIRMS, file (`source.cpp`) | none; FIRMS caches the NRT boundary per process | `fetch`, `parse` | HTTP or the file system; the three parsers; returns a `Fetch` to the pipeline |
| HTTP transport (`http.cpp`) | none | `get`: one bounded transfer | libcurl |
| Parsers (`json.cpp`, `xml.cpp`, `csv.cpp`) | the position, the depth and the value under construction | `parse` of a bounded document | adapters |
| Observation model (`observation.cpp`) | none | uid, ISO 8601, longitude, distance | adapters, analysis |
| Database (`db.cpp`) | the file: `user_version`, tables, triggers; one connection | `open` (migrates), `prepare`, `step`, `execute` | the pipeline; other processes on the same file |
| Pipeline (`pipeline.cpp`) | a report per run | `ingest`, `load_observations`, `coverage_notes`, output | adapters, database, analysis |
| Analysis (`analysis.cpp`) | none | `diurnal_cells`, `discriminate`, `correlate`, the bands | the pipeline |
| Commands (`main.cpp`) | options | `cmd_ingest`, `cmd_report`, `cmd_query` | all of the above |

What is hard here, and what makes each part correct:

- **Processes on one file.** There is no busy timeout, no lock of the program's
  own and no transaction around an ingest: each statement commits by itself and
  most results are ignored. Correct means: the schema version is true of the
  schema at every instant; a stored value has evidence at every instant; a rerun
  repairs a killed run; what a reading command prints is the table of one instant.
- **Partial failure and kills**, between the script and the stamp of a migration,
  between a body, its retrieval and its observations, in the middle of a walk of
  FIRMS requests, in one adapter of several, in a transfer that breaks or is too long.
- **Order.** Association and verdicts are folded over observations in some order,
  and must not depend on it more than documented.
- **Boundaries.** Days against instants, hours around midnight, eras and leap years, defaults
  that look like measurements, sentinels, limits reached exactly.
- **Foreign text.** Parsers must accept exactly the documents of their grammar within their
  limits, and say of them what they say.

`PROJECT.json` lists these hazards at their lines, with the properties that watch
over each, or why none does.

## 2. The modules

| Module | Models | Notes |
|---|---|---|
| `Correlate` | the union-find of `correlate` (`analysis.cpp` 243-279) | `find` is a small stack machine, so path compression happens when the recursion unwinds, while `groups` is being filled too; the association relation is any relation |
| `Assess` | what `correlate` makes of one group (283-392), `discriminate`, the bands | one action per loop turn |
| `Diurnal` | `diurnal_cells` (139-202) | one action per observation counted, per window tried, per cell judged |
| `Migration` | `Database::open` by several processes of several builds (`db.cpp` 233-283) | one action per SQL statement; a kill or an I/O error anywhere |
| `Ingest` | `pipeline::ingest` (64-157), one action per statement | overlapping runs, kills, failing statements, sources that revise what they publish |
| `Provenance` | the abstract promise about evidence | `Ingest` implements it (`KeepsEvidence`); `Report` is composed with it |
| `FirmsWalk` | `FirmsAdapter::fetch` (388-459), `product_for`, `nrt_earliest` | one action per request |
| `Http` | `http::get` (`http.cpp` 98-173), `write_cb` | one action per event of a transfer |
| `Document` | the state of either recursive-descent parser | the call stack, the depth, the first error kept, the value returned |
| `Json`, `Xml` | `json::parse`, `xml::parse` (`json.cpp`, `xml.cpp`) | one action per token; a behaviour is a document, chosen token by token |
| `Csv` | `csv::parse` (`csv.cpp` 29-112) | one action per character, field end and record end |
| `Utf8`, `Escape` | `append_codepoint_utf8`, `append_utf8_sequence`; `json_escape` (`pipeline.cpp` 22-44) | operators |
| `Retrieval` | one `Adapter::fetch` of each of the four adapters, from the request to the observations | composes `Http`, the parsers and the adapters' loops over records |
| `Calendar` | `days_from_civil`, `civil_from_days`, `parse_iso8601_ms`, `format_iso8601_ms` | the specification walks a reference calendar day by day |
| `Report` | `main`'s options, `load_observations`, `coverage_notes`, `cmd_report`, `cmd_query`, the two files | composed with `Provenance` for what ingests do meanwhile |
| `CorrelateProofs`, `AssessProofs`, `MigrationProofs`, `IngestProofs`, `FirmsProofs`, `ReportProofs`, `DiurnalProofs`, `InputProofs` | | TLAPS; `InputProofs` is about `Calendar`, `Utf8`, `Escape`, `Retrieval` with `Http`, `Csv` and `Xml` |
| `MCAssess`, `MCCalendar`, `MCIngest`, `MCMigration`, `MCReport`, `MCRetrieval` | | values for TLC |

How they compose: `Retrieval` says what one `fetch` may return; `Ingest` takes every such
outcome (an answer, nothing, an error, an exception) for each adapter of a run; `Provenance` is
what `Ingest` promises of the store, and all that `Report` uses of it. `Correlate` takes any
association relation on the rows of a report, `Assess` any group it may form, and `Diurnal`
decides which of an observation's cells have the working-hours signature, a field of the
observations of `Assess`. `FirmsWalk` says which days the FIRMS adapter asks for and what its answers
are merged into; `Retrieval` has the same loop request by request, with its transfers, its errors and
the parse that follows them, and leaves the days out.

State and code, module by module:

- **Correlate.** `parent`, `reasons`, `groups`, `i`, `j` are the code's. `cur` and
  `path` are the call stack of `find`: the arguments of the enclosing calls are
  assigned the root when the innermost returns. `rep` is a history variable, the
  root of each element's tree, used by the proof and read by no action.
- **Migration.** `disk` is the committed file; `staged[p]` what the open
  transaction of `p` would leave; `lock` SQLite's one writer; `found` and `broke` are history
  variables the properties need and no guard reads. `BEGIN` is deferred, so
  it takes no lock: the script's first statement does, and finds the schema as it
  is by then. A script applied twice fails, because it creates what exists. A
  connection that rolls back, closes or dies leaves no trace.
- **Ingest.** `raw_body`, `raw_response`, `observation` are the tables; a body
  stands for its content. `superseded` is history: the values upserts replaced.
  A retrieval's `run` is history too (the code has the column `run_id` and leaves it NULL). A
  statement fails when another run is writing (`Overlap`), or for an I/O reason
  (`MaxFaults`). An adapter answers what its origin publishes at that moment,
  nothing, an error, or an exception.
- **Provenance.** Bodies and retrievals accumulate; a catalog entry takes a value
  only from a body retrieved from that entry's own source that lists it. The
  mapping of `Ingest` is the tables themselves, the retrievals read as a set.
- **Assess.** An observation keeps the fields the loops read. An event is any
  sequence of them in canonical order; when it has several, all have positions,
  since `same_physical_event` rejects a pair without. `explained` stands for
  `discrimination.reasons`, of which the code asks only whether it is empty.
- **FirmsWalk.** A day has `Day` ticks so that a window's ends can fall at different
  times of day. `Serves` and `Body` are the service, external to the code: a
  header, then a row for each day of the request the stream holds.
- **Diurnal.** Local solar time is exact in ticks; `Tick` of them make an hour.
- **Http.** Sizes are in the pieces `write_cb` is handed. Servers redirect, answer any kind of
  status, send, stall or break off; the code's part is the scheme, the limits it sets, the sink and
  its reading of how the transfer ended.
- **Json, Xml.** A token stands for its characters: a string token carries the items between its
  quotes, a number its characters (its range is that of the power of ten of its first digit that is
  not zero, which `std::from_chars` refuses above and below), a tag its name and attributes; a name in
  `LongNames` is longer than `max_name_bytes`. `open` is the stack of
  calls in progress, and `depth` is `depth_`, which `json.cpp` counts up and down. A parser
  that has refused reads no further, and the first error kept is the one returned.
- **Csv.** `scan`, `field`, `row` and `records` are the locals of `read_row` and `parse`. The input
  is a table written down by RFC 4180 in any of its spellings, or any short text.
- **Retrieval.** `stage` says which call is in progress. `requests` counts those of a FIRMS walk, which
  may end after any of them; a failed one leaves `error` and what was merged before is still parsed, and
  a rejected key forgets it. `unseen` is history: something asked for was not had or not read. The tokens and the records of a document
  are chosen when they are read; a record has the members that decide its fate (kept, dropped, or an
  exception). `listed` is history.
- **Calendar.** A text is its fields as written. The clock is a parameter, because the code's day has
  more milliseconds than TLC can multiply by the days of an era.
- **Report.** An adapter of `build_adapters` is its source id and its path; a coverage note goes by the id,
  an attribution by the id or, of a file, by the path. `snapshot` is what the `SELECT` sees from its first step on: SQLite's read transaction.
  `failed` is history: something went wrong that the code does not look at.

## 3. The runs

Passing runs:

| Run | Question | Bounds, and why they are enough |
|---|---|---|
| `Correlate` | is the partition the closure of the relation, whatever it is; is each event explained by its own reasons; does `find` return | all 1024 relations on 5 observations: chains long enough for two-step compression, and for two merged trees each of two or more |
| `MigrationOpen` | is the version true of the schema, does it only go up by one; does the loop end only on a migrated file that was not newer; does retrying succeed although racing openers fail each other | 3 processes, builds of versions 1, 2, 2, one fault (BEGIN's included), one kill: two race on each migration with a third behind |
| `IngestAlone` | does a rerun repair a killed run; is the catalogue the archive replayed; is an adapter that fails among others told, and no other lost; does a run finish | 2 runs one after the other, a service with two revisions and two files under one source id, 1 kill, 1 failing statement |
| `IngestPair` | is there evidence at every instant, is the report true, is `Provenance` implemented | 2 processes, 3 runs that overlap, a service with two revisions, 1 kill |
| `AssessVerdict` | verdicts kept, safeguards and doubts effective, position instrumental | all events of up to 3 of 46 observations that represent each adapter, including depths at the thresholds and, of QuakeML, shallow ones it says were solved, were assigned, or says nothing of |
| `FirmsSafety` | the walk's arithmetic, the streams, the merge | every window on 10 days of 2 half-days, every position of both streams' ends; chunks of 3 days and a guard of 2, so that the third request meets it; any answer may be empty |
| `DiurnalRing` | the scan and the verdict against the observations | 4 observations, so that both of 2 cells can be judged, a clock of 4 hours with a window of 2, so that windows wrap |
| `Calendar` | is the civil arithmetic the Gregorian calendar; is what is written read back; does text order follow time | every day of the years 0-1 and 1800-2210: a whole era of 400 years with its turn and the epoch, the first years, before which the era is negative; first, middle and last instants of a day; offsets across midnight |
| `Retrieval` | does each parser accept exactly its grammar and return what the text says; does a fetch report what happened | JSON nested 2 deep with 2 members, every string of 2 items and every number of 4 characters, with exponents in and out of range; XML of 6 tokens, one level under the root; CSV tables of 2 by 2 and texts of 3 characters; each limit (members, depth, bytes, rows, columns, children) small enough to be met and passed; names within and over their limit; 2 records per document; 2 FIRMS requests, either of which may fail; bodies at and over both limits |
| `Report` | is what is printed the table of one instant; do the files tell the same | one event in two catalogues and two bodies, the second of which moves a row past the other; two commands; a failure or a kill between any two steps |

`IngestAlone` and `IngestPair` keep `Overlap` FALSE: in `IngestPair` the statements of two
runs interleave in every order, but no two meet in time, which is what SQLITE_BUSY
takes. `IngestContention` sets it TRUE and shows what that does. `CatalogIsReplay` and
`RunStoresWhatItFetched` are stated of runs no statement of which failed, the former also
of runs none of which was killed: their text says so, since the code ignores those failures.

A property leaves open what the code does otherwise than its documentation says, so that it
takes neither side: its text says so, and the list below names the disagreement. These are the position
that is taken of several instrumental ones (`PositionIsInstrumental`), XML text too long by CDATA or
entities and an element exactly `max_depth` deep (`XmlRefusesWhatIsWrong`), CSV fields too long by their
quotation marks and records of one empty field (`CsvReadsItsTable`), an error for a document that
lists nothing and FIRMS' silence about an empty answer (`FetchTellsTheTruth`).

The parsers' properties come in pairs, so that neither accepting too much nor too little passes:
`JsonAcceptsItsGrammar` with `JsonRefusesNoDocument`, `XmlReturnsItsTree` with
`XmlRefusesWhatIsWrong`; `CsvReadsItsTable` compares with the table that was written. Their
references are not the parsers' control: the JSON grammar is a set of token sequences, the XML tree
is read off the nesting of tags, the CSV writer is RFC 4180.

Each violation run shows one disagreement between the code and a sentence of its
own documentation; `findings` in `PROJECT.json` quotes both:

| Run | What the counterexample shows |
|---|---|
| `IngestContention` | SQLITE_BUSY on ignored inserts: observations without a retrieval (`pipeline.cpp` 101) |
| `FirmsLastDay` | a window ending earlier in the day than it starts loses its last day (`source.cpp` 404) |

Deadlock is not checked except in `MigrationOpen`, where a user can always
start the next command: each of the other programs ends.

### Other disagreements met while modelling

They are visible in the actions named, and no run is spent on them.

Database and pipeline:

- When `BEGIN` fails the loop breaks and an unmigrated handle is returned (`db.cpp` 264, against
  `db.hpp` 70). `HandleIsMigrated` is of handles returned by a loop that ended.
- The version is read once: a newer build may migrate the file under an older build's
  handle (REQ-4.2 has it refuse to operate).
- `Upsert` overwrites; nothing writes `observation_revision`, which `db.cpp` 100 keeps for
  superseded values (REQ-2.17). Upserts of two overlapping runs may leave the older revision.
- `FetchThrows`: a member of an unexpected type ends the run, while `pipeline.hpp` 15 has a
  source failure recorded and the run continue. A USGS feature with `"geometry": null` is such a
  member.
- A read error ends `load_observations` as the end of the rows does: the events are those of a
  prefix. A file that cannot be written is not noticed, and "wrote" is printed.
- Every output must carry its sources' attribution (REQ-8.5). What `Show` prints is of the command's own
  adapters, so `replay`, which is offline, credits none of the services its events came from; `query`
  prints no source at all; `WriteGeoJson` is given the coverage notes and no attribution. `probe`
  (`main.cpp` 161) is never used. No property is stated of attribution, for there is none the code keeps.
- A FIRMS fetch with an error may have observations, those of the requests before the failed one;
  `ingest` discards them with the body, since the fetch is not ok (`pipeline.cpp` 75), while
  `source.cpp` 430 has partial coverage recorded (REQ-2.9).
  The region and the window a report prints are not applied to its rows.

Analysis:

- A reason is filed under the root of the moment; a union that demotes this root later
  loses it, while REQ-6.4 keeps the criterion of *each* association.
- `instrumental_sources` counts constituents, not sources, so two catalogues of one
  network count twice (`analysis.cpp` 361, against `analysis.hpp` 113 and REQ-6.5).
- `Better` does not compare uncertainties, `Adopts` does not read the class, though the comments
  at `analysis.cpp` 290 and 309 say "tightest" and "strongest instrumental". `DepthIsFixed`
  guesses from the value where a source declares nothing (REQ-5.2).
- Of equally busy windows the first is kept, and daylight is asked of its centre alone
  (`analysis.cpp` 181 and 195): explosions all in one hour of the night can be called industry.
  `Count` keeps the last longitude of a cell in input order (`analysis.hpp` 112).

Adapters and transport:

- `Answered` ends the FIRMS walk at its guard without an error (`source.cpp` 447); an empty first body
  removes the only header, so `Parse` reports an answered request as a failure (`source.hpp` 39);
  `product_for` decides a chunk by its first day, so a chunk across the streams' boundary
  comes back short without an error (`source.cpp` 353); a body without a final newline glues
  its last row to the next body's first; FIRMS never sets `no_data`; its partial failures, like every
  failed parse, leave a body that is not stored (REQ-2.10).
- USGS is asked for at most 20000 events, and a full page is not told from a complete answer.
- An ISC document whose events are all dropped, or that lists none, is an error, though
  `source.hpp` 36 keeps the two apart. A time with an explicit offset gets a "Z" appended and its
  event is dropped. Records are dropped without a count (REQ-3.7).
- ISC and curated times keep the source's spelling (`observation.hpp` 32 has millisecond UTC) while
  rows and events are ordered by the text; `TextOrderIsTime` is of texts `format_iso8601_ms` wrote.
- `http.cpp` allows 64 MiB, the JSON parser 32 MiB. The body of an error response counts
  against the limit.

Parsers and calendar:

- `parse_iso8601_ms` accepts 30 February (as 2 March) and second 60. A year of five digits is written and not
  read back; a huge or NaN `time`, FRP or brightness is cast to an integer it does not fit
  (`source.cpp` 132, 538, 541), which is undefined.
- JSON nests exactly `max_depth` deep, XML one deeper. In XML the text limit measures plain bytes
  only, not CDATA or entities (`xml.hpp` 22). In CSV a doubled quote is not measured (`csv.hpp` 7), and a
  record of one empty quoted field is dropped as a blank line is (`csv.hpp` 58). A character reference to
  a surrogate or to 0 is written as it is, so a text out of XML need not be UTF-8 and
  `json_escape` can then write an invalid file: `WrittenIsReadBack` is of texts that came
  through the JSON parser. Content after the root is not looked at, attributes may repeat, and
  text after a closing quote in CSV splits the row.

## 4. Fairness

`Correlate`: one thread runs the loops. `Migration`: weak fairness of each process's
steps inside `open`; nothing obliges a user to start a command, and kills and faults are bounded,
never fair. `RetryingOpens` therefore assumes the user keeps trying (its premise).
`Ingest`: weak fairness of each run's steps, because every transfer is bounded by
`Limits::total_timeout_seconds` and no statement waits for a lock. `Publish`, `Start` and
`Crash` are not fair. The other modules state safety only.

## 5. The proofs

For every value of the constants, from the named assumptions of the modules. Each invariant
below was first checked by TLC on the runs' instances, or is a strengthening of ones that were.

- **CorrelateProofs.** `IInv` strengthens `TypeOK` by: each element reaches the
  root `rep` names; distinct trees are closed under the associations met so far and
  each tree is connected by them; an element and its parent are in the same tree;
  each reason is about members of the tree it is filed under, and a tree of several has a
  reason at its root; the groups filled so far are the trees so far. Acyclicity need not be stated:
  safety only needs `find` to end *at a root of the same tree*, so it follows from "parent
  stays in the tree" and "a tree has one root". `Inductive` proves one lemma per action;
  `PartitionCorrect`, `PartitionOnce`, `EventsExplained`, `TypeCorrect` follow.
- **AssessProofs.** Each of the four loops is described by the constituents it has walked
  (`Looked`, `Heard`, `Crossed`, `Weighed`): the position is the best among those looked at, a
  definite verdict is one of those heard or the diurnal rule's change of one, a depth that gave a
  verdict was declared, the factors are those of the constituents weighed. At the end of a loop its
  prefix is the whole event, which gives `VerdictKept`, `SurfaceEarned`, `DoubtReflected`,
  `BandPublished` and `PositionRight` for events of any length over any observations.
- **MigrationProofs.** The invariant adds to `SchemaMatchesVersion`: a process past its
  script holds the lock; what it staged is the committed file plus its script; so
  the file cannot have moved since, and `v` is the file's version; a process that took a newer
  file for an empty one still has `v = 0`. `TypeCorrect`, `SchemaCorrect`, `MigrationsAdvance`,
  `HandlesMigrated` and `NewerRefused` follow, for any set of processes and any builds. The last two
  are about handles returned at the end of the loop: `broke` remembers those returned by its `break`.
- **IngestProofs.** `TypeCorrect` has no hypothesis. `EvidenceAlways`, `ProvenanceKept` and
  `ReportBacked` suppose `StatementsSucceed` (no two runs write at the same instant, no I/O error):
  `IngestContention` shows that the first two need it. The invariant adds to `Traceable` what each run
  may rely on before its next statement (`BackedRun`): the body it is about to name is archived,
  the retrieval it is about to rest an observation on is recorded, and what it has left to
  store is listed in that body. The tables only grow (`StoreGrows`), so no step of another run,
  and no kill, takes that away. `StepRefines` maps `InsertBody`, `InsertResponse` and `Upsert` to
  the steps `Archive`, `Record` and `Adopt`, and every other step to a stutter. For the
  report, `Truthful` adds that what was stored and what is left to store make up the body, and that
  coverage is complete exactly when every result so far is a success. `CatalogReplayed` and `RunStored`
  suppose that the runs come one after another (`OneRun`: `Proc` has one member, whose runs are as
  many as wished, any of them killed): statements of overlapping runs may interleave so that the
  older revision is the one left. Their invariant, `HInv`, says of every entry of the catalogue, as long as
  no statement failed, that either it is one the run is about to store, or it holds the value of
  the last retrieval that lists it (`Replayed`, as long as no run was killed) and of the last
  result of this run that does (`Repeated`, kills or none): a retrieval takes the entries it lists
  out of the second case, and each upsert puts one back.
- **FirmsProofs.** For any lengths of day and chunk, any guard and any position of the streams' ends. The
  invariant says where the walk stands: each request lies in the window, after the earlier ones
  (`RequestsApart`) and before the loop variable; up to the loop variable no day but the
  window's last is left out (`Covered`); the merged body is a document whose rows are those sent
  (`MergedSoFar`). It rests on two facts of integer division, `Strides` (a stride of whole days
  advances the day by as many) and `Distance` (the day of a difference against the difference of the
  days, which may be one more: the gap `FirmsLastDay` shows). `DaysOnce`, `NoneLeftOut`,
  `NrtRight` and `MergedRight` follow.
- **ReportProofs.** The rows read are those of the snapshot, in order, and all that are left come
  later; every value of the snapshot has its evidence, because `Provenance` never removes any.
  `OneInstant` follows for any store, options and number of commands.
- **DiurnalProofs.** For any observations, clock, window and rule. The invariant says what each loop has
  done: the histogram counts the observations taken so far, `best` is the largest of the windows
  tried and the window it names has it, each verdict given is that of the cell's own observations.
  A window's total is a fold over the histogram's hours. That it is the number of the observations at
  those hours (`SumIsWithin`) is an induction on the set of hours, put as "a smallest set of which it
  is false" (`SmallestSet`), which the provers can do without an operator for a parameter.
  `BusiestWindow` and `IndustryRegular` follow.
- **InputProofs, the calendar.** `days_from_civil` is a closed form in which eras cancel (`DayNumber`),
  and the walk's date and number keep to it (`WalkInv`): from one day to the next it grows by one
  because the leap years up to `y` do (`Leaps`). `civil_from_days` inverts it by the bounds of the
  years of an era. `CivilDates` has no hypothesis on the years. `TextRoundTrip` supposes
  `Years \subseteq FourDigits`, for five digits are written and not read back; within
  them it holds for any clock and offset. `TextSorts` reads the fields as digits of one number,
  so their order is that of the instants; it has the same hypothesis, without which the year is not
  of one width.
- **InputProofs, UTF-8.** `AcceptsIsWellFormed`: `append_utf8_sequence` accepts exactly the
  well-formed sequences of the Unicode standard's table, by the four lengths. `WrittenIsAccepted`: what is
  written of a scalar value is accepted and denotes it.
- **InputProofs, the fetch.** `FetchInv` is what `FetchTellsTheTruth` needs at each stage: of the
  transfer, that a body handed on is a whole 2xx answer within the limits (`TransferInv`, preserved
  by every event of a transfer); of the loop over records, that the observations are the usable
  ones of those listed, in order, under the adapter's name, until one throws; of a FIRMS walk, that
  whatever request failed has left its error, which no later step takes away. `FetchTruthful` follows
  for every adapter, server and document, and any number of requests.
- **InputProofs, the table.** `TableRead` is for every table, spelling and limit; that the cells of a table
  are sequences of characters and that it has a field in every line is
  `TablesAssumption` (`csv.cpp` never sees a table, so it is the writer's part). What is written is a flattening, so
  the proof first says where the parts of a flattened sequence are (`FlattenLonger`, `JoinHeld`):
  each line, each field of a line, each character of a field, two places for a doubled quote
  (`WrittenSpells`). `CsvInv` then says where the parser stands: in some field of some line, or after it, at
  the place so computed, holding exactly the rows, fields and characters before that place,
  none of them beyond a limit. `PlainSpelt` and `QuotedSpelt` say which character is
  there, hence that only the action of the code's own case is enabled and that it leads to the next
  such place. The rest is at the boundaries: an empty last line without an end is no
  record (`BlankLast`), and a limit is exceeded by a reading exactly when the table exceeds it, as the
  code measures (`Legal`: `LongField`, `WideRow`, `ManyRows`, `PassedIsLegal`), which every table within
  the limits of the header is and none is that exceeds one by more than its quotation marks.
- **InputProofs, what is written of a text.** `EscapedIsReadBack` is for every string `parse_string` returned,
  of any length; that the tokens of a string are bytes, escapes, code units and non-empty raw sequences
  is `TokensAssumption` (the parser cuts the text so). Both directions are folds, which reach the
  provers as a CHOOSE: `FoldExists` shows the function of the partial results, and from then on a fold is
  its turns (`ScansTurn`). The text is cut into whole UTF-8 characters and single control bytes
  (`ChunksOfText`, from what the scan may append), each of which is escaped to one item that appends
  just that chunk (`EscapeRead`), so the second scan returns the text (`TextReadBack`).
  The limit is met because a prefix is no longer than the whole.
- **InputProofs, the tree.** `XmlTreeDrawn` and `XmlRefusals` are for every document, of any length and
  depth, and every limit; that tokens have the shapes of `Markup` is `MarkupAssumption` (the tokenizer cuts the
  text so: a byte is a byte, a name a sequence of parts, a digit below 16). The reference says what a
  token is directly in by counting tags (`Level`, `DirectlyIn`), the parser by a stack of calls.
  `XmlInv` relates the two while the parser is at work. The i-th open call is that of the start tag at
  which the level was last i - 1, and it has stayed above since (`Stacked`); that call holds the data and the
  returned children that the tokens so far draw directly in it, of which the one still open is none
  yet (`Partly`, `Nested`); an element not open is complete, so that a later token cannot be in it
  (`Complete`); and nothing comes before the root (`Begun`). One lemma for each kind of
  token preserves this. The tree is a recursive function, determined by its equation because
  children come after their element: the proof carries some `tree` that satisfies the equation so
  far and shows at the end that it is `Trees(read)`. An attribute's value is a fold over its items,
  whose failure is compared with the item at which the reference finds it. `XmlRefusals` reads each
  condition of `Wrong` off the same stack: the innermost call is the element the last token is directly in;
  a refusal of a token that is not wrong is one of the two cases left open (`Doubtful`).

Only model-checked:

- liveness (`Termination`, `RetryingOpens`, `RunCompletes`), which is out of the prover's reach;
- `JsonAcceptsItsGrammar`, `JsonRefusesNoDocument`: they compare the parser with the finite set of all
  documents up to a depth, built from below by levels, over strings of a bounded length. That set is a
  reference for the run's instance; the statement for any document needs another one (section 7).

## 6. Not modelled, and why

- Floating point: distances, uncertainties as reals, `normalise_longitude`. Depths and
  uncertainties are whole kilometres that meet every threshold.
- The wording and layout of reasons and reports, the escaping of URLs, hashing, TLS, the curl options.
- SQLite's own atomicity and durability: assumed. A transaction is atomic and a kill
  leaves the committed file. `Statement` is a thin wrapper over it.
- Whitespace between JSON tokens; a number next to the largest or the smallest double, which is not told
  from others of its power of ten.
- The version string, a constant.

## 7. Plan

Done: `Correlate`, `Migration`, `Ingest` with `Provenance`, `Assess`, `FirmsWalk`, `Report`,
`Diurnal`, `Calendar`, `Csv`, `Escape` and `Xml` checked and proved; `Retrieval` checked, and the fetch
proved; the JSON parser checked.

Left, in order of weight:

1. `JsonAcceptsItsGrammar` for any depth, with a reference read off positions, as the XML tree's
   is, in place of a finite set of documents.
2. One store for `Ingest` and `Report` in place of `Provenance` between them, to say what a
   report made during a contended ingest can still claim.
3. The fields an adapter copies from a record (`Retrieval` has their presence, `Assess` their use).
