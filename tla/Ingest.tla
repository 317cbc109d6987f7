------------------------------- MODULE Ingest --------------------------------
(***************************************************************************)
(* kst::pipeline::ingest: runs of `kst ingest` retrieve from every adapter  *)
(* in turn and persist what came back, each statement its own transaction,  *)
(* each result but the last ignored.  Runs may be killed, may overlap, and  *)
(* meet sources that fail, answer nothing, or have published a revision.    *)
(*                                                                         *)
(* A response body stands for its content: an origin (a service, or a file) *)
(* and the revision it published, or the one empty body of a service with   *)
(* nothing in range.  An observation's value is the body it was read from.  *)
(***************************************************************************)
EXTENDS Integers, Sequences

CONSTANTS
    Proc,        \* concurrent runs of the command
    Origin,      \* where an adapter reads: a service, or one file's path
    Service,     \* the origins that are services
    Source,      \* source identifiers
    SourceOf,    \* SourceOf[o]: the id() of o's adapter
    Listing,     \* Listing[o][n]: the native ids o publishes at revision n
    Id,          \* native ids
    Adapters,    \* Adapters[p]: the origins p's adapters read, in order
    Empty,       \* the empty body
    None,        \* no row
    MaxRuns,     \* bound on runs started
    MaxCrashes,  \* bound on runs killed
    MaxFaults,   \* bound on statements that fail for an I/O reason
    Overlap      \* whether two runs' write statements may meet in time

ASSUME OriginAssumption ==
    /\ Service \subseteq Origin
    /\ SourceOf \in [Origin -> Source]
    /\ Listing \in [Origin -> Seq(Seq(Id))]
    /\ \A o \in Origin : Listing[o] # <<>>
    /\ Adapters \in [Proc -> Seq(Origin)]
    /\ \A p \in Proc : Adapters[p] # <<>>

ASSUME BoundAssumption ==
    /\ MaxRuns \in Nat
    /\ MaxCrashes \in Nat
    /\ MaxFaults \in Nat
    /\ Overlap \in BOOLEAN

Published == UNION {{<<o, n>> : n \in 1..Len(Listing[o])} : o \in Origin}
Body == Published \cup {Empty}
Key  == Source \X Id

ASSUME DistinctAssumption == Empty \notin Published /\ None \notin Body

Row == [source : Source, body : Body, run : Nat]
Result == [source : Source, ok : BOOLEAN, body : Body \cup {None},
           new : BOOLEAN, stored : Nat]

VARIABLES
    revision,    \* revision[o]: what o publishes now
    raw_body,    \* the stored bodies
    raw_response,\* the retrievals, in id order; `run` is history: the code
                 \*   leaves the column run_id NULL
    observation, \* observation[k]: the row of natural key k
    superseded,  \* history: the values an upsert replaced, never read
    pc,
    at,          \* at[p]: the loop over adapters
    body,        \* f.raw_body and f.sha256
    new,         \* sr.body_was_new
    todo,        \* the observations of f still to upsert
    stored,      \* sr.observations
    results,     \* report.sources
    complete,    \* report.coverage_complete
    run,         \* run[p]: the number of p's run
    runs, crashes, faults

store    == <<raw_body, raw_response, observation, superseded>>
locals   == <<at, body, new, todo, stored, results, complete, run>>
counters == <<runs, crashes, faults>>
vars     == <<revision, store, pc, locals, counters>>

Writing == {"body", "row", "obs"}
Running == Writing \cup {"fetch", "check"}

TypeOK ==
    /\ revision \in [Origin -> Nat \ {0}]
    /\ \A o \in Origin : revision[o] <= Len(Listing[o])
    /\ raw_body \in SUBSET Body
    /\ raw_response \in Seq(Row)
    /\ observation \in [Key -> Body \cup {None}]
    /\ superseded \in SUBSET (Key \X Body)
    /\ pc \in [Proc -> Running \cup {"idle", "done", "aborted"}]
    /\ at \in [Proc -> Nat \ {0}]
    /\ \A p \in Proc : pc[p] \in Writing \cup {"check"} => at[p] <= Len(Adapters[p])
    /\ body \in [Proc -> Body]
    /\ new \in [Proc -> BOOLEAN]
    /\ todo \in [Proc -> Seq(Id)]
    /\ stored \in [Proc -> Nat]
    /\ results \in [Proc -> Seq(Result)]
    /\ \A p \in Proc : Len(results[p]) = at[p] - 1
    /\ complete \in [Proc -> BOOLEAN]
    /\ run \in [Proc -> 0..MaxRuns]
    /\ runs \in 0..MaxRuns
    /\ crashes \in 0..MaxCrashes
    /\ faults \in 0..MaxFaults

Init ==
    /\ revision = [o \in Origin |-> 1]
    /\ raw_body = {}
    /\ raw_response = <<>>
    /\ observation = [k \in Key |-> None]
    /\ superseded = {}
    /\ pc = [p \in Proc |-> "idle"]
    /\ at = [p \in Proc |-> 1]
    /\ body = [p \in Proc |-> Empty]
    /\ new = [p \in Proc |-> TRUE]
    /\ todo = [p \in Proc |-> <<>>]
    /\ stored = [p \in Proc |-> 0]
    /\ results = [p \in Proc |-> <<>>]
    /\ complete = [p \in Proc |-> TRUE]
    /\ run = [p \in Proc |-> 0]
    /\ runs = 0
    /\ crashes = 0
    /\ faults = 0

-----------------------------------------------------------------------------
Goto(p, label) == pc' = [pc EXCEPT ![p] = label]

Here(p) == Adapters[p][at[p]]

IdsIn(b) == IF b = Empty THEN <<>> ELSE Listing[b[1]][b[2]]

\* A service publishes a revision of its catalog; a file is rewritten.
Publish(o) ==
    /\ revision[o] < Len(Listing[o])
    /\ revision' = [revision EXCEPT ![o] = @ + 1]
    /\ UNCHANGED <<store, pc, locals, counters>>

Start(p) ==
    /\ pc[p] \in {"idle", "done", "aborted"}
    /\ runs < MaxRuns
    /\ runs' = runs + 1
    /\ run' = [run EXCEPT ![p] = runs + 1]
    /\ at' = [at EXCEPT ![p] = 1]
    /\ results' = [results EXCEPT ![p] = <<>>]
    /\ complete' = [complete EXCEPT ![p] = TRUE]
    /\ Goto(p, "fetch")
    /\ UNCHANGED <<revision, store, body, new, todo, stored, crashes, faults>>

\* report.sources.push_back(sr), and on to the next adapter.
Conclude(p, result) ==
    /\ results' = [results EXCEPT ![p] = Append(@, result)]
    /\ at' = [at EXCEPT ![p] = @ + 1]
    /\ Goto(p, "fetch")

-----------------------------------------------------------------------------
(* adapter->fetch(query)                                                    *)

FetchFailsUnmarked(p) ==
    /\ pc[p] = "fetch"
    /\ at[p] <= Len(Adapters[p])
    /\ Conclude(p, [source |-> SourceOf[Here(p)], ok |-> FALSE, body |-> None,
                    new |-> TRUE, stored |-> 0])
    /\ UNCHANGED <<revision, store, body, new, todo, stored, complete, run,
                   counters>>

FetchFails(p) ==
    /\ pc[p] = "fetch"
    /\ at[p] <= Len(Adapters[p])
    /\ complete' = [complete EXCEPT ![p] = FALSE]
    /\ Conclude(p, [source |-> SourceOf[Here(p)], ok |-> FALSE, body |-> None,
                    new |-> TRUE, stored |-> 0])
    /\ UNCHANGED <<revision, store, body, new, todo, stored, run, counters>>

\* A member of the document has another type than parse takes it for: the
\* exception leaves ingest, and main.
FetchThrows(p) ==
    /\ pc[p] = "fetch"
    /\ at[p] <= Len(Adapters[p])
    /\ Goto(p, "aborted")
    /\ UNCHANGED <<revision, store, locals, counters>>

Answered(p, b) ==
    /\ body' = [body EXCEPT ![p] = b]
    /\ todo' = [todo EXCEPT ![p] = IdsIn(b)]
    /\ new' = [new EXCEPT ![p] = TRUE]
    /\ stored' = [stored EXCEPT ![p] = 0]
    /\ Goto(p, "check")

\* The response is what the origin publishes when it answers.
Fetch(p) ==
    /\ pc[p] = "fetch"
    /\ at[p] <= Len(Adapters[p])
    /\ Answered(p, <<Here(p), revision[Here(p)]>>)
    /\ UNCHANGED <<revision, store, at, results, complete, run, counters>>

FetchNoData(p) ==
    /\ pc[p] = "fetch"
    /\ at[p] <= Len(Adapters[p])
    /\ Here(p) \in Service
    /\ Answered(p, Empty)
    /\ UNCHANGED <<revision, store, at, results, complete, run, counters>>

FinishRetries(p) ==
    /\ pc[p] = "fetch"
    /\ at[p] > Len(Adapters[p])
    /\ IF complete[p]
         THEN /\ Goto(p, "done")
              /\ UNCHANGED <<at, results, complete>>
         ELSE /\ at' = [at EXCEPT ![p] = 1]
              /\ results' = [results EXCEPT ![p] = <<>>]
              /\ complete' = [complete EXCEPT ![p] = TRUE]
              /\ UNCHANGED pc
    /\ UNCHANGED <<revision, store, body, new, todo, stored, run, counters>>

Finish(p) ==
    /\ pc[p] = "fetch"
    /\ at[p] > Len(Adapters[p])
    /\ Goto(p, "done")
    /\ UNCHANGED <<revision, store, locals, counters>>

-----------------------------------------------------------------------------
(* Persisting one Fetch.                                                    *)

\* SQLITE_BUSY: another connection is writing, and no busy timeout is set.
Contended(p) == Overlap /\ \E q \in Proc \ {p} : pc[q] \in Writing

\* A statement fails for contention, or for an I/O reason.
StatementFails(p) ==
    \/ /\ Contended(p)
       /\ UNCHANGED counters
    \/ /\ faults < MaxFaults
       /\ faults' = faults + 1
       /\ UNCHANGED <<runs, crashes>>

CheckBodyInverted(p) ==
    /\ pc[p] = "check"
    /\ new' = [new EXCEPT ![p] = body[p] \in raw_body]
    /\ Goto(p, IF body[p] \in raw_body THEN "body" ELSE "row")
    /\ UNCHANGED <<revision, store, at, body, todo, stored, results, complete,
                   run, counters>>

CheckBodySkipsKnown(p) ==
    /\ pc[p] = "check"
    /\ new' = [new EXCEPT ![p] = body[p] \notin raw_body]
    /\ todo' = [todo EXCEPT ![p] = IF body[p] \in raw_body THEN <<>> ELSE @]
    /\ Goto(p, IF body[p] \in raw_body THEN "row" ELSE "body")
    /\ UNCHANGED <<revision, store, at, body, stored, results, complete, run,
                   counters>>

CheckBody(p) ==
    /\ pc[p] = "check"
    /\ new' = [new EXCEPT ![p] = body[p] \notin raw_body]
    /\ Goto(p, IF body[p] \in raw_body THEN "row" ELSE "body")
    /\ UNCHANGED <<revision, store, at, body, todo, stored, results, complete,
                   run, counters>>

CheckBodyFails(p) ==
    /\ pc[p] = "check"
    /\ faults < MaxFaults
    /\ faults' = faults + 1
    /\ Goto(p, "body")
    /\ UNCHANGED <<revision, store, locals, runs, crashes>>

\* A body stored since the check violates the primary key: also ignored.
InsertBody(p) ==
    /\ pc[p] = "body"
    /\ raw_body' = raw_body \cup {body[p]}
    /\ Goto(p, "row")
    /\ UNCHANGED <<revision, raw_response, observation, superseded, locals,
                   counters>>

InsertBodyFails(p) ==
    /\ pc[p] = "body"
    /\ StatementFails(p)
    /\ Goto(p, "row")
    /\ UNCHANGED <<revision, store, locals>>

RowOf(p) == [source |-> SourceOf[Here(p)], body |-> body[p], run |-> run[p]]

InsertResponseIfNew(p) ==
    /\ pc[p] = "row"
    /\ raw_response' = IF body[p] \in raw_body /\ new[p]
                         THEN Append(raw_response, RowOf(p))
                         ELSE raw_response
    /\ Goto(p, "obs")
    /\ UNCHANGED <<revision, raw_body, observation, superseded, locals, counters>>

\* raw_response.sha256 REFERENCES raw_body, with foreign_keys = ON.
InsertResponse(p) ==
    /\ pc[p] = "row"
    /\ raw_response' = IF body[p] \in raw_body
                         THEN Append(raw_response, RowOf(p))
                         ELSE raw_response
    /\ Goto(p, "obs")
    /\ UNCHANGED <<revision, raw_body, observation, superseded, locals, counters>>

InsertResponseFails(p) ==
    /\ pc[p] = "row"
    /\ StatementFails(p)
    /\ Goto(p, "obs")
    /\ UNCHANGED <<revision, store, locals>>

KeyAt(p) == <<SourceOf[Here(p)], Head(todo[p])>>

UpsertDoNothing(p) ==
    /\ pc[p] = "obs"
    /\ todo[p] # <<>>
    /\ observation' = [observation EXCEPT ![KeyAt(p)] = IF @ = None THEN body[p] ELSE @]
    /\ stored' = [stored EXCEPT ![p] = @ + 1]
    /\ todo' = [todo EXCEPT ![p] = Tail(@)]
    /\ UNCHANGED <<revision, raw_body, raw_response, superseded, pc, at, body, new,
                   results, complete, run, counters>>

\* INSERT ... ON CONFLICT(source_id,native_id) DO UPDATE.
Upsert(p) ==
    /\ pc[p] = "obs"
    /\ todo[p] # <<>>
    /\ observation' = [observation EXCEPT ![KeyAt(p)] = body[p]]
    /\ superseded' =
          IF observation[KeyAt(p)] \in {None, body[p]}
            THEN superseded
            ELSE superseded \cup {<<KeyAt(p), observation[KeyAt(p)]>>}
    /\ stored' = [stored EXCEPT ![p] = @ + 1]
    /\ todo' = [todo EXCEPT ![p] = Tail(@)]
    /\ UNCHANGED <<revision, raw_body, raw_response, pc, at, body, new, results,
                   complete, run, counters>>

UpsertFails(p) ==
    /\ pc[p] = "obs"
    /\ todo[p] # <<>>
    /\ StatementFails(p)
    /\ todo' = [todo EXCEPT ![p] = Tail(@)]
    /\ UNCHANGED <<revision, store, pc, at, body, new, stored, results, complete,
                   run>>

Persisted(p) ==
    /\ pc[p] = "obs"
    /\ todo[p] = <<>>
    /\ Conclude(p, [source |-> SourceOf[Here(p)], ok |-> TRUE, body |-> body[p],
                    new |-> new[p], stored |-> stored[p]])
    /\ UNCHANGED <<revision, store, body, new, todo, stored, complete, run,
                   counters>>

\* The run is killed; what its statements committed stays.
Crash(p) ==
    /\ pc[p] \in Running
    /\ crashes < MaxCrashes
    /\ crashes' = crashes + 1
    /\ Goto(p, "idle")
    /\ UNCHANGED <<revision, store, locals, runs, faults>>

Step(p) ==
    \/ FetchFails(p)
    \/ FetchThrows(p)
    \/ Fetch(p)
    \/ FetchNoData(p)
    \/ Finish(p)
    \/ CheckBody(p)
    \/ CheckBodyFails(p)
    \/ InsertBody(p)
    \/ InsertBodyFails(p)
    \/ InsertResponse(p)
    \/ InsertResponseFails(p)
    \/ Upsert(p)
    \/ UpsertFails(p)
    \/ Persisted(p)

Next ==
    \/ \E o \in Origin : Publish(o)
    \/ \E p \in Proc : Start(p) \/ Step(p) \/ Crash(p)

Spec == Init /\ [][Next]_vars

\* Every transfer is bounded by a timeout, so a run that is not killed goes on.
FairSpec ==
    /\ Spec
    /\ \A p \in Proc : WF_vars(Step(p))
-----------------------------------------------------------------------------
(* Properties                                                               *)

Retrieved(s, b) ==
    \E n \in DOMAIN raw_response :
        raw_response[n].source = s /\ raw_response[n].body = b

\* README.md:23, "Every assertion traces back to the source records that
\* support it", and pipeline.cpp:101, "The retrieval itself is always recorded,
\* dedup or not (REQ-4.6)": whatever value the
\* observation table holds, or held before an upsert replaced it, the body it
\* was read from is in the archive and a retrieval of that source names it --
\* at every instant, so that a run killed between two statements never leaves
\* an observation without evidence.
Traceable ==
    /\ \A k \in Key : observation[k] # None =>
          observation[k] \in raw_body /\ Retrieved(k[1], observation[k])
    /\ \A s \in superseded : s[2] \in raw_body /\ Retrieved(s[1][1], s[2])

\* What a finished run tells its user is what the store holds: for each source
\* it reports as retrieved there is a retrieval row of this very run, unless a
\* statement has failed, and it reports complete coverage when every adapter
\* answered and then only; one that failed costs the others nothing.
ReportIsBacked ==
    \A p \in Proc : pc[p] = "done" =>
        /\ faults = 0 => \A n \in DOMAIN results[p] :
              LET r == results[p][n]
              IN  r.ok => /\ r.body \in raw_body
                          /\ r.stored = Len(IdsIn(r.body))
                          /\ \E m \in DOMAIN raw_response :
                                raw_response[m] = [source |-> r.source,
                                                   body |-> r.body, run |-> run[p]]
        /\ complete[p] <=> \A n \in 1..Len(Adapters[p]) :
              n \in DOMAIN results[p] /\ results[p][n].ok

Lists(b, id) == \E n \in DOMAIN IdsIn(b) : IdsIn(b)[n] = id

\* The same, step by step: the store implements the promise in Provenance.
Evidence == INSTANCE Provenance
    WITH archive  <- raw_body,
         evidence <- {<<raw_response[n].source, raw_response[n].body>> :
                        n \in DOMAIN raw_response},
         catalog  <- observation,
         Says     <- Lists

KeepsEvidence == Evidence!Spec

\* Replaying the archive in the order of its retrievals (REQ-2.10, REQ-2.11)
\* gives the observation table, as long as no run was killed and no statement
\* failed: no row is older than the newest retrieval that lists it, whenever no
\* run is in progress.
CatalogIsReplay ==
    faults = 0 /\ crashes = 0 /\ (\A p \in Proc : pc[p] \notin Running) =>
        \A k \in Key :
            LET rows == {n \in DOMAIN raw_response :
                           /\ raw_response[n].source = k[1]
                           /\ Lists(raw_response[n].body, k[2])}
            IN  \/ rows = {} /\ observation[k] = None
                \/ \E n \in rows :
                      /\ \A m \in rows : m <= n
                      /\ observation[k] = raw_response[n].body

\* A rerun repairs what a killed run left half done: when a run finishes, every
\* id its sources listed holds the value of the last source of this run that
\* listed it, whatever a killed run stored or failed to store.
RunStoresWhatItFetched ==
    \A p \in Proc : pc[p] = "done" /\ faults = 0 =>
        \A k \in Key :
            LET told == {n \in DOMAIN results[p] :
                           /\ results[p][n].ok
                           /\ results[p][n].source = k[1]
                           /\ Lists(results[p][n].body, k[2])}
            IN  told # {} => \E n \in told :
                    /\ \A m \in told : m <= n
                    /\ observation[k] = results[p][n].body

\* A run that is neither killed nor aborted by an exception finishes: the loop
\* waits on no statement, no lock and no source.
RunCompletes ==
    \A p \in Proc : pc[p] = "fetch" ~> pc[p] \in {"done", "aborted", "idle"}
=============================================================================
