---------------------------- MODULE IngestProofs ----------------------------
(***************************************************************************)
(* Proofs about pipeline::ingest for any number of concurrent runs, any      *)
(* sources, any revisions and any number of kills.  What they say of the     *)
(* store at every instant supposes that no statement fails: no two runs      *)
(* write at the same instant, and there is no I/O error.  What they say of    *)
(* the store against its own history is of runs one after another.           *)
(***************************************************************************)
EXTENDS Ingest, TLAPS

StatementsSucceed == ~Overlap /\ MaxFaults = 0

-----------------------------------------------------------------------------
(* Type correctness.                                                        *)

LEMMA IdsAreIds == ASSUME NEW b \in Body PROVE IdsIn(b) \in Seq(Id)
  <1>1. CASE b = Empty
    BY <1>1 DEF IdsIn
  <1>2. CASE b # Empty
    <2>1. PICK o \in Origin : b \in {<<o, n>> : n \in 1..Len(Listing[o])}
      BY <1>2 DEF Body, Published
    <2>2. PICK n \in 1..Len(Listing[o]) : b = <<o, n>>
      BY <2>1
    <2>3. Listing[o] \in Seq(Seq(Id))
      BY OriginAssumption
    <2>4. Listing[o][n] \in Seq(Id)
      BY <2>2, <2>3
    <2> QED
      BY <1>2, <2>2, <2>4 DEF IdsIn
  <1> QED
    BY <1>1, <1>2

LEMMA PublishedIsBody ==
    ASSUME NEW o \in Origin, NEW n \in Nat \ {0}, n <= Len(Listing[o])
    PROVE  <<o, n>> \in Body
  <1>1. Len(Listing[o]) \in Nat
    BY OriginAssumption
  <1>2. n \in 1..Len(Listing[o])
    BY <1>1
  <1> QED
    BY <1>2 DEF Body, Published

(* The adapter a run is at.                                                 *)
LEMMA HereIsOrigin ==
    ASSUME TypeOK, NEW p \in Proc, at[p] <= Len(Adapters[p])
    PROVE  Here(p) \in Origin /\ SourceOf[Here(p)] \in Source
  <1>1. Adapters[p] \in Seq(Origin)
    BY OriginAssumption
  <1>2. at[p] \in Nat \ {0}
    BY DEF TypeOK
  <1>3. at[p] \in 1..Len(Adapters[p])
    BY <1>1, <1>2
  <1>4. Here(p) \in Origin
    BY <1>1, <1>3 DEF Here
  <1> QED
    BY <1>4, OriginAssumption

(* The retrieval a run records.                                             *)
LEMMA RowIsRow ==
    ASSUME TypeOK, NEW p \in Proc, pc[p] = "row"
    PROVE  RowOf(p) \in Row
  <1>1. at[p] <= Len(Adapters[p])
    BY DEF TypeOK, Writing
  <1>2. SourceOf[Here(p)] \in Source
    BY <1>1, HereIsOrigin
  <1>3. body[p] \in Body
    BY DEF TypeOK
  <1>4. run[p] \in Nat
    <2>1. run[p] \in 0..MaxRuns
      BY DEF TypeOK
    <2> QED
      BY <2>1, BoundAssumption
  <1> QED
    BY <1>2, <1>3, <1>4 DEF RowOf, Row

(* What Conclude does to the report, kept apart from the rest of the state. *)
LEMMA ConcludeTypes ==
    ASSUME TypeOK, NEW p \in Proc, NEW result \in Result, Conclude(p, result)
    PROVE  /\ pc' \in [Proc -> Running \cup {"idle", "done", "aborted"}]
           /\ at' \in [Proc -> Nat \ {0}]
           /\ \A q \in Proc : pc'[q] \in Writing \cup {"check"} =>
                                 at'[q] <= Len(Adapters[q])
           /\ results' \in [Proc -> Seq(Result)]
           /\ \A q \in Proc : Len(results'[q]) = at'[q] - 1
  <1>1. /\ pc' = [pc EXCEPT ![p] = "fetch"]
        /\ at' = [at EXCEPT ![p] = at[p] + 1]
        /\ results' = [results EXCEPT ![p] = Append(results[p], result)]
    BY DEF Conclude, Goto
  <1>2. results[p] \in Seq(Result) /\ Len(results[p]) = at[p] - 1 /\ at[p] \in Nat \ {0}
    BY DEF TypeOK
  <1>3. /\ Append(results[p], result) \in Seq(Result)
        /\ Len(Append(results[p], result)) = at[p]
    BY <1>2
  <1>4. "fetch" \notin Writing \cup {"check"} /\ "fetch" \in Running
    BY DEF Writing, Running
  <1>5. pc' \in [Proc -> Running \cup {"idle", "done", "aborted"}]
    BY <1>1, <1>4 DEF TypeOK
  <1>6. at' \in [Proc -> Nat \ {0}]
    BY <1>1, <1>2 DEF TypeOK
  <1>7. results' \in [Proc -> Seq(Result)]
    BY <1>1, <1>3 DEF TypeOK
  <1>8. ASSUME NEW q \in Proc, pc'[q] \in Writing \cup {"check"}
        PROVE  at'[q] <= Len(Adapters[q])
    <2>1. q # p /\ pc'[q] = pc[q]
      BY <1>1, <1>4, <1>8 DEF TypeOK
    <2>2. at'[q] = at[q]
      BY <1>1, <2>1 DEF TypeOK
    <2> QED
      BY <1>8, <2>1, <2>2 DEF TypeOK
  <1>9. ASSUME NEW q \in Proc PROVE Len(results'[q]) = at'[q] - 1
    <2>1. CASE q = p
      BY <1>1, <1>2, <1>3, <2>1 DEF TypeOK
    <2>2. CASE q # p
      BY <1>1, <2>2 DEF TypeOK
    <2> QED
      BY <2>1, <2>2
  <1> QED
    BY <1>5, <1>6, <1>7, <1>8, <1>9

LEMMA InitType == Init => TypeOK
  <1> SUFFICES ASSUME Init PROVE TypeOK
    OBVIOUS
  <1>1. \A o \in Origin : 1 <= Len(Listing[o])
    BY OriginAssumption
  <1>2. Empty \in Body
    BY DEF Body
  <1>3. revision \in [Origin -> Nat \ {0}] /\ \A o \in Origin : revision[o] <= Len(Listing[o])
    BY <1>1 DEF Init
  <1>4. /\ raw_body \in SUBSET Body /\ raw_response \in Seq(Row)
        /\ observation \in [Key -> Body \cup {None}]
        /\ superseded \in SUBSET (Key \X Body)
    BY DEF Init
  <1>5. /\ pc \in [Proc -> Running \cup {"idle", "done", "aborted"}]
        /\ at \in [Proc -> Nat \ {0}]
        /\ \A p \in Proc : pc[p] \notin Writing \cup {"check"}
    BY DEF Init, Writing
  <1>6. /\ body \in [Proc -> Body] /\ new \in [Proc -> BOOLEAN]
        /\ todo \in [Proc -> Seq(Id)] /\ stored \in [Proc -> Nat]
    BY <1>2 DEF Init
  <1>7. /\ results \in [Proc -> Seq(Result)]
        /\ \A p \in Proc : Len(results[p]) = at[p] - 1
        /\ complete \in [Proc -> BOOLEAN]
    BY DEF Init
  <1>8. /\ run \in [Proc -> 0..MaxRuns] /\ runs \in 0..MaxRuns
        /\ crashes \in 0..MaxCrashes /\ faults \in 0..MaxFaults
    BY BoundAssumption DEF Init
  <1> QED
    BY <1>3, <1>4, <1>5, <1>6, <1>7, <1>8 DEF TypeOK

LEMMA TypeStep == TypeOK /\ [Next]_vars => TypeOK'
  <1> SUFFICES ASSUME TypeOK, [Next]_vars PROVE TypeOK'
    OBVIOUS
  <1> USE BoundAssumption DEF store, locals, counters, Goto
  <1>1. ASSUME NEW o \in Origin, Publish(o) PROVE TypeOK'
    <2>1. Len(Listing[o]) \in Nat
      BY OriginAssumption
    <2>2. /\ revision' \in [Origin -> Nat \ {0}]
          /\ \A q \in Origin : revision'[q] <= Len(Listing[q])
      BY <1>1, <2>1 DEF Publish, TypeOK
    <2> QED
      BY <1>1, <2>2 DEF Publish, TypeOK
  <1>2. ASSUME NEW p \in Proc, Start(p) PROVE TypeOK'
    <2>1. /\ results' \in [Proc -> Seq(Result)] /\ at' \in [Proc -> Nat \ {0}]
          /\ \A q \in Proc : Len(results'[q]) = at'[q] - 1
      BY <1>2 DEF Start, TypeOK
    <2>2. /\ runs' \in 0..MaxRuns /\ run' \in [Proc -> 0..MaxRuns]
          /\ complete' \in [Proc -> BOOLEAN]
      BY <1>2 DEF Start, TypeOK
    <2>3. /\ pc' \in [Proc -> Running \cup {"idle", "done", "aborted"}]
          /\ \A q \in Proc : pc'[q] \in Writing \cup {"check"} =>
                                at'[q] <= Len(Adapters[q])
      BY <1>2 DEF Start, TypeOK, Running, Writing
    <2> QED
      BY <1>2, <2>1, <2>2, <2>3 DEF Start, TypeOK
  <1>3. ASSUME NEW p \in Proc, FetchFails(p) PROVE TypeOK'
    <2>1. [source |-> SourceOf[Here(p)], ok |-> FALSE, body |-> None,
           new |-> TRUE, stored |-> 0] \in Result
      BY <1>3, HereIsOrigin DEF FetchFails, Result
    <2>2. complete' \in [Proc -> BOOLEAN]
      BY <1>3 DEF FetchFails, TypeOK
    <2> QED
      BY <1>3, <2>1, <2>2, ConcludeTypes DEF FetchFails, TypeOK
  <1>4. ASSUME NEW p \in Proc, NEW b \in Body, Answered(p, b),
               at[p] <= Len(Adapters[p]),
               UNCHANGED <<revision, store, at, results, complete, run, counters>>
        PROVE  TypeOK'
    <2>1. /\ body' \in [Proc -> Body] /\ new' \in [Proc -> BOOLEAN]
          /\ todo' \in [Proc -> Seq(Id)] /\ stored' \in [Proc -> Nat]
      BY <1>4, IdsAreIds DEF Answered, TypeOK
    <2>2. pc' = [pc EXCEPT ![p] = "check"] /\ at' = at
      BY <1>4 DEF Answered
    <2>3. /\ pc' \in [Proc -> Running \cup {"idle", "done", "aborted"}]
          /\ \A q \in Proc : pc'[q] \in Writing \cup {"check"} =>
                                at'[q] <= Len(Adapters[q])
      BY <1>4, <2>2 DEF TypeOK, Running
    <2> QED
      BY <1>4, <2>1, <2>3 DEF TypeOK
  <1>5. ASSUME NEW p \in Proc, Fetch(p) \/ FetchNoData(p) PROVE TypeOK'
    <2>1. CASE Fetch(p)
      <3>1. Here(p) \in Origin
        BY <2>1, HereIsOrigin DEF Fetch
      <3>2. <<Here(p), revision[Here(p)]>> \in Body
        BY <3>1, PublishedIsBody DEF TypeOK
      <3> QED
        BY <1>4, <2>1, <3>2 DEF Fetch
    <2>2. CASE FetchNoData(p)
      BY <1>4, <2>2 DEF FetchNoData, Body
    <2> QED
      BY <1>5, <2>1, <2>2
  <1>6. ASSUME NEW p \in Proc, NEW label \in {"idle", "done", "aborted"}, Goto(p, label),
               UNCHANGED <<revision, store, locals, runs, faults>>,
               crashes' \in 0..MaxCrashes
        PROVE  TypeOK'
    <2>1. /\ pc' \in [Proc -> Running \cup {"idle", "done", "aborted"}]
          /\ \A q \in Proc : pc'[q] \in Writing \cup {"check"} =>
                                at'[q] <= Len(Adapters[q])
      BY <1>6 DEF TypeOK, Writing
    <2> QED
      BY <1>6, <2>1 DEF TypeOK
  <1>7. ASSUME NEW p \in Proc, FetchThrows(p) \/ Finish(p) \/ Crash(p) PROVE TypeOK'
    <2>1. crashes' \in 0..MaxCrashes
      BY <1>7 DEF FetchThrows, Finish, Crash, TypeOK
    <2> QED
      BY <1>6, <1>7, <2>1 DEF FetchThrows, Finish, Crash
  (* The statements of one Fetch: `at` and the report stay as they are.     *)
  <1>8. ASSUME NEW p \in Proc, NEW label \in Writing, Goto(p, label),
               pc[p] \in Writing \cup {"check"},
               UNCHANGED <<revision, observation, superseded, at, body, todo, stored,
                           results, complete, run, runs, crashes>>,
               raw_body' \in SUBSET Body, raw_response' \in Seq(Row),
               new' \in [Proc -> BOOLEAN], faults' \in 0..MaxFaults
        PROVE  TypeOK'
    <2>1. pc' \in [Proc -> Running \cup {"idle", "done", "aborted"}]
      BY <1>8 DEF TypeOK, Running
    <2>2. ASSUME NEW q \in Proc, pc'[q] \in Writing \cup {"check"}
          PROVE  at'[q] <= Len(Adapters[q])
      <3>1. pc[q] \in Writing \cup {"check"}
        BY <1>8, <2>2 DEF TypeOK
      <3> QED
        BY <1>8, <3>1 DEF TypeOK
    <2> QED
      BY <1>8, <2>1, <2>2 DEF TypeOK
  <1>9. ASSUME NEW p \in Proc, CheckBody(p) \/ CheckBodyFails(p) PROVE TypeOK'
    <2>1. new' \in [Proc -> BOOLEAN] /\ faults' \in 0..MaxFaults
      <3>1. CASE CheckBody(p)
        <4>1. new' \in [Proc -> BOOLEAN]
          BY <3>1 DEF CheckBody, TypeOK
        <4> QED
          BY <3>1, <4>1 DEF CheckBody, TypeOK
      <3>2. CASE CheckBodyFails(p)
        <4>1. faults' \in 0..MaxFaults
          BY <3>2 DEF CheckBodyFails, TypeOK
        <4> QED
          BY <3>2, <4>1 DEF CheckBodyFails, TypeOK
      <3> QED
        BY <1>9, <3>1, <3>2
    <2>2. raw_body' \in SUBSET Body /\ raw_response' \in Seq(Row)
      BY <1>9 DEF CheckBody, CheckBodyFails, TypeOK
    <2>3. \E label \in Writing : Goto(p, label)
      BY <1>9 DEF CheckBody, CheckBodyFails, Writing
    <2>4. pc[p] = "check"
      BY <1>9 DEF CheckBody, CheckBodyFails
    <2>5. UNCHANGED <<revision, observation, superseded, at, body, todo, stored,
                      results, complete, run, runs, crashes>>
      BY <1>9 DEF CheckBody, CheckBodyFails
    <2> QED
      BY <1>8, <2>1, <2>2, <2>3, <2>4, <2>5
  <1>10. ASSUME NEW p \in Proc, StatementFails(p)
         PROVE  faults' \in 0..MaxFaults /\ UNCHANGED <<runs, crashes>>
    BY <1>10 DEF StatementFails, TypeOK
  <1>11. ASSUME NEW p \in Proc, InsertBody(p) \/ InsertBodyFails(p) PROVE TypeOK'
    <2>1. new' = new /\ new \in [Proc -> BOOLEAN]
      BY <1>11 DEF InsertBody, InsertBodyFails, TypeOK
    <2>2. faults' \in 0..MaxFaults /\ UNCHANGED <<runs, crashes>>
      BY <1>10, <1>11 DEF InsertBody, InsertBodyFails, TypeOK
    <2>3. raw_body' \in SUBSET Body /\ raw_response' \in Seq(Row)
      BY <1>11 DEF InsertBody, InsertBodyFails, TypeOK
    <2>4. pc[p] = "body" /\ Goto(p, "row")
      BY <1>11 DEF InsertBody, InsertBodyFails
    <2>5. UNCHANGED <<revision, observation, superseded, at, body, todo, stored,
                      results, complete, run>>
      BY <1>11 DEF InsertBody, InsertBodyFails
    <2>6. "body" \in Writing /\ "row" \in Writing
      BY DEF Writing
    <2> QED
      BY <1>8, <2>1, <2>2, <2>3, <2>4, <2>5, <2>6
  <1>12. ASSUME NEW p \in Proc, InsertResponse(p) \/ InsertResponseFails(p) PROVE TypeOK'
    <2>1. new' = new /\ new \in [Proc -> BOOLEAN]
      BY <1>12 DEF InsertResponse, InsertResponseFails, TypeOK
    <2>2. faults' \in 0..MaxFaults /\ UNCHANGED <<runs, crashes>>
      BY <1>10, <1>12 DEF InsertResponse, InsertResponseFails, TypeOK
    <2>3. pc[p] = "row" /\ Goto(p, "obs")
      BY <1>12 DEF InsertResponse, InsertResponseFails
    <2>4. RowOf(p) \in Row
      BY <2>3, RowIsRow
    <2>5. raw_body' \in SUBSET Body /\ raw_response' \in Seq(Row)
      <3>1. raw_response \in Seq(Row) /\ raw_body \in SUBSET Body /\ raw_body' = raw_body
        BY <1>12 DEF InsertResponse, InsertResponseFails, TypeOK
      <3>2. raw_response' \in {raw_response, Append(raw_response, RowOf(p))}
        BY <1>12 DEF InsertResponse, InsertResponseFails
      <3> QED
        BY <2>4, <3>1, <3>2
    <2>6. UNCHANGED <<revision, observation, superseded, at, body, todo, stored,
                      results, complete, run>>
      BY <1>12 DEF InsertResponse, InsertResponseFails
    <2>7. "obs" \in Writing /\ "row" \in Writing
      BY DEF Writing
    <2> QED
      BY <1>8, <2>1, <2>2, <2>3, <2>5, <2>6, <2>7
  (* The head of what is left to upsert.                                     *)
  <1>13. ASSUME NEW p \in Proc, pc[p] = "obs", todo[p] # <<>>
         PROVE  KeyAt(p) \in Key /\ Tail(todo[p]) \in Seq(Id)
    <2>1. at[p] <= Len(Adapters[p])
      BY <1>13 DEF TypeOK, Writing
    <2>2. todo[p] \in Seq(Id)
      BY DEF TypeOK
    <2>3. Head(todo[p]) \in Id /\ Tail(todo[p]) \in Seq(Id)
      BY <1>13, <2>2
    <2> QED
      BY <2>1, <2>3, HereIsOrigin DEF KeyAt, Key
  <1>14. ASSUME NEW p \in Proc, Upsert(p) PROVE TypeOK'
    <2>1. KeyAt(p) \in Key /\ Tail(todo[p]) \in Seq(Id)
      BY <1>13, <1>14 DEF Upsert
    <2>2. todo' \in [Proc -> Seq(Id)] /\ stored' \in [Proc -> Nat]
      BY <1>14, <2>1 DEF Upsert, TypeOK
    <2>3. observation' \in [Key -> Body \cup {None}]
      BY <1>14, <2>1 DEF Upsert, TypeOK
    <2>4. superseded' \in SUBSET (Key \X Body)
      <3>1. observation[KeyAt(p)] \in Body \cup {None}
        BY <2>1 DEF TypeOK
      <3> QED
        BY <1>14, <2>1, <3>1 DEF Upsert, TypeOK
    <2> QED
      BY <1>14, <2>2, <2>3, <2>4 DEF Upsert, TypeOK
  <1>15. ASSUME NEW p \in Proc, UpsertFails(p) PROVE TypeOK'
    <2>1. todo' \in [Proc -> Seq(Id)]
      BY <1>13, <1>15 DEF UpsertFails, TypeOK
    <2>2. faults' \in 0..MaxFaults /\ UNCHANGED <<runs, crashes>>
      BY <1>10, <1>15 DEF UpsertFails
    <2> QED
      BY <1>15, <2>1, <2>2 DEF UpsertFails, TypeOK
  <1>16. ASSUME NEW p \in Proc, Persisted(p) PROVE TypeOK'
    <2>1. at[p] <= Len(Adapters[p])
      BY <1>16 DEF Persisted, TypeOK, Writing
    <2>2. [source |-> SourceOf[Here(p)], ok |-> TRUE, body |-> body[p],
           new |-> new[p], stored |-> stored[p]] \in Result
      BY <2>1, HereIsOrigin DEF Result, TypeOK
    <2> QED
      BY <1>16, <2>2, ConcludeTypes DEF Persisted, TypeOK
  <1>17. CASE UNCHANGED vars
    BY <1>17 DEF vars, TypeOK
  <1> QED
    BY <1>1, <1>2, <1>3, <1>5, <1>7, <1>9, <1>11, <1>12, <1>14, <1>15, <1>16, <1>17
       DEF Next, Step

(* Type correctness.                                                        *)
THEOREM TypeCorrect == Spec => []TypeOK
  BY InitType, TypeStep, PTL DEF Spec

-----------------------------------------------------------------------------
(* Evidence.                                                                *)

(* What a run may rely on before each statement: the body it is about to    *)
(* name is archived, the retrieval it is about to rest an observation on is *)
(* recorded, and what it has left to store is listed there.                 *)
BackedRun(p) ==
    /\ pc[p] = "row" => body[p] \in raw_body
    /\ pc[p] = "obs" => body[p] \in raw_body /\ Retrieved(SourceOf[Here(p)], body[p])
    /\ pc[p] \in Writing \cup {"check"} =>
          \A n \in 1..Len(todo[p]) : Lists(body[p], todo[p][n])

Backed == \A p \in Proc : BackedRun(p)

EInv == TypeOK /\ Backed /\ Traceable

LEMMA ListsItsIds ==
    ASSUME NEW b \in Body
    PROVE  \A n \in 1..Len(IdsIn(b)) : Lists(b, IdsIn(b)[n])
  <1>1. DOMAIN IdsIn(b) = 1..Len(IdsIn(b))
    BY IdsAreIds
  <1> QED
    BY <1>1 DEF Lists

(* A retrieval is appended, and what was retrieved before stays retrieved.  *)
LEMMA AppendRetrieves ==
    ASSUME TypeOK, NEW r \in Row, raw_response' = Append(raw_response, r)
    PROVE  /\ \A s \in Source, b \in Body : Retrieved(s, b) => Retrieved(s, b)'
           /\ Retrieved(r.source, r.body)'
           /\ {<<raw_response[n].source, raw_response[n].body>> :
                  n \in DOMAIN raw_response}'
                = {<<raw_response[n].source, raw_response[n].body>> :
                     n \in DOMAIN raw_response} \cup {<<r.source, r.body>>}
  <1>1. raw_response \in Seq(Row)
    BY DEF TypeOK
  <1>2. /\ DOMAIN raw_response = 1..Len(raw_response)
        /\ DOMAIN raw_response' = 1..(Len(raw_response) + 1)
        /\ Len(raw_response) \in Nat
    BY <1>1
  <1>3. /\ \A n \in DOMAIN raw_response : raw_response'[n] = raw_response[n]
        /\ raw_response'[Len(raw_response) + 1] = r
    BY <1>1
  <1>4. DOMAIN raw_response' = DOMAIN raw_response \cup {Len(raw_response) + 1}
    BY <1>2
  <1>5. \A s \in Source, b \in Body : Retrieved(s, b) => Retrieved(s, b)'
    BY <1>3, <1>4 DEF Retrieved
  <1>6. Retrieved(r.source, r.body)'
    BY <1>3, <1>4 DEF Retrieved
  <1> QED
    BY <1>3, <1>4, <1>5, <1>6

(* The store never forgets: REQ-4.5's append-only tables.                   *)
LEMMA StoreGrows ==
    ASSUME TypeOK, [Next]_vars
    PROVE  /\ raw_body \subseteq raw_body'
           /\ \A s \in Source, b \in Body : Retrieved(s, b) => Retrieved(s, b)'
  <1> USE DEF store, locals, counters
  <1>1. ASSUME NEW p \in Proc, InsertResponse(p)
        PROVE  \A s \in Source, b \in Body : Retrieved(s, b) => Retrieved(s, b)'
    <2>1. CASE body[p] \in raw_body
      <3>1. raw_response' = Append(raw_response, RowOf(p))
        BY <1>1, <2>1 DEF InsertResponse
      <3> QED
        BY <1>1, <3>1, RowIsRow, AppendRetrieves DEF InsertResponse
    <2>2. CASE body[p] \notin raw_body
      BY <1>1, <2>2 DEF InsertResponse, Retrieved
    <2> QED
      BY <2>1, <2>2
  <1>2. raw_response' = raw_response \/ \E p \in Proc : InsertResponse(p)
    BY DEF Next, Step, vars, Publish, Start, FetchFails, FetchThrows, Fetch,
       FetchNoData, Answered, Conclude, Finish, CheckBody, CheckBodyFails,
       InsertBody, InsertBodyFails, InsertResponseFails, Upsert, UpsertFails,
       Persisted, Crash
  <1>3. raw_response' = raw_response =>
           \A s \in Source, b \in Body : Retrieved(s, b) => Retrieved(s, b)'
    BY DEF Retrieved
  <1>4. raw_body \subseteq raw_body'
    BY DEF Next, Step, vars, Publish, Start, FetchFails, FetchThrows, Fetch,
       FetchNoData, Answered, Conclude, Finish, CheckBody, CheckBodyFails,
       InsertBody, InsertBodyFails, InsertResponse, InsertResponseFails, Upsert,
       UpsertFails, Persisted, Crash
  <1> QED
    BY <1>1, <1>2, <1>3, <1>4

(* Nothing fails: every statement's effect is there when the next one runs. *)
LEMMA NothingFails ==
    ASSUME StatementsSucceed, TypeOK, NEW p \in Proc
    PROVE  /\ ~StatementFails(p)
           /\ ~CheckBodyFails(p)
  <1>1. ~(faults < MaxFaults)
    BY DEF StatementsSucceed, TypeOK
  <1> QED
    BY <1>1 DEF StatementsSucceed, StatementFails, Contended, CheckBodyFails

LEMMA OthersUntouched ==
    ASSUME TypeOK, NEW p \in Proc, Start(p) \/ Step(p) \/ Crash(p)
    PROVE  \A q \in Proc \ {p} :
              /\ pc'[q] = pc[q] /\ body'[q] = body[q]
              /\ at'[q] = at[q] /\ todo'[q] = todo[q]
  BY DEF TypeOK, Goto, store, locals, counters, Step, Start, FetchFails, FetchThrows,
     Fetch, FetchNoData, Answered, Conclude, Finish, CheckBody, CheckBodyFails,
     InsertBody, InsertBodyFails, InsertResponse, InsertResponseFails, Upsert,
     UpsertFails, Persisted, Crash

LEMMA BackedStep ==
    ASSUME StatementsSucceed, EInv, [Next]_vars
    PROVE  Backed'
  <1> USE DEF EInv, Backed
  <1>1. /\ raw_body \subseteq raw_body'
        /\ \A s \in Source, b \in Body : Retrieved(s, b) => Retrieved(s, b)'
    BY StoreGrows
  (* The others rely on what is still there.                                *)
  <1>2. ASSUME NEW q \in Proc, pc'[q] = pc[q], body'[q] = body[q], at'[q] = at[q],
               todo'[q] = todo[q]
        PROVE  BackedRun(q)'
    <2>1. BackedRun(q) /\ body[q] \in Body
      BY DEF TypeOK
    <2>2. ASSUME pc[q] = "obs"
          PROVE  Retrieved(SourceOf[Here(q)], body[q])' /\ Here(q)' = Here(q)
      <3>1. at[q] <= Len(Adapters[q])
        BY <2>2 DEF TypeOK, Writing
      <3>2. SourceOf[Here(q)] \in Source
        BY <3>1, HereIsOrigin
      <3>3. Here(q)' = Here(q)
        BY <1>2 DEF Here
      <3>4. Retrieved(SourceOf[Here(q)], body[q])
        BY <2>1, <2>2 DEF BackedRun
      <3> QED
        BY <1>1, <1>2, <2>1, <3>2, <3>3, <3>4 DEF Retrieved
    <2>3. /\ pc'[q] = "row" => body'[q] \in raw_body'
          /\ pc'[q] = "obs" => body'[q] \in raw_body'
      BY <1>1, <1>2, <2>1 DEF BackedRun
    <2>4. pc'[q] \in Writing \cup {"check"} =>
            \A n \in 1..Len(todo'[q]) : Lists(body'[q], todo'[q][n])
      BY <1>2, <2>1 DEF BackedRun
    <2> QED
      BY <1>2, <2>2, <2>3, <2>4 DEF BackedRun
  <1>3. CASE UNCHANGED vars
    BY <1>2, <1>3 DEF vars, locals
  <1>4. ASSUME NEW o \in Origin, Publish(o) PROVE Backed'
    BY <1>2, <1>4 DEF Publish, locals
  <1>5. ASSUME NEW p \in Proc, Start(p) \/ Step(p) \/ Crash(p) PROVE Backed'
    <2> USE DEF store, locals, counters, Goto
    <2>1. ASSUME NEW q \in Proc \ {p} PROVE BackedRun(q)'
      BY <1>2, <1>5, <2>1, OthersUntouched
    <2>2. BackedRun(p)'
      <3>0. BackedRun(p) /\ pc \in [Proc -> Running \cup {"idle", "done", "aborted"}]
        BY DEF TypeOK
      <3>1. ASSUME pc'[p] \notin Writing \cup {"check"} PROVE BackedRun(p)'
        BY <3>1 DEF BackedRun, Writing
      <3>2. CASE Start(p) \/ FetchFails(p) \/ FetchThrows(p) \/ Finish(p)
                   \/ Persisted(p) \/ Crash(p)
        <4>1. pc'[p] \in {"fetch", "done", "aborted", "idle"}
          BY <3>0, <3>2 DEF Start, FetchFails, FetchThrows, Finish, Persisted,
             Conclude, Crash
        <4> QED
          BY <3>1, <4>1 DEF Writing
      <3>3. ASSUME NEW b \in Body, Answered(p, b) PROVE BackedRun(p)'
        <4>1. pc'[p] = "check" /\ body'[p] = b /\ todo'[p] = IdsIn(b)
          BY <3>3 DEF Answered, TypeOK
        <4> QED
          BY <4>1, ListsItsIds DEF BackedRun, Lists
      <3>4. CASE Fetch(p) \/ FetchNoData(p)
        <4>1. CASE Fetch(p)
          <5>1. Here(p) \in Origin
            BY <4>1, HereIsOrigin DEF Fetch
          <5>2. <<Here(p), revision[Here(p)]>> \in Body
            BY <5>1, PublishedIsBody DEF TypeOK
          <5> QED
            BY <3>3, <4>1, <5>2 DEF Fetch
        <4>2. CASE FetchNoData(p)
          BY <3>3, <4>2 DEF FetchNoData, Body
        <4> QED
          BY <3>4, <4>1, <4>2
      <3>5. CASE CheckBody(p)
        <4>1. /\ pc[p] = "check" /\ body' = body /\ todo' = todo /\ raw_body' = raw_body
              /\ pc'[p] = IF body[p] \in raw_body THEN "row" ELSE "body"
          BY <3>0, <3>5 DEF CheckBody
        <4> QED
          BY <3>0, <4>1 DEF BackedRun, Lists, Writing
      <3>6. CASE InsertBody(p)
        <4>1. /\ pc[p] = "body" /\ body' = body /\ todo' = todo
              /\ body[p] \in raw_body' /\ pc'[p] = "row"
          BY <3>0, <3>6 DEF InsertBody
        <4> QED
          BY <3>0, <4>1 DEF BackedRun, Lists, Writing
      <3>7. CASE InsertResponse(p)
        <4>1. /\ pc[p] = "row" /\ body' = body /\ todo' = todo /\ raw_body' = raw_body
              /\ at' = at /\ pc'[p] = "obs"
          BY <3>0, <3>7 DEF InsertResponse
        <4>2. body[p] \in raw_body
          BY <3>0, <4>1 DEF BackedRun
        <4>3. RowOf(p) \in Row /\ raw_response' = Append(raw_response, RowOf(p))
          BY <3>7, <4>1, <4>2, RowIsRow DEF InsertResponse
        <4>4. Retrieved(RowOf(p).source, RowOf(p).body)'
          BY <4>3, AppendRetrieves, <4>1 DEF RowOf, Here, Retrieved
        <4>5. Retrieved(SourceOf[Here(p)], body[p])'
          BY <4>1, <4>4 DEF RowOf, Here, Retrieved
        <4> QED
          BY <3>0, <4>1, <4>2, <4>5 DEF BackedRun, Lists, Writing
      <3>8. CASE Upsert(p)
        <4>1. /\ pc[p] = "obs" /\ pc' = pc /\ body' = body /\ raw_body' = raw_body
              /\ at' = at /\ raw_response' = raw_response
          BY <3>8 DEF Upsert
        <4>2. todo[p] \in Seq(Id) /\ todo[p] # <<>> /\ todo'[p] = Tail(todo[p])
          BY <3>8 DEF Upsert, TypeOK
        <4>3. \A n \in 1..Len(todo'[p]) :
                 n + 1 \in 1..Len(todo[p]) /\ todo'[p][n] = todo[p][n + 1]
          BY <4>2
        <4>4. \A n \in 1..Len(todo'[p]) : Lists(body[p], todo'[p][n])
          BY <3>0, <4>1, <4>3 DEF BackedRun, Writing
        <4> QED
          BY <3>0, <4>1, <4>4 DEF BackedRun, Lists, Retrieved, Here, Writing
      <3>9. CASE CheckBodyFails(p) \/ InsertBodyFails(p) \/ InsertResponseFails(p)
                   \/ UpsertFails(p)
        BY <3>9, NothingFails DEF InsertBodyFails, InsertResponseFails, UpsertFails
      <3> QED
        BY <1>5, <3>2, <3>4, <3>5, <3>6, <3>7, <3>8, <3>9 DEF Step
    <2> QED
      BY <2>1, <2>2
  <1> QED
    BY <1>3, <1>4, <1>5 DEF Next

(* Only an upsert changes the observations, and what it changes.            *)
LEMMA CatalogStep ==
    ASSUME TypeOK, [Next]_vars
    PROVE  \/ UNCHANGED <<observation, superseded>>
           \/ \E p \in Proc : Upsert(p)
  BY DEF Next, Step, vars, store, Publish, Start, FetchFails, FetchThrows, Fetch,
     FetchNoData, Answered, Conclude, Finish, CheckBody, CheckBodyFails, InsertBody,
     InsertBodyFails, InsertResponse, InsertResponseFails, UpsertFails, Persisted,
     Crash

(* What an upsert stores, and where.                                        *)
LEMMA UpsertAdopts ==
    ASSUME EInv, NEW p \in Proc, Upsert(p)
    PROVE  /\ SourceOf[Here(p)] \in Source /\ Head(todo[p]) \in Id
           /\ KeyAt(p) = <<SourceOf[Here(p)], Head(todo[p])>> /\ KeyAt(p) \in Key
           /\ body[p] \in Body /\ body[p] \in raw_body
           /\ Retrieved(SourceOf[Here(p)], body[p])
           /\ Lists(body[p], Head(todo[p]))
           /\ observation' = [observation EXCEPT ![KeyAt(p)] = body[p]]
  <1> USE DEF EInv
  <1>1. pc[p] = "obs" /\ todo[p] # <<>>
    BY DEF Upsert
  <1>2. todo[p] \in Seq(Id) /\ body[p] \in Body /\ at[p] <= Len(Adapters[p])
    BY <1>1 DEF TypeOK, Writing
  <1>3. Head(todo[p]) \in Id /\ 1 \in 1..Len(todo[p]) /\ Head(todo[p]) = todo[p][1]
    BY <1>1, <1>2
  <1>4. SourceOf[Here(p)] \in Source
    BY <1>2, HereIsOrigin
  <1>5. BackedRun(p)
    BY DEF Backed
  <1>6. /\ body[p] \in raw_body /\ Retrieved(SourceOf[Here(p)], body[p])
        /\ Lists(body[p], Head(todo[p]))
    BY <1>1, <1>3, <1>5 DEF BackedRun, Writing
  <1>7. /\ KeyAt(p) = <<SourceOf[Here(p)], Head(todo[p])>>
        /\ KeyAt(p) \in Key
    BY <1>3, <1>4 DEF KeyAt, Key
  <1> QED
    BY <1>2, <1>3, <1>4, <1>6, <1>7 DEF Upsert

LEMMA TraceableStep ==
    ASSUME StatementsSucceed, EInv, [Next]_vars
    PROVE  Traceable'
  <1> USE DEF EInv
  <1>1. /\ raw_body \subseteq raw_body'
        /\ \A s \in Source, b \in Body : Retrieved(s, b) => Retrieved(s, b)'
    BY StoreGrows
  <1>2. /\ observation \in [Key -> Body \cup {None}]
        /\ superseded \in SUBSET (Key \X Body)
    BY DEF TypeOK
  (* What was traceable stays so.                                           *)
  <1>3. ASSUME NEW k \in Key, NEW b \in Body, b \in raw_body, Retrieved(k[1], b)
        PROVE  b \in raw_body' /\ Retrieved(k[1], b)'
    <2>1. k[1] \in Source
      BY DEF Key
    <2> QED
      BY <1>1, <1>3, <2>1
  <1>4. ASSUME NEW k \in Key, observation[k] # None
        PROVE  /\ observation[k] \in Body /\ observation[k] \in raw_body'
               /\ \A b \in Body : b = observation[k] => Retrieved(k[1], b)'
    <2>1. observation[k] \in Body
      BY <1>2, <1>4
    <2>2. observation[k] \in raw_body /\ Retrieved(k[1], observation[k])
      BY <1>4 DEF Traceable
    <2>3. PICK b \in Body : b = observation[k]
      BY <2>1
    <2>4. b \in raw_body' /\ Retrieved(k[1], b)'
      BY <1>3, <2>2, <2>3
    <2> QED
      BY <2>1, <2>3, <2>4
  <1>5. ASSUME NEW s \in superseded
        PROVE  s[2] \in raw_body' /\ \A b \in Body : b = s[2] => Retrieved(s[1][1], b)'
    <2>1. s[1] \in Key /\ s[2] \in Body
      BY <1>2
    <2>2. s[2] \in raw_body /\ Retrieved(s[1][1], s[2])
      BY DEF Traceable
    <2>3. PICK b \in Body : b = s[2]
      BY <2>1
    <2>4. b \in raw_body' /\ Retrieved(s[1][1], b)'
      BY <1>3, <2>1, <2>2, <2>3
    <2> QED
      BY <2>1, <2>3, <2>4
  <1>6. CASE UNCHANGED <<observation, superseded>>
    BY <1>2, <1>4, <1>5, <1>6 DEF Traceable, Retrieved
  <1>7. ASSUME NEW p \in Proc, Upsert(p) PROVE Traceable'
    <2>1. /\ KeyAt(p) \in Key /\ KeyAt(p)[1] = SourceOf[Here(p)]
          /\ body[p] \in Body /\ body[p] \in raw_body
          /\ Retrieved(SourceOf[Here(p)], body[p])
          /\ observation' = [observation EXCEPT ![KeyAt(p)] = body[p]]
      BY <1>7, UpsertAdopts
    <2>2. body[p] \in raw_body' /\ raw_response' = raw_response
      BY <1>7, <2>1 DEF Upsert
    <2>3. ASSUME NEW k \in Key, observation'[k] # None
          PROVE  observation'[k] \in raw_body' /\ Retrieved(k[1], observation[k])'
      <3>1. CASE k = KeyAt(p)
        <4>1. observation'[k] = body[p] /\ k[1] = SourceOf[Here(p)]
          BY <1>2, <2>1, <3>1
        <4> QED
          BY <2>1, <2>2, <4>1 DEF Retrieved
      <3>2. CASE k # KeyAt(p)
        <4>1. observation'[k] = observation[k]
          BY <1>2, <2>1, <3>2
        <4> QED
          BY <1>4, <2>2, <2>3, <4>1 DEF Retrieved
      <3> QED
        BY <3>1, <3>2
    <2>4. ASSUME NEW s \in superseded'
          PROVE  s[2] \in raw_body' /\ Retrieved(s[1][1], s[2])'
      <3>1. CASE s \in superseded
        <4>1. raw_response' = raw_response
          BY <1>7 DEF Upsert
        <4> QED
          BY <1>2, <1>5, <3>1, <4>1 DEF Retrieved
      <3>2. CASE s \notin superseded
        <4>1. /\ s = <<KeyAt(p), observation[KeyAt(p)]>>
              /\ observation[KeyAt(p)] # None
          BY <1>7, <2>4, <3>2 DEF Upsert
        <4>2. observation[KeyAt(p)] \in Body /\ raw_response' = raw_response
          BY <1>4, <1>7, <2>1, <4>1 DEF Upsert
        <4> QED
          BY <1>4, <2>1, <4>1, <4>2 DEF Retrieved
      <3> QED
        BY <3>1, <3>2
    <2> QED
      BY <2>3, <2>4 DEF Traceable
  <1> QED
    BY <1>6, <1>7, CatalogStep

LEMMA InitEInv == Init => EInv
  <1> SUFFICES ASSUME Init PROVE EInv
    OBVIOUS
  <1>1. Backed
    BY DEF Init, Backed, BackedRun, Writing
  <1>2. Traceable
    BY DEF Init, Traceable
  <1> QED
    BY <1>1, <1>2, InitType DEF EInv

LEMMA EvidenceInductive == StatementsSucceed => (Spec => []EInv)
  <1> SUFFICES ASSUME StatementsSucceed PROVE Spec => []EInv
    OBVIOUS
  <1>1. EInv /\ [Next]_vars => EInv'
    BY TypeStep, BackedStep, TraceableStep DEF EInv
  <1> QED
    BY <1>1, InitEInv, PTL DEF Spec

(* Whatever the runs' statements interleave with, and wherever runs are      *)
(* killed, every value the observation table holds or held was read from an  *)
(* archived body that a recorded retrieval of its own source names.          *)
THEOREM EvidenceAlways == StatementsSucceed => (Spec => []Traceable)
  <1>1. EInv => Traceable
    BY DEF EInv
  <1> QED
    BY <1>1, EvidenceInductive, PTL

-----------------------------------------------------------------------------
(* The store implements Provenance.                                         *)

LEMMA InitRefines == Init => Evidence!Init
  BY DEF Init, Evidence!Init, Key

LEMMA StepRefines ==
    ASSUME StatementsSucceed, EInv, [Next]_vars
    PROVE  [Evidence!Next]_(Evidence!vars)
  <1> USE DEF EInv
  <1>1. ASSUME NEW p \in Proc, InsertBody(p) PROVE Evidence!Next
    <2>1. body[p] \in Body
      BY DEF TypeOK
    <2>2. Evidence!Archive(body[p])
      BY <1>1 DEF InsertBody, Evidence!Archive
    <2> QED
      BY <2>1, <2>2 DEF Evidence!Next
  <1>2. ASSUME NEW p \in Proc, InsertResponse(p) PROVE Evidence!Next
    <2>1. pc[p] = "row" /\ BackedRun(p) /\ UNCHANGED <<raw_body, observation>>
      BY <1>2 DEF InsertResponse, Backed
    <2>2. body[p] \in Body /\ body[p] \in raw_body
      BY <2>1 DEF TypeOK, BackedRun
    <2>3. RowOf(p) \in Row /\ raw_response' = Append(raw_response, RowOf(p))
      BY <1>2, <2>1, <2>2, RowIsRow DEF InsertResponse
    <2>4. SourceOf[Here(p)] \in Source
      BY <2>3 DEF Row, RowOf
    <2>5. {<<raw_response[n].source, raw_response[n].body>> : n \in DOMAIN raw_response}'
            = {<<raw_response[n].source, raw_response[n].body>> :
                 n \in DOMAIN raw_response} \cup {<<SourceOf[Here(p)], body[p]>>}
      BY <2>3, AppendRetrieves DEF RowOf
    <2>6. PICK s \in Source, b \in Body : s = SourceOf[Here(p)] /\ b = body[p]
      BY <2>2, <2>4
    <2>7. Evidence!Record(s, b)
      BY <2>1, <2>2, <2>5, <2>6 DEF Evidence!Record
    <2> QED
      BY <2>7 DEF Evidence!Next
  <1>3. ASSUME NEW p \in Proc, Upsert(p) PROVE Evidence!Next
    <2>1. /\ SourceOf[Here(p)] \in Source /\ Head(todo[p]) \in Id
          /\ KeyAt(p) = <<SourceOf[Here(p)], Head(todo[p])>>
          /\ body[p] \in Body
          /\ Retrieved(SourceOf[Here(p)], body[p])
          /\ Lists(body[p], Head(todo[p]))
          /\ observation' = [observation EXCEPT ![KeyAt(p)] = body[p]]
      BY <1>3, UpsertAdopts
    <2>2. Evidence!Adopt(SourceOf[Here(p)], Head(todo[p]), body[p])
      BY <1>3, <2>1 DEF Evidence!Adopt, Retrieved, Upsert
    <2> QED
      BY <2>1, <2>2 DEF Evidence!Next
  <1>4. ASSUME UNCHANGED <<raw_body, raw_response, observation>>
        PROVE  UNCHANGED Evidence!vars
    BY <1>4 DEF Evidence!vars
  <1>5. \/ UNCHANGED <<raw_body, raw_response, observation>>
        \/ \E p \in Proc : InsertBody(p) \/ InsertResponse(p) \/ Upsert(p)
    BY DEF Next, Step, vars, store, Publish, Start, FetchFails, FetchThrows, Fetch,
       FetchNoData, Answered, Conclude, Finish, CheckBody, CheckBodyFails,
       InsertBodyFails, InsertResponseFails, UpsertFails, Persisted, Crash
  <1> QED
    BY <1>1, <1>2, <1>3, <1>4, <1>5

(* The runs, interleaved and killed as they may be, implement the abstract   *)
(* promise: evidence accumulates, and comes before what rests on it.         *)
THEOREM ProvenanceKept == StatementsSucceed => (Spec => KeepsEvidence)
  <1> SUFFICES ASSUME StatementsSucceed PROVE Spec => KeepsEvidence
    OBVIOUS
  <1>1. EInv /\ [Next]_vars => [Evidence!Next]_(Evidence!vars)
    BY StepRefines
  <1> QED
    BY <1>1, InitRefines, EvidenceInductive, PTL DEF Spec, KeepsEvidence, Evidence!Spec

-----------------------------------------------------------------------------
(* The report of a run.                                                     *)

(* rows, the retrievals, have one of source s, body b and run n.            *)
RowFor(rows, s, b, n) ==
    \E m \in DOMAIN rows : rows[m] = [source |-> s, body |-> b, run |-> n]

(* What the report says so far of each source it names as retrieved.        *)
Told(p) ==
    \A n \in DOMAIN results[p] :
        results[p][n].ok =>
            /\ results[p][n].body \in raw_body
            /\ results[p][n].stored = Len(IdsIn(results[p][n].body))
            /\ RowFor(raw_response, results[p][n].source, results[p][n].body, run[p])

(* What it will say of the source at hand.                                  *)
AtHand(p) ==
    /\ pc[p] \in Writing \cup {"check"} => stored[p] + Len(todo[p]) = Len(IdsIn(body[p]))
    /\ pc[p] = "obs" => RowFor(raw_response, SourceOf[Here(p)], body[p], run[p])

Covers(p) ==
    /\ complete[p] <=> \A n \in DOMAIN results[p] : results[p][n].ok
    /\ at[p] <= Len(Adapters[p]) + 1
    /\ pc[p] = "done" => at[p] = Len(Adapters[p]) + 1

Truthful(p) == Told(p) /\ AtHand(p) /\ Covers(p)

RInv == EInv /\ \A p \in Proc : Truthful(p)

LEMMA AdaptersCounted ==
    ASSUME NEW p \in Proc
    PROVE  Len(Adapters[p]) \in Nat
  <1>1. Adapters[p] \in Seq(Origin)
    BY OriginAssumption
  <1> QED
    BY <1>1

LEMMA AppendMeans ==
    ASSUME NEW S, NEW s \in Seq(S), NEW r \in S
    PROVE  /\ DOMAIN Append(s, r) = DOMAIN s \cup {Len(s) + 1}
           /\ \A n \in DOMAIN s : Append(s, r)[n] = s[n]
           /\ Append(s, r)[Len(s) + 1] = r
  <1>1. DOMAIN s = 1..Len(s) /\ Len(s) \in Nat /\ DOMAIN Append(s, r) = 1..(Len(s) + 1)
    OBVIOUS
  <1>2. 1..(Len(s) + 1) = 1..Len(s) \cup {Len(s) + 1}
    BY <1>1
  <1>3. \A n \in DOMAIN s : Append(s, r)[n] = s[n]
    BY <1>1
  <1>4. Append(s, r)[Len(s) + 1] = r
    OBVIOUS
  <1> QED
    BY <1>1, <1>2, <1>3, <1>4

(* A retrieval, once recorded, keeps its run.                               *)
LEMMA RowsKept ==
    ASSUME TypeOK, [Next]_vars
    PROVE  /\ raw_body \subseteq raw_body'
           /\ \A s, b, n : RowFor(raw_response, s, b, n) => RowFor(raw_response', s, b, n)
  <1>1. raw_body \subseteq raw_body'
    BY StoreGrows
  <1>2. CASE raw_response' = raw_response
    BY <1>1, <1>2
  <1>3. ASSUME NEW p \in Proc, InsertResponse(p), body[p] \in raw_body
        PROVE  \A s, b, n : RowFor(raw_response, s, b, n) => RowFor(raw_response', s, b, n)
    <2>1. raw_response \in Seq(Row) /\ RowOf(p) \in Row
      BY <1>3, RowIsRow DEF TypeOK, InsertResponse
    <2>2. raw_response' = Append(raw_response, RowOf(p))
      BY <1>3 DEF InsertResponse
    <2>3. \A m \in DOMAIN raw_response :
             m \in DOMAIN raw_response' /\ raw_response'[m] = raw_response[m]
      BY <2>1, <2>2, AppendMeans
    <2> QED
      BY <2>3 DEF RowFor
  <1>4. \/ raw_response' = raw_response
        \/ \E p \in Proc : InsertResponse(p) /\ body[p] \in raw_body
    BY DEF Next, Step, vars, store, Publish, Start, FetchFails, FetchThrows, Fetch,
       FetchNoData, Answered, Conclude, Finish, CheckBody, CheckBodyFails,
       InsertBody, InsertBodyFails, InsertResponse, InsertResponseFails, Upsert,
       UpsertFails, Persisted, Crash
  <1> QED
    BY <1>1, <1>2, <1>3, <1>4

LEMMA OthersReport ==
    ASSUME TypeOK, NEW p \in Proc, Start(p) \/ Step(p) \/ Crash(p)
    PROVE  \A q \in Proc \ {p} :
              /\ stored'[q] = stored[q] /\ results'[q] = results[q]
              /\ complete'[q] = complete[q] /\ run'[q] = run[q]
  BY DEF TypeOK, Goto, store, locals, counters, Step, Start, FetchFails, FetchThrows,
     Fetch, FetchNoData, Answered, Conclude, Finish, CheckBody, CheckBodyFails,
     InsertBody, InsertBodyFails, InsertResponse, InsertResponseFails, Upsert,
     UpsertFails, Persisted, Crash

(* The store's growth spoils no report.                                     *)
LEMMA ToldKept ==
    ASSUME TypeOK, [Next]_vars, NEW q \in Proc, Told(q),
           results'[q] = results[q], run'[q] = run[q]
    PROVE  Told(q)'
  <1>1. raw_body \subseteq raw_body' /\ results'[q] = results[q] /\ run'[q] = run[q]
    BY RowsKept
  <1>2. ASSUME NEW n \in DOMAIN results[q], results[q][n].ok
        PROVE  /\ results[q][n].body \in raw_body'
               /\ results[q][n].stored = Len(IdsIn(results[q][n].body))
               /\ RowFor(raw_response', results[q][n].source, results[q][n].body, run[q])
    BY <1>1, <1>2, RowsKept DEF Told
  <1> QED
    BY <1>1, <1>2 DEF Told

LEMMA TruthfulKept ==
    ASSUME TypeOK, [Next]_vars, NEW q \in Proc, Truthful(q),
           pc'[q] = pc[q], body'[q] = body[q], at'[q] = at[q], todo'[q] = todo[q],
           stored'[q] = stored[q], results'[q] = results[q],
           complete'[q] = complete[q], run'[q] = run[q]
    PROVE  Truthful(q)'
  <1>1. Told(q)'
    BY ToldKept DEF Truthful
  <1>2. AtHand(q)'
    <2>1. Here(q)' = Here(q)
      BY DEF Here
    <2>2. pc[q] = "obs" => RowFor(raw_response', SourceOf[Here(q)], body[q], run[q])
      BY RowsKept DEF Truthful, AtHand
    <2> QED
      BY <2>1, <2>2 DEF Truthful, AtHand
  <1>3. Covers(q)'
    BY DEF Truthful, Covers
  <1> QED
    BY <1>1, <1>2, <1>3 DEF Truthful

(* Between statements: the store changes, the run's own records do not.     *)
LEMMA ReportKept ==
    ASSUME TypeOK, [Next]_vars, NEW p \in Proc, Truthful(p),
           results'[p] = results[p], run'[p] = run[p], complete'[p] = complete[p],
           at'[p] = at[p], pc'[p] # "done"
    PROVE  Told(p)' /\ Covers(p)'
  BY ToldKept DEF Truthful, Covers

(* A source's result joins the report.                                      *)
LEMMA ConcludeTells ==
    ASSUME TypeOK, [Next]_vars, NEW p \in Proc, Truthful(p), NEW r \in Result,
           at[p] <= Len(Adapters[p]),
           Conclude(p, r), run'[p] = run[p],
           complete'[p] = (complete[p] /\ r.ok),
           r.ok => /\ r.body \in raw_body
                   /\ r.stored = Len(IdsIn(r.body))
                   /\ RowFor(raw_response, r.source, r.body, run[p])
    PROVE  Truthful(p)'
  <1>1. /\ results[p] \in Seq(Result) /\ results'[p] = Append(results[p], r)
        /\ at[p] \in Nat /\ at'[p] = at[p] + 1 /\ pc'[p] = "fetch"
    BY DEF TypeOK, Conclude, Goto
  <1> DEFINE L == Len(results[p]) + 1
  <1>2. /\ DOMAIN results'[p] = DOMAIN results[p] \cup {L}
        /\ \A n \in DOMAIN results[p] : results'[p][n] = results[p][n]
        /\ results'[p][L] = r
    BY <1>1, AppendMeans
  <1> HIDE DEF L
  <1>3. /\ raw_body \subseteq raw_body'
        /\ \A s, b, n : RowFor(raw_response, s, b, n) => RowFor(raw_response', s, b, n)
    BY RowsKept
  <1>4. ASSUME NEW n \in DOMAIN results'[p], results'[p][n].ok
        PROVE  /\ results'[p][n].body \in raw_body'
               /\ results'[p][n].stored = Len(IdsIn(results'[p][n].body))
               /\ RowFor(raw_response', results'[p][n].source, results'[p][n].body, run[p])
    <2>1. CASE n = L
      BY <1>2, <1>3, <1>4, <2>1
    <2>2. CASE n \in DOMAIN results[p]
      <3>1. results'[p][n] = results[p][n] /\ results[p][n].ok
        BY <1>2, <1>4, <2>2
      <3>2. /\ results[p][n].body \in raw_body
            /\ results[p][n].stored = Len(IdsIn(results[p][n].body))
            /\ RowFor(raw_response, results[p][n].source, results[p][n].body, run[p])
        BY <2>2, <3>1 DEF Truthful, Told
      <3> QED
        BY <1>3, <3>1, <3>2
    <2> QED
      BY <1>2, <1>4, <2>1, <2>2
  <1>5. Told(p)'
    BY <1>4 DEF Told
  <1>6. AtHand(p)'
    BY <1>1 DEF AtHand, Writing
  <1>7. Covers(p)'
    <2>1. (\A n \in DOMAIN results'[p] : results'[p][n].ok) <=>
             (\A n \in DOMAIN results[p] : results[p][n].ok) /\ r.ok
      BY <1>2
    <2>2. complete'[p] <=> \A n \in DOMAIN results'[p] : results'[p][n].ok
      BY <2>1 DEF Truthful, Covers
    <2>3. at'[p] <= Len(Adapters[p]) + 1
      <3>1. Len(Adapters[p]) \in Nat
        BY AdaptersCounted
      <3> QED
        BY <1>1, <3>1
    <2> QED
      BY <1>1, <2>2, <2>3 DEF Covers
  <1> QED
    BY <1>5, <1>6, <1>7 DEF Truthful

LEMMA TruthfulStep ==
    ASSUME StatementsSucceed, RInv, [Next]_vars, NEW p \in Proc,
           Start(p) \/ Step(p) \/ Crash(p)
    PROVE  Truthful(p)'
  <1> USE DEF store, locals, counters, Goto
  <1>1. /\ TypeOK /\ BackedRun(p) /\ Truthful(p)
        /\ pc \in [Proc -> Running \cup {"idle", "done", "aborted"}]
        /\ at[p] \in Nat /\ Len(Adapters[p]) \in Nat
    <2>1. TypeOK /\ BackedRun(p) /\ Truthful(p)
      BY DEF RInv, EInv, Backed
    <2> QED
      BY <2>1, AdaptersCounted DEF TypeOK
  <1>2. CASE Start(p)
    <2>1. /\ pc'[p] = "fetch" /\ at'[p] = 1 /\ results'[p] = <<>> /\ complete'[p] = TRUE
      BY <1>1, <1>2 DEF Start, TypeOK
    <2> QED
      BY <1>1, <2>1 DEF Truthful, Told, AtHand, Covers, Writing
  <1>3. CASE FetchFails(p)
    <2> DEFINE r == [source |-> SourceOf[Here(p)], ok |-> FALSE, body |-> None,
                     new |-> TRUE, stored |-> 0]
    <2>1. /\ at[p] <= Len(Adapters[p]) /\ Conclude(p, r) /\ run' = run
          /\ complete'[p] = FALSE
      BY <1>1, <1>3 DEF FetchFails, TypeOK
    <2>2. r \in Result /\ r.ok = FALSE
      BY <1>1, <2>1, HereIsOrigin DEF Result
    <2> HIDE DEF r
    <2>3. complete'[p] = (complete[p] /\ r.ok)
      BY <2>1, <2>2
    <2> QED
      BY <1>1, <2>1, <2>2, <2>3, ConcludeTells
  <1>4. CASE FetchThrows(p) \/ Crash(p)
    <2>1. pc'[p] \in {"aborted", "idle"} /\ UNCHANGED locals
      BY <1>1, <1>4 DEF FetchThrows, Crash
    <2> QED
      BY <1>1, <2>1, ReportKept DEF Truthful, AtHand, Writing
  <1>5. CASE Fetch(p) \/ FetchNoData(p)
    <2>1. PICK b : Answered(p, b) /\ UNCHANGED <<at, results, complete, run>>
      BY <1>5 DEF Fetch, FetchNoData
    <2>2. pc'[p] = "check" /\ stored'[p] = 0 /\ todo'[p] = IdsIn(body'[p])
      <3>1. body \in [Proc -> Body] /\ todo \in [Proc -> Seq(Id)] /\ stored \in [Proc -> Nat]
        BY <1>1 DEF TypeOK
      <3>2. body'[p] = b /\ todo'[p] = IdsIn(b) /\ stored'[p] = 0 /\ pc'[p] = "check"
        BY <1>1, <2>1, <3>1 DEF Answered
      <3> QED
        BY <3>2
    <2>3. body'[p] \in Body
      <3>1. TypeOK'
        BY <1>1, TypeStep
      <3> QED
        BY <3>1 DEF TypeOK
    <2>4. Len(IdsIn(body'[p])) \in Nat
      BY <2>3, IdsAreIds
    <2>5. Told(p)' /\ Covers(p)'
      BY <1>1, <2>1, <2>2, ReportKept
    <2> QED
      BY <2>2, <2>4, <2>5 DEF Truthful, AtHand
  <1>6. CASE Finish(p)
    <2>1. pc'[p] = "done" /\ UNCHANGED locals /\ at[p] > Len(Adapters[p])
      BY <1>1, <1>6 DEF Finish
    <2>2. at[p] = Len(Adapters[p]) + 1
      BY <1>1, <2>1 DEF Truthful, Covers
    <2> QED
      BY <1>1, <2>1, <2>2, ToldKept DEF Truthful, AtHand, Covers, Writing
  <1>7. CASE CheckBody(p)
    <2>1. /\ pc[p] = "check" /\ pc'[p] \in {"body", "row"}
          /\ UNCHANGED <<at, body, todo, stored, results, complete, run>>
      BY <1>1, <1>7 DEF CheckBody
    <2> QED
      BY <1>1, <2>1, ReportKept DEF Truthful, AtHand, Writing
  <1>8. CASE InsertBody(p)
    <2>1. pc[p] = "body" /\ pc'[p] = "row" /\ UNCHANGED locals
      BY <1>1, <1>8 DEF InsertBody
    <2> QED
      BY <1>1, <2>1, ReportKept DEF Truthful, AtHand, Writing
  <1>9. CASE InsertResponse(p)
    <2>1. pc[p] = "row" /\ pc'[p] = "obs" /\ UNCHANGED locals
      BY <1>1, <1>9 DEF InsertResponse
    <2>2. raw_response' = Append(raw_response, RowOf(p))
      BY <1>1, <1>9, <2>1 DEF InsertResponse, BackedRun
    <2>3. raw_response \in Seq(Row) /\ RowOf(p) \in Row
      BY <1>1, <2>1, RowIsRow DEF TypeOK
    <2>4. /\ Len(raw_response) + 1 \in DOMAIN raw_response'
          /\ raw_response'[Len(raw_response) + 1] = RowOf(p)
      BY <2>2, <2>3, AppendMeans
    <2>5. RowFor(raw_response', SourceOf[Here(p)], body[p], run[p])
      BY <2>4 DEF RowFor, RowOf
    <2>6. Here(p)' = Here(p) /\ body' = body /\ run' = run
      BY <2>1 DEF Here
    <2> QED
      BY <1>1, <2>1, <2>5, <2>6, ReportKept DEF Truthful, AtHand, Writing
  <1>10. CASE Upsert(p)
    <2>1. /\ pc[p] = "obs" /\ pc' = pc /\ todo[p] # <<>>
          /\ UNCHANGED <<raw_response, at, body, results, complete, run>>
          /\ stored'[p] = stored[p] + 1 /\ todo'[p] = Tail(todo[p])
      BY <1>1, <1>10 DEF Upsert, TypeOK
    <2>2. todo[p] \in Seq(Id) /\ stored[p] \in Nat
      BY <1>1 DEF TypeOK
    <2>3. stored'[p] + Len(todo'[p]) = stored[p] + Len(todo[p])
      BY <2>1, <2>2
    <2>4. Here(p)' = Here(p)
      BY <2>1 DEF Here
    <2> QED
      BY <1>1, <2>1, <2>3, <2>4, ReportKept DEF Truthful, AtHand
  <1>11. CASE Persisted(p)
    <2> DEFINE r == [source |-> SourceOf[Here(p)], ok |-> TRUE, body |-> body[p],
                     new |-> new[p], stored |-> stored[p]]
    <2>1. /\ pc[p] = "obs" /\ todo[p] = <<>> /\ Conclude(p, r)
          /\ run' = run /\ complete' = complete
      BY <1>11 DEF Persisted
    <2>2. at[p] <= Len(Adapters[p])
      BY <1>1, <2>1 DEF TypeOK, Writing
    <2>3. body[p] \in Body /\ new[p] \in BOOLEAN /\ stored[p] \in Nat
      BY <1>1 DEF TypeOK
    <2>4. /\ r \in Result /\ r.ok = TRUE /\ r.source = SourceOf[Here(p)]
          /\ r.body = body[p] /\ r.stored = stored[p]
      BY <1>1, <2>2, <2>3, HereIsOrigin DEF Result
    <2> HIDE DEF r
    <2>5. stored[p] + Len(<<>>) = Len(IdsIn(body[p])) /\ Len(<<>>) = 0
      BY <1>1, <2>1 DEF Truthful, AtHand, Writing
    <2>6. r.body \in raw_body /\ r.stored = Len(IdsIn(r.body))
      BY <1>1, <2>1, <2>3, <2>4, <2>5 DEF BackedRun
    <2>7. RowFor(raw_response, r.source, r.body, run[p])
      BY <1>1, <2>1, <2>4 DEF Truthful, AtHand
    <2>8. complete'[p] = (complete[p] /\ r.ok) /\ run'[p] = run[p]
      <3>1. complete[p] \in BOOLEAN
        BY <1>1 DEF TypeOK
      <3> QED
        BY <2>1, <2>4, <3>1
    <2> QED
      BY <1>1, <2>1, <2>2, <2>4, <2>6, <2>7, <2>8, ConcludeTells
  <1>12. CASE CheckBodyFails(p) \/ InsertBodyFails(p) \/ InsertResponseFails(p)
                 \/ UpsertFails(p)
    BY <1>1, <1>12, NothingFails DEF InsertBodyFails, InsertResponseFails, UpsertFails
  <1> QED
    BY <1>2, <1>3, <1>4, <1>5, <1>6, <1>7, <1>8, <1>9, <1>10, <1>11, <1>12 DEF Step

LEMMA ReportStep ==
    ASSUME StatementsSucceed, RInv, [Next]_vars
    PROVE  RInv'
  <1>1. EInv'
    BY TypeStep, BackedStep, TraceableStep DEF RInv, EInv
  <1>2. TypeOK /\ \A q \in Proc : Truthful(q)
    BY DEF RInv, EInv
  <1>3. CASE UNCHANGED vars \/ \E o \in Origin : Publish(o)
    <2>1. UNCHANGED <<pc, at, body, todo, stored, results, complete, run>>
      BY <1>3 DEF vars, locals, Publish
    <2> QED
      BY <1>1, <1>2, <2>1, TruthfulKept DEF RInv
  <1>4. ASSUME NEW p \in Proc, Start(p) \/ Step(p) \/ Crash(p)
        PROVE  RInv'
    <2>1. ASSUME NEW q \in Proc \ {p} PROVE Truthful(q)'
      BY <1>2, <1>4, <2>1, OthersUntouched, OthersReport, TruthfulKept
    <2>2. Truthful(p)'
      BY <1>4, TruthfulStep
    <2> QED
      BY <1>1, <2>1, <2>2 DEF RInv
  <1> QED
    BY <1>3, <1>4 DEF Next

(* What a finished run reports is what the store holds, however other runs   *)
(* interleave with it and wherever they are killed.                         *)
THEOREM ReportBacked == StatementsSucceed => (Spec => []ReportIsBacked)
  <1> SUFFICES ASSUME StatementsSucceed PROVE Spec => []ReportIsBacked
    OBVIOUS
  <1>1. Init => RInv
    <2> SUFFICES ASSUME Init PROVE RInv
      OBVIOUS
    <2>1. ASSUME NEW p \in Proc PROVE Truthful(p)
      <3>1. /\ pc[p] = "idle" /\ at[p] = 1 /\ results[p] = <<>> /\ complete[p] = TRUE
            /\ Len(Adapters[p]) \in Nat
        BY AdaptersCounted DEF Init
      <3>2. Told(p)
        BY <3>1 DEF Told
      <3>3. AtHand(p)
        BY <3>1 DEF AtHand, Writing
      <3>4. Covers(p)
        BY <3>1 DEF Covers
      <3> QED
        BY <3>2, <3>3, <3>4 DEF Truthful
    <2> QED
      BY <2>1, InitEInv DEF RInv
  <1>2. RInv /\ [Next]_vars => RInv'
    BY ReportStep
  <1>3. RInv => ReportIsBacked
    <2> SUFFICES ASSUME RInv, NEW p \in Proc, pc[p] = "done"
                 PROVE  /\ \A n \in DOMAIN results[p] :
                              results[p][n].ok =>
                                /\ results[p][n].body \in raw_body
                                /\ results[p][n].stored = Len(IdsIn(results[p][n].body))
                                /\ \E m \in DOMAIN raw_response :
                                     raw_response[m] = [source |-> results[p][n].source,
                                                        body |-> results[p][n].body,
                                                        run |-> run[p]]
                        /\ complete[p] <=> \A n \in 1..Len(Adapters[p]) :
                              n \in DOMAIN results[p] /\ results[p][n].ok
      BY DEF ReportIsBacked
    <2>1. Truthful(p) /\ TypeOK
      BY DEF RInv, EInv
    <2>2. at[p] = Len(Adapters[p]) + 1 /\ Len(Adapters[p]) \in Nat
      BY <2>1, AdaptersCounted DEF Truthful, Covers
    <2>3. results[p] \in Seq(Result) /\ Len(results[p]) = at[p] - 1
      BY <2>1 DEF TypeOK
    <2>4. DOMAIN results[p] = 1..Len(Adapters[p])
      BY <2>2, <2>3
    <2> QED
      BY <2>1, <2>4 DEF Truthful, Told, Covers, RowFor
  <1> QED
    BY <1>1, <1>2, <1>3, PTL DEF Spec

-----------------------------------------------------------------------------
(* The store against the history of retrievals: runs one after another, of   *)
(* which any may be killed.                                                 *)

OneRun == \E p : Proc = {p}

(* A row of the archive, or a source's result, tells k's value.             *)
Tells(r, k) == r.source = k[1] /\ Lists(r.body, k[2])

(* The archive, replayed, leaves k as it is.                                *)
Replayed(k) ==
    \/ /\ \A n \in DOMAIN raw_response : ~Tells(raw_response[n], k)
       /\ observation[k] = None
    \/ \E n \in DOMAIN raw_response :
          /\ Tells(raw_response[n], k)
          /\ \A m \in DOMAIN raw_response : Tells(raw_response[m], k) => m <= n
          /\ observation[k] = raw_response[n].body

(* k holds what p's run last learned of it, if anything.                    *)
Repeated(p, k) ==
    \/ \A n \in DOMAIN results[p] : ~(results[p][n].ok /\ Tells(results[p][n], k))
    \/ \E n \in DOMAIN results[p] :
          /\ results[p][n].ok /\ Tells(results[p][n], k)
          /\ \A m \in DOMAIN results[p] :
                results[p][m].ok /\ Tells(results[p][m], k) => m <= n
          /\ observation[k] = results[p][n].body

(* p is storing the answer that tells k.                                    *)
Storing(p, k) ==
    pc[p] = "obs" /\ k[1] = SourceOf[Here(p)] /\ Lists(body[p], k[2])

(* Where p stands in storing one answer.                                    *)
AnswerInv(p) ==
    /\ pc[p] \in Writing \cup {"check"} =>
          \A n \in 1..Len(todo[p]) : Lists(body[p], todo[p][n])
    /\ pc[p] \in {"check", "body", "row"} => todo[p] = IdsIn(body[p])
    /\ pc[p] = "row" => body[p] \in raw_body
    /\ pc[p] = "obs" =>
          /\ raw_response # <<>>
          /\ raw_response[Len(raw_response)].source = SourceOf[Here(p)]
          /\ raw_response[Len(raw_response)].body = body[p]
    /\ \A k \in Key : Storing(p, k) =>
          \/ \E n \in 1..Len(todo[p]) : todo[p][n] = k[2]
          \/ observation[k] = body[p]

History(p) ==
    /\ AnswerInv(p)
    /\ crashes = 0 => \A k \in Key : Storing(p, k) \/ Replayed(k)
    /\ pc[p] \in Running \cup {"done"} =>
          \A k \in Key : Storing(p, k) \/ Repeated(p, k)

HInv == TypeOK /\ (faults = 0 => \A p \in Proc : History(p))

(* A statement of the only run fails for an I/O reason alone.               *)
LEMMA AloneSucceeds ==
    ASSUME OneRun, TypeOK, NEW p \in Proc, faults' = 0
    PROVE  ~(CheckBodyFails(p) \/ InsertBodyFails(p) \/ InsertResponseFails(p)
                \/ UpsertFails(p))
  <1>1. faults \in Nat /\ faults + 1 # 0
    <2>1. faults \in 0..MaxFaults
      BY DEF TypeOK
    <2> QED
      BY <2>1, BoundAssumption
  <1>2. ~Contended(p)
    BY DEF OneRun, Contended
  <1>3. ~StatementFails(p)
    BY <1>1, <1>2 DEF StatementFails
  <1> QED
    BY <1>1, <1>3 DEF CheckBodyFails, InsertBodyFails, InsertResponseFails, UpsertFails

(* No failure is forgotten.                                                 *)
LEMMA CountersGrow ==
    ASSUME TypeOK, [Next]_vars
    PROVE  (faults' = 0 => faults = 0) /\ (crashes' = 0 => crashes = 0)
  <1>1. faults \in Nat /\ crashes \in Nat
    <2>1. faults \in 0..MaxFaults /\ crashes \in 0..MaxCrashes
      BY DEF TypeOK
    <2> QED
      BY <2>1, BoundAssumption
  <1>2. faults' \in {faults, faults + 1} /\ crashes' \in {crashes, crashes + 1}
    BY DEF Next, Step, vars, counters, Publish, Start, FetchFails, FetchThrows, Fetch,
       FetchNoData, Finish, CheckBody, CheckBodyFails, InsertBody, InsertBodyFails,
       InsertResponse, InsertResponseFails, Upsert, UpsertFails, StatementFails,
       Persisted, Crash
  <1> QED
    BY <1>1, <1>2

(* A retrieval joins the archive: the values it tells wait for their upsert. *)
LEMMA AppendReplays ==
    ASSUME TypeOK, NEW r \in Row, raw_response' = Append(raw_response, r),
           observation' = observation, NEW k \in Key, Replayed(k), ~Tells(r, k)
    PROVE  Replayed(k)'
  <1> DEFINE L == Len(raw_response) + 1
  <1>1. /\ DOMAIN raw_response' = DOMAIN raw_response \cup {L}
        /\ \A n \in DOMAIN raw_response : raw_response'[n] = raw_response[n]
        /\ raw_response'[L] = r
    BY AppendMeans DEF TypeOK
  <1> HIDE DEF L
  <1>2. \A n \in DOMAIN raw_response' :
           Tells(raw_response'[n], k) =>
              n \in DOMAIN raw_response /\ Tells(raw_response[n], k)
    BY <1>1
  <1>3. CASE /\ \A n \in DOMAIN raw_response : ~Tells(raw_response[n], k)
             /\ observation[k] = None
    BY <1>2, <1>3 DEF Replayed
  <1>4. CASE \E n \in DOMAIN raw_response :
                /\ Tells(raw_response[n], k)
                /\ \A m \in DOMAIN raw_response : Tells(raw_response[m], k) => m <= n
                /\ observation[k] = raw_response[n].body
    <2>1. PICK n \in DOMAIN raw_response :
             /\ Tells(raw_response[n], k)
             /\ \A m \in DOMAIN raw_response : Tells(raw_response[m], k) => m <= n
             /\ observation[k] = raw_response[n].body
      BY <1>4
    <2>2. /\ n \in DOMAIN raw_response' /\ Tells(raw_response'[n], k)
          /\ \A m \in DOMAIN raw_response' : Tells(raw_response'[m], k) => m <= n
          /\ observation'[k] = raw_response'[n].body
      BY <1>1, <1>2, <2>1
    <2> QED
      BY <2>2 DEF Replayed
  <1> QED
    BY <1>3, <1>4 DEF Replayed

(* A result joins the report that does not tell k, or tells what k holds.   *)
LEMMA AppendRepeats ==
    ASSUME TypeOK, NEW p \in Proc, NEW r \in Result,
           results' = [results EXCEPT ![p] = Append(@, r)],
           observation' = observation, NEW k \in Key,
           IF r.ok /\ Tells(r, k) THEN observation[k] = r.body ELSE Repeated(p, k)
    PROVE  Repeated(p, k)'
  <1> DEFINE L == Len(results[p]) + 1
  <1>0. results[p] \in Seq(Result) /\ results'[p] = Append(results[p], r)
    BY DEF TypeOK
  <1>1. /\ DOMAIN results'[p] = DOMAIN results[p] \cup {L}
        /\ \A n \in DOMAIN results[p] : results'[p][n] = results[p][n]
        /\ results'[p][L] = r
        /\ L \in Nat /\ \A n \in DOMAIN results[p] : n \in Nat /\ n <= L
    BY <1>0, AppendMeans
  <1> HIDE DEF L
  <1>2. CASE r.ok /\ Tells(r, k)
    <2>1. /\ L \in DOMAIN results'[p] /\ results'[p][L].ok /\ Tells(results'[p][L], k)
          /\ \A m \in DOMAIN results'[p] : m <= L
          /\ observation'[k] = results'[p][L].body
      BY <1>1, <1>2
    <2> QED
      BY <2>1 DEF Repeated
  <1>3. CASE ~(r.ok /\ Tells(r, k))
    <2>1. \A n \in DOMAIN results'[p] :
             results'[p][n].ok /\ Tells(results'[p][n], k) =>
                n \in DOMAIN results[p] /\ results[p][n].ok /\ Tells(results[p][n], k)
      BY <1>1, <1>3
    <2>2. CASE \A n \in DOMAIN results[p] : ~(results[p][n].ok /\ Tells(results[p][n], k))
      BY <2>1, <2>2 DEF Repeated
    <2>3. CASE \E n \in DOMAIN results[p] :
                  /\ results[p][n].ok /\ Tells(results[p][n], k)
                  /\ \A m \in DOMAIN results[p] :
                        results[p][m].ok /\ Tells(results[p][m], k) => m <= n
                  /\ observation[k] = results[p][n].body
      <3>1. PICK n \in DOMAIN results[p] :
               /\ results[p][n].ok /\ Tells(results[p][n], k)
               /\ \A m \in DOMAIN results[p] :
                     results[p][m].ok /\ Tells(results[p][m], k) => m <= n
               /\ observation[k] = results[p][n].body
        BY <2>3
      <3>2. /\ n \in DOMAIN results'[p] /\ results'[p][n].ok /\ Tells(results'[p][n], k)
            /\ \A m \in DOMAIN results'[p] :
                  results'[p][m].ok /\ Tells(results'[p][m], k) => m <= n
            /\ observation'[k] = results'[p][n].body
        BY <1>1, <2>1, <3>1
      <3> QED
        BY <3>2 DEF Repeated
    <2> QED
      BY <1>3, <2>2, <2>3 DEF Repeated
  <1> QED
    BY <1>2, <1>3

(* Away from the upserts every value is settled.                            *)
LEMMA Settled ==
    ASSUME NEW p \in Proc, History(p), pc[p] # "obs", NEW k \in Key
    PROVE  /\ crashes = 0 => Replayed(k)
           /\ pc[p] \in Running => Repeated(p, k)
  BY DEF History, Storing

(* A step that reaches no upsert and changes neither store nor results.      *)
LEMMA SettledStep ==
    ASSUME TypeOK, [Next]_vars, NEW p \in Proc, History(p), pc[p] # "obs",
           UNCHANGED <<raw_response, observation>>,
           results' = results, pc'[p] # "obs",
           pc'[p] \in Running \cup {"done"} => pc[p] \in Running \cup {"done"},
           AnswerInv(p)'
    PROVE  History(p)'
  <1>1. ASSUME NEW k \in Key PROVE crashes' = 0 => Replayed(k)'
    BY Settled, CountersGrow DEF Replayed
  <1>2. ASSUME NEW k \in Key PROVE pc'[p] \in Running \cup {"done"} => Repeated(p, k)'
    BY DEF Repeated, History, Storing
  <1> QED
    BY <1>1, <1>2 DEF History

LEMMA StorageStep ==
    ASSUME TypeOK, NEW p \in Proc, History(p), InsertResponse(p)
    PROVE  History(p)'
  <1> USE DEF store, locals, counters, Goto
  <1>1. /\ pc[p] = "row" /\ pc'[p] = "obs" /\ at' = at /\ body' = body /\ todo' = todo
        /\ observation' = observation /\ results' = results /\ crashes' = crashes
    BY DEF InsertResponse, TypeOK
  <1>2. body[p] \in raw_body /\ todo[p] = IdsIn(body[p]) /\ body[p] \in Body
    BY <1>1 DEF TypeOK, History, AnswerInv
  <1>3. /\ RowOf(p) \in Row /\ raw_response \in Seq(Row)
        /\ raw_response' = Append(raw_response, RowOf(p))
    BY <1>1, <1>2, RowIsRow DEF InsertResponse, TypeOK
  <1>4. Here(p)' = Here(p)
    BY <1>1 DEF Here
  <1>5. /\ RowOf(p).source = SourceOf[Here(p)] /\ RowOf(p).body = body[p]
        /\ raw_response' # <<>> /\ raw_response'[Len(raw_response')] = RowOf(p)
    BY <1>3 DEF RowOf
  <1>6. ASSUME NEW k \in Key
        PROVE  Tells(RowOf(p), k) <=> Storing(p, k)'
    BY <1>1, <1>4, <1>5 DEF Storing, Tells, Lists
  <1>7. DOMAIN todo[p] = 1..Len(todo[p])
    BY DEF TypeOK
  <1>8. AnswerInv(p)'
    <2>1. \A n \in 1..Len(todo'[p]) : Lists(body'[p], todo'[p][n])
      BY <1>1, <1>2, ListsItsIds
    <2>2. ASSUME NEW k \in Key, Storing(p, k)'
          PROVE  \E n \in 1..Len(todo'[p]) : todo'[p][n] = k[2]
      <3>1. Lists(body[p], k[2])
        BY <1>1, <2>2 DEF Storing, Lists
      <3> QED
        BY <1>1, <1>2, <1>7, <3>1 DEF Lists
    <2>3. /\ raw_response' # <<>>
          /\ raw_response'[Len(raw_response')].source = SourceOf[Here(p)]'
          /\ raw_response'[Len(raw_response')].body = body'[p]
      BY <1>1, <1>4, <1>5
    <2> QED
      BY <1>1, <2>1, <2>2, <2>3 DEF AnswerInv, Lists, Writing
  <1>9. ASSUME NEW k \in Key, ~Storing(p, k)'
        PROVE  (crashes' = 0 => Replayed(k)') /\ Repeated(p, k)'
    <2>1. (crashes = 0 => Replayed(k)) /\ Repeated(p, k)
      BY <1>1, Settled DEF Running, Writing
    <2>2. ~Tells(RowOf(p), k)
      BY <1>6, <1>9
    <2>3. crashes' = 0 => Replayed(k)'
      BY <1>1, <1>3, <2>1, <2>2, AppendReplays
    <2>4. Repeated(p, k)'
      BY <1>1, <2>1 DEF Repeated
    <2> QED
      BY <2>3, <2>4
  <1> QED
    BY <1>8, <1>9 DEF History

LEMMA UpsertStep ==
    ASSUME TypeOK, NEW p \in Proc, History(p), Upsert(p)
    PROVE  History(p)'
  <1> USE DEF store, locals, counters, Goto
  <1>1. /\ pc[p] = "obs" /\ pc' = pc /\ at' = at /\ body' = body
        /\ results' = results /\ raw_response' = raw_response /\ crashes' = crashes
        /\ todo[p] # <<>> /\ todo'[p] = Tail(todo[p])
        /\ observation' = [observation EXCEPT ![KeyAt(p)] = body[p]]
    BY DEF Upsert, TypeOK
  <1>2. AnswerInv(p)
    BY DEF History
  <1>3. /\ todo[p] \in Seq(Id) /\ 1 \in 1..Len(todo[p]) /\ Head(todo[p]) = todo[p][1]
        /\ \A n \in 1..Len(todo'[p]) : n + 1 \in 1..Len(todo[p]) /\ todo'[p][n] = todo[p][n + 1]
        /\ \A n \in 1..Len(todo[p]) : n = 1 \/ n - 1 \in 1..Len(todo'[p])
    BY <1>1 DEF TypeOK
  <1>4. Lists(body[p], Head(todo[p])) /\ \A n \in 1..Len(todo'[p]) : Lists(body[p], todo'[p][n])
    BY <1>1, <1>2, <1>3 DEF AnswerInv, Writing
  <1>5. Here(p)' = Here(p) /\ \A k \in Key : Storing(p, k)' <=> Storing(p, k)
    BY <1>1 DEF Here, Storing, Lists
  <1>6. KeyAt(p) \in Key /\ Storing(p, KeyAt(p))
    <2>1. at[p] <= Len(Adapters[p])
      BY <1>1 DEF TypeOK, Writing
    <2>2. SourceOf[Here(p)] \in Source
      BY <2>1, HereIsOrigin
    <2>3. Head(todo[p]) \in Id
      BY <1>1, <1>3
    <2> QED
      BY <1>1, <1>4, <2>2, <2>3 DEF KeyAt, Key, Storing
  <1>7. observation \in [Key -> Body \cup {None}]
    BY DEF TypeOK
  <1>8. ASSUME NEW k \in Key, Storing(p, k)
        PROVE  \/ \E n \in 1..Len(todo'[p]) : todo'[p][n] = k[2]
               \/ observation'[k] = body[p]
    <2>1. CASE k = KeyAt(p)
      BY <1>1, <1>7, <2>1
    <2>2. CASE k # KeyAt(p)
      <3>1. observation'[k] = observation[k]
        BY <1>1, <1>7, <2>2
      <3>2. \A n \in 1..Len(todo[p]) : todo[p][n] = k[2] => n # 1
        <4>1. k[1] = SourceOf[Here(p)] /\ k = <<k[1], k[2]>>
          BY <1>8 DEF Storing, Key
        <4> QED
          BY <1>3, <2>2, <4>1 DEF KeyAt
      <3>3. CASE \E n \in 1..Len(todo[p]) : todo[p][n] = k[2]
        <4>1. PICK n \in 1..Len(todo[p]) : todo[p][n] = k[2]
          BY <3>3
        <4>2. /\ n - 1 \in 1..Len(todo'[p]) /\ (n - 1) + 1 = n
              /\ todo'[p][n - 1] = todo[p][(n - 1) + 1]
          BY <1>3, <3>2, <4>1
        <4> QED
          BY <4>1, <4>2
      <3> QED
        BY <1>2, <1>8, <3>1, <3>3 DEF AnswerInv
    <2> QED
      BY <2>1, <2>2
  <1>9. AnswerInv(p)'
    <2>1. \A n \in 1..Len(todo'[p]) : Lists(body'[p], todo'[p][n])
      BY <1>1, <1>4
    <2>2. /\ raw_response' # <<>>
          /\ raw_response'[Len(raw_response')].source = SourceOf[Here(p)]'
          /\ raw_response'[Len(raw_response')].body = body'[p]
      BY <1>1, <1>2, <1>5 DEF AnswerInv
    <2>3. \A k \in Key : Storing(p, k)' =>
             \/ \E n \in 1..Len(todo'[p]) : todo'[p][n] = k[2]
             \/ observation'[k] = body'[p]
      BY <1>1, <1>5, <1>8
    <2> QED
      BY <1>1, <2>1, <2>2, <2>3 DEF AnswerInv, Lists, Writing
  <1>10. ASSUME NEW k \in Key, ~Storing(p, k)
         PROVE  (crashes = 0 => Replayed(k)') /\ Repeated(p, k)'
    <2>1. observation'[k] = observation[k]
      BY <1>1, <1>6, <1>7, <1>10
    <2>2. (crashes = 0 => Replayed(k)) /\ Repeated(p, k)
      BY <1>1, <1>10 DEF History, Running, Writing
    <2> QED
      BY <1>1, <2>1, <2>2 DEF Replayed, Repeated
  <1> QED
    BY <1>1, <1>5, <1>9, <1>10 DEF History

LEMMA PersistedStep ==
    ASSUME TypeOK, NEW p \in Proc, History(p), Persisted(p)
    PROVE  History(p)'
  <1> USE DEF store, locals, counters, Goto
  <1> DEFINE r == [source |-> SourceOf[Here(p)], ok |-> TRUE, body |-> body[p],
                   new |-> new[p], stored |-> stored[p]]
  <1>1. /\ pc[p] = "obs" /\ pc'[p] = "fetch" /\ todo[p] = <<>>
        /\ results' = [results EXCEPT ![p] = Append(results[p], r)]
        /\ raw_response' = raw_response /\ observation' = observation
        /\ crashes' = crashes
    BY DEF Persisted, Conclude, TypeOK
  <1>2. /\ r \in Result /\ r.ok = TRUE /\ r.source = SourceOf[Here(p)]
        /\ r.body = body[p]
    <2>1. SourceOf[Here(p)] \in Source
      BY <1>1, HereIsOrigin DEF TypeOK, Writing
    <2>2. body[p] \in Body /\ new[p] \in BOOLEAN /\ stored[p] \in Nat
      BY DEF TypeOK
    <2> QED
      BY <2>1, <2>2 DEF Result
  <1> HIDE DEF r
  <1>3. /\ raw_response \in Seq(Row) /\ raw_response # <<>>
        /\ raw_response[Len(raw_response)].source = SourceOf[Here(p)]
        /\ raw_response[Len(raw_response)].body = body[p]
    BY <1>1 DEF History, AnswerInv, TypeOK
  <1>4. /\ Len(raw_response) \in DOMAIN raw_response
        /\ \A n \in DOMAIN raw_response : n <= Len(raw_response)
    BY <1>3
  <1>5. ASSUME NEW k \in Key, Storing(p, k) PROVE observation[k] = body[p]
    <2>1. 1..Len(todo[p]) = {}
      BY <1>1
    <2> QED
      BY <1>5, <2>1 DEF History, AnswerInv
  <1>6. ASSUME NEW k \in Key PROVE Tells(r, k) <=> Storing(p, k)
    BY <1>1, <1>2 DEF Tells, Storing
  <1>7. ASSUME NEW k \in Key PROVE crashes = 0 => Replayed(k)'
    <2>1. CASE Storing(p, k)
      <3>1. /\ Tells(raw_response[Len(raw_response)], k)
            /\ observation[k] = raw_response[Len(raw_response)].body
        BY <1>3, <1>5, <2>1 DEF Tells, Storing
      <3> QED
        BY <1>1, <1>4, <3>1 DEF Replayed
    <2>2. CASE ~Storing(p, k)
      <3>1. crashes = 0 => Replayed(k)
        BY <2>2 DEF History
      <3> QED
        BY <1>1, <3>1 DEF Replayed
    <2> QED
      BY <2>1, <2>2
  <1>8. ASSUME NEW k \in Key PROVE Repeated(p, k)'
    <2>1. IF r.ok /\ Tells(r, k) THEN observation[k] = r.body ELSE Repeated(p, k)
      BY <1>1, <1>2, <1>5, <1>6 DEF History, Running, Writing
    <2> QED
      BY <1>1, <1>2, <2>1, AppendRepeats
  <1>9. AnswerInv(p)'
    BY <1>1 DEF AnswerInv, Storing, Writing
  <1> QED
    BY <1>1, <1>7, <1>8, <1>9 DEF History

LEMMA HistoryStep ==
    ASSUME OneRun, HInv, [Next]_vars, faults' = 0, NEW p \in Proc
    PROVE  History(p)'
  <1> USE DEF store, locals, counters, Goto
  <1>1. /\ TypeOK /\ History(p)
        /\ pc \in [Proc -> Running \cup {"idle", "done", "aborted"}]
    BY CountersGrow DEF HInv, TypeOK
  <1>2. AnswerInv(p)
    BY <1>1 DEF History
  <1>3. CASE UNCHANGED vars \/ \E o \in Origin : Publish(o)
    <2>1. UNCHANGED <<store, pc, locals, counters>>
      BY <1>3 DEF vars, Publish
    <2>2. AnswerInv(p)'
      BY <1>2, <2>1 DEF AnswerInv, Lists, Storing, Here
    <2>3. /\ crashes' = 0 => \A k \in Key : Storing(p, k)' \/ Replayed(k)'
          /\ pc'[p] \in Running \cup {"done"} =>
                \A k \in Key : Storing(p, k)' \/ Repeated(p, k)'
      BY <1>1, <2>1 DEF History, Storing, Here, Lists, Replayed, Repeated
    <2> QED
      BY <2>2, <2>3 DEF History
  <1>4. CASE Start(p)
    <2>1. /\ pc[p] # "obs" /\ pc'[p] = "fetch" /\ results'[p] = <<>>
          /\ UNCHANGED <<raw_response, observation, crashes>>
      BY <1>1, <1>4 DEF Start, TypeOK
    <2>2. \A k \in Key : (crashes' = 0 => Replayed(k)') /\ Repeated(p, k)'
      BY <1>1, <2>1, Settled DEF Replayed, Repeated
    <2>3. AnswerInv(p)'
      BY <2>1 DEF AnswerInv, Storing, Writing
    <2> QED
      BY <2>2, <2>3 DEF History
  <1>5. CASE FetchFails(p)
    <2> DEFINE r == [source |-> SourceOf[Here(p)], ok |-> FALSE, body |-> None,
                     new |-> TRUE, stored |-> 0]
    <2>1. /\ pc[p] = "fetch" /\ pc'[p] = "fetch" /\ at[p] <= Len(Adapters[p])
          /\ results' = [results EXCEPT ![p] = Append(@, r)]
          /\ UNCHANGED <<raw_response, observation, crashes>>
      BY <1>1, <1>5 DEF FetchFails, Conclude, TypeOK
    <2>2. r \in Result /\ r.ok = FALSE
      BY <1>1, <2>1, HereIsOrigin DEF Result
    <2> HIDE DEF r
    <2>3. ASSUME NEW k \in Key PROVE (crashes' = 0 => Replayed(k)') /\ Repeated(p, k)'
      <3>1. (crashes = 0 => Replayed(k)) /\ Repeated(p, k)
        BY <1>1, <2>1, Settled DEF Running
      <3>2. IF r.ok /\ Tells(r, k) THEN observation[k] = r.body ELSE Repeated(p, k)
        BY <2>2, <3>1
      <3>3. Repeated(p, k)'
        BY <1>1, <2>1, <2>2, <3>2, AppendRepeats
      <3> QED
        BY <2>1, <3>1, <3>3 DEF Replayed
    <2>4. AnswerInv(p)'
      BY <2>1 DEF AnswerInv, Storing, Writing
    <2> QED
      BY <2>3, <2>4 DEF History
  <1>6. CASE FetchThrows(p)
    <2>1. /\ pc[p] = "fetch" /\ pc'[p] = "aborted" /\ UNCHANGED <<store, locals>>
      BY <1>1, <1>6 DEF FetchThrows
    <2>2. AnswerInv(p)'
      BY <2>1 DEF AnswerInv, Storing, Writing
    <2> QED
      BY <1>1, <2>1, <2>2, SettledStep DEF Running, Writing
  <1>7. CASE Fetch(p) \/ FetchNoData(p)
    <2>1. PICK b : Answered(p, b) /\ UNCHANGED <<store, results>>
      BY <1>7 DEF Fetch, FetchNoData
    <2>2. /\ pc[p] = "fetch" /\ pc'[p] = "check" /\ todo'[p] = IdsIn(b) /\ body'[p] = b
      BY <1>1, <1>7, <2>1 DEF Answered, Fetch, FetchNoData, TypeOK
    <2>3. b \in Body
      BY <1>1, <2>2, TypeStep DEF TypeOK
    <2>4. AnswerInv(p)'
      BY <2>2, <2>3, ListsItsIds DEF AnswerInv, Storing, Writing, Lists
    <2> QED
      BY <1>1, <2>1, <2>2, <2>4, SettledStep DEF Running, Writing
  <1>8. CASE Finish(p)
    <2>1. pc[p] = "fetch" /\ pc'[p] = "done" /\ UNCHANGED <<store, locals>>
      BY <1>1, <1>8 DEF Finish
    <2>2. AnswerInv(p)'
      BY <2>1 DEF AnswerInv, Storing, Writing
    <2> QED
      BY <1>1, <2>1, <2>2, SettledStep DEF Running, Writing
  <1>9. CASE CheckBody(p)
    <2>1. /\ pc[p] = "check" /\ UNCHANGED <<store, at, body, todo, results>>
          /\ pc'[p] = IF body[p] \in raw_body THEN "row" ELSE "body"
      BY <1>1, <1>9 DEF CheckBody
    <2>2. AnswerInv(p)'
      BY <1>2, <2>1 DEF AnswerInv, Storing, Writing, Lists
    <2> QED
      BY <1>1, <2>1, <2>2, SettledStep DEF Running, Writing
  <1>10. CASE InsertBody(p)
    <2>1. /\ pc[p] = "body" /\ pc'[p] = "row" /\ body[p] \in raw_body'
          /\ UNCHANGED <<raw_response, observation, locals>>
      BY <1>1, <1>10 DEF InsertBody
    <2>2. AnswerInv(p)'
      BY <1>2, <2>1 DEF AnswerInv, Storing, Writing, Lists
    <2> QED
      BY <1>1, <2>1, <2>2, SettledStep DEF Running, Writing
  <1>11. CASE InsertResponse(p) \/ Upsert(p) \/ Persisted(p)
    BY <1>1, <1>11, StorageStep, UpsertStep, PersistedStep
  <1>12. CASE Crash(p)
    <2>1. /\ pc'[p] = "idle" /\ crashes' = crashes + 1 /\ crashes \in Nat
      <3>1. crashes \in 0..MaxCrashes
        BY <1>1 DEF TypeOK
      <3> QED
        BY <1>1, <1>12, <3>1, BoundAssumption DEF Crash
    <2>2. AnswerInv(p)'
      BY <2>1 DEF AnswerInv, Storing, Writing
    <2> QED
      BY <2>1, <2>2 DEF History, Running, Writing
  <1>13. CASE CheckBodyFails(p) \/ InsertBodyFails(p) \/ InsertResponseFails(p)
                 \/ UpsertFails(p)
    BY <1>1, <1>13, AloneSucceeds
  <1>14. \A q \in Proc : q = p
    BY DEF OneRun
  <1> QED
    BY <1>3, <1>4, <1>5, <1>6, <1>7, <1>8, <1>9, <1>10, <1>11, <1>12, <1>13, <1>14
       DEF Next, Step

LEMMA HistoryInductive == OneRun => (Spec => []HInv)
  <1> SUFFICES ASSUME OneRun PROVE Spec => []HInv
    OBVIOUS
  <1>1. Init => HInv
    <2> SUFFICES ASSUME Init PROVE HInv
      OBVIOUS
    <2>1. ASSUME NEW p \in Proc PROVE History(p)
      <3>1. /\ pc[p] = "idle" /\ raw_response = <<>>
            /\ \A k \in Key : observation[k] = None
        BY DEF Init
      <3>2. \A k \in Key : Replayed(k)
        BY <3>1 DEF Replayed
      <3>3. AnswerInv(p)
        BY <3>1 DEF AnswerInv, Storing, Writing
      <3> QED
        BY <3>1, <3>2, <3>3 DEF History, Running, Writing
    <2> QED
      BY <2>1, InitType DEF HInv
  <1>2. HInv /\ [Next]_vars => HInv'
    BY HistoryStep, TypeStep DEF HInv
  <1> QED
    BY <1>1, <1>2, PTL DEF Spec

(* Runs one after another, as many as there are: whenever none is in        *)
(* progress, the observation table is the archive replayed in the order of   *)
(* its retrievals, whatever each source revised between two of them, and      *)
(* whichever of them failed or threw.                                        *)
THEOREM CatalogReplayed == OneRun => (Spec => []CatalogIsReplay)
  <1> SUFFICES ASSUME OneRun PROVE Spec => []CatalogIsReplay
    OBVIOUS
  <1>1. HInv => CatalogIsReplay
    <2> SUFFICES ASSUME HInv, faults = 0, crashes = 0,
                        \A p \in Proc : pc[p] \notin Running, NEW k \in Key
                 PROVE  LET rows == {n \in DOMAIN raw_response :
                                       /\ raw_response[n].source = k[1]
                                       /\ Lists(raw_response[n].body, k[2])}
                        IN  \/ rows = {} /\ observation[k] = None
                            \/ \E n \in rows :
                                  /\ \A m \in rows : m <= n
                                  /\ observation[k] = raw_response[n].body
      BY DEF CatalogIsReplay
    <2>1. PICK p \in Proc : TRUE
      BY DEF OneRun
    <2>2. History(p) /\ pc[p] # "obs"
      BY DEF HInv, Running, Writing
    <2>3. Replayed(k)
      BY <2>2, Settled
    <2> QED
      BY <2>3 DEF Replayed, Tells
  <1> QED
    BY <1>1, HistoryInductive, PTL

(* A rerun repairs: a run that finishes leaves every value its sources told  *)
(* as the last of them told it, wherever the runs before it were killed.     *)
THEOREM RunStored == OneRun => (Spec => []RunStoresWhatItFetched)
  <1> SUFFICES ASSUME OneRun PROVE Spec => []RunStoresWhatItFetched
    OBVIOUS
  <1>1. HInv => RunStoresWhatItFetched
    <2> SUFFICES ASSUME HInv, NEW p \in Proc, pc[p] = "done", faults = 0, NEW k \in Key
                 PROVE  LET told == {n \in DOMAIN results[p] :
                                       /\ results[p][n].ok
                                       /\ results[p][n].source = k[1]
                                       /\ Lists(results[p][n].body, k[2])}
                        IN  told # {} => \E n \in told :
                                /\ \A m \in told : m <= n
                                /\ observation[k] = results[p][n].body
      BY DEF RunStoresWhatItFetched
    <2>1. Repeated(p, k)
      BY DEF HInv, History, Storing
    <2> QED
      BY <2>1 DEF Repeated, Tells
  <1> QED
    BY <1>1, HistoryInductive, PTL
=============================================================================
