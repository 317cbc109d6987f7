----------------------------- MODULE Retrieval ------------------------------
(***************************************************************************)
(* One Adapter::fetch, from the request to the observations: http::get or a  *)
(* file, the parser of the answer's format, and the adapter's loop over the  *)
(* records of the document.  The documents the parsers' runs read are small; *)
(* what a document that is accepted lists is chosen when the adapter looks.  *)
(* FIRMS asks several times and parses what it has merged; which days it asks *)
(* for is FirmsWalk's matter.                                                 *)
(***************************************************************************)
EXTENDS Http, Escape, Xml, Csv

CONSTANTS Sources,           \* a subset of {"usgs", "isc", "firms", "file"}
          max_input_bytes,   \* Limits::max_input_bytes of each format
          MaxRequests,       \* bound on the requests of a FIRMS window
          MaxRecords         \* bound on the records of a document

ASSUME RetrievalAssumption ==
    /\ Sources \subseteq {"usgs", "isc", "firms", "file"}
    /\ max_input_bytes \in [{"json", "xml", "csv"} -> Nat]
    /\ {MaxRequests, MaxRecords} \subseteq Nat

VARIABLES
    source,        \* the adapter
    stage,         \* "key", "get", "open", "body", a format, a layout,
                   \* "done", "thrown"
    requests,      \* of FIRMS, answered and merged
    raw_body,      \* the size of f.raw_body; of FIRMS, of merged
    no_data,       \* f.no_data
    error,         \* f.error
    unseen,        \* history: something asked for was not had, or not read
    listed,        \* history: the records of the document, as far as read
    observations   \* f.observations: [source, of], of an index of listed

fetch == <<source, stage, requests, raw_body, no_data, error, unseen, listed,
           observations>>
vars == <<document, csv, http, fetch>>

Formats == {"json", "xml", "csv"}
Layouts == {"features", "events", "entries", "rows"}

FormatsOf(s) == CASE s = "usgs"  -> {"json"}
                  [] s = "isc"   -> {"xml"}
                  [] s = "firms" -> {"csv"}
                  [] s = "file"  -> {"json", "xml"}

Init ==
    /\ NoDocument /\ CsvUnread /\ HttpInit
    /\ source \in Sources
    /\ stage = CASE source = "file"  -> "open"
                  [] source = "firms" -> "key"
                  [] OTHER            -> "get"
    /\ requests = 0
    /\ raw_body = 0
    /\ no_data = FALSE
    /\ error = ""
    /\ unseen = FALSE
    /\ listed = <<>>
    /\ observations = <<>>

\* The fetch ends; the error of a FIRMS request stays.
Ends(what) ==
    /\ stage' = "done"
    /\ error' = IF error = "" THEN what ELSE error

Fails(what) == Ends(what) /\ unseen' = TRUE
-----------------------------------------------------------------------------
\* FIRMS refuses to ask without a key, or for no window.
AskFirms ==
    /\ stage = "key"
    /\ \/ Fails("key")
       \/ stage' = "get" /\ UNCHANGED <<error, unseen>>
    /\ UNCHANGED <<document, csv, http, source, requests, raw_body, no_data, listed,
                   observations>>

Transfer ==
    /\ stage = "get"
    /\ HttpNext
    /\ UNCHANGED <<document, csv, fetch>>

\* http_fetch, and what USGS and ISC do with it.
http_fetch ==
    /\ stage = "get" /\ transfer \notin Underway /\ source # "firms"
    /\ IF transfer # "answered"
         THEN Fails(transfer) /\ UNCHANGED <<raw_body, no_data>>
         ELSE LET nothing == status = 204 \/ sink = 0
              IN  /\ no_data' = nothing
                  /\ raw_body' = sink
                  /\ stage' = IF nothing THEN "done" ELSE "body"
                  /\ UNCHANGED <<error, unseen>>
    /\ UNCHANGED <<document, csv, http, source, requests, listed, observations>>

\* The walk broken off, and nothing said of the days that are missing.
PartSwallowed == UNCHANGED error /\ unseen' = TRUE

\* The message of the part, and the day it was for.
PartRecorded == error' = "part" /\ unseen' = TRUE

\* The walk is over: FIRMS parses what has been merged, if that is anything.
ParseMerged(size) == raw_body' = size /\ stage' = IF size = 0 THEN "done" ELSE "body"

\* http_fetch, and what FIRMS does with it: an answer is merged, without its
\* header line unless it is the first, and part.no_data is not looked at; a
\* request that fails ends the walk, but not the fetch; a rejected key ends both
\* and forgets what was merged.
FetchPart ==
    /\ stage = "get" /\ transfer \notin Underway /\ source = "firms"
    /\ \/ /\ transfer # "answered"
          /\ PartRecorded
          /\ ParseMerged(raw_body)
          /\ UNCHANGED <<http, requests>>
       \/ /\ transfer = "answered" /\ sink > 0
          /\ Fails("key")
          /\ raw_body' = 0
          /\ UNCHANGED <<http, requests>>
       \/ /\ transfer = "answered"
          /\ \E header \in 0..sink :
                /\ requests = 0 => header = 0
                /\ LET merged == raw_body + (sink - header)
                   IN  \/ /\ requests + 1 < MaxRequests
                          /\ raw_body' = merged
                          /\ stage' = "get" /\ HttpLeft
                       \/ ParseMerged(merged) /\ UNCHANGED http
          /\ requests' = requests + 1
          /\ UNCHANGED <<error, unseen>>
    /\ UNCHANGED <<document, csv, source, no_data, listed, observations>>

\* A regular file, whatever its size, or an error.
OpenFile ==
    /\ stage = "open"
    /\ \/ Fails("file") /\ UNCHANGED raw_body
       \/ raw_body' \in 0..MaxSent /\ stage' = "body" /\ UNCHANGED <<error, unseen>>
    /\ UNCHANGED <<document, csv, http, source, requests, no_data, listed, observations>>

\* The parser begins, or refuses the body for its size; no document is empty.
\* From here on the text is what the parser reads.
BeginParse(format) ==
    /\ stage = "body" /\ format \in FormatsOf(source)
    /\ IF raw_body > max_input_bytes[format] \/ raw_body = 0
         THEN Fails("parse") /\ UNCHANGED <<document, csv>>
         ELSE /\ stage' = format
              /\ CASE format = "json" -> JsonBegins /\ UNCHANGED csv
                   [] format = "xml"  -> XmlBegins /\ UNCHANGED csv
                   [] format = "csv"  -> CsvGiven /\ UNCHANGED document
              /\ UNCHANGED <<error, unseen>>
    /\ HttpLeft
    /\ requests' = 0 /\ raw_body' = 0
    /\ UNCHANGED <<source, no_data, listed, observations>>

\* A file is taken for JSON by its first character.
ParseJson ==
    /\ stage = "json"
    /\ JsonNext
    /\ source = "file" /\ read = <<>> => Last(read') \in Opening
    /\ UNCHANGED <<csv, http, fetch>>

ParseXml ==
    /\ stage = "xml"
    /\ XmlNext
    /\ UNCHANGED <<csv, http, fetch>>

ParseCsv ==
    /\ stage = "csv"
    /\ CsvNext
    /\ UNCHANGED <<document, http, fetch>>

Refused == IF stage = "csv" THEN outcome \notin {"", "ok"}
                            ELSE verdict \notin {Pending, Accepted}

\* What the adapter looks for in the document: a layout, or "" when it is not
\* there, or "thrown" when an accessor meets a value of another type.
LayoutsIn ==
    CASE stage = "xml" -> {"events", ""}
      [] stage = "csv" -> {"rows", ""}
      [] value[1] = "object" -> {"features", ""}
      [] value[1] = "array" /\ source = "file" -> {"entries"}
      [] OTHER -> {"thrown"}

ParseReturns ==
    /\ stage \in Formats
    /\ IF Refused THEN Fails("parse")
       ELSE /\ IF stage = "csv" THEN outcome = "ok" ELSE verdict = Accepted
            /\ \E layout \in LayoutsIn :
                  IF layout = "" THEN Fails("layout")
                                 ELSE stage' = layout /\ UNCHANGED <<error, unseen>>
    /\ Turn("", "") /\ CsvLeft
    /\ UNCHANGED <<http, source, requests, raw_body, no_data, listed, observations>>
-----------------------------------------------------------------------------
(* The adapters' loops.  A record has what decides its fate: the presence    *)
(* and the types of its members, and whether its time can be read.           *)

Records == [
    features |-> [object : BOOLEAN, members : BOOLEAN,
                  coordinates : {"three", "fewer", "none", "no array"},
                  id : {"string", "other"}, time : {"number", "other", "no object"}],
    events   |-> [origin : BOOLEAN, id : {"some", "none"},
                  time : {"utc", "undesignated", "offset", "none"}],
    entries  |-> [object : BOOLEAN, id : {"some", "none"}, time : {"read", "unread"}],
    rows     |-> [latitude : {"valid", "outside", "none"}, longitude : {"some", "none"},
                  date : {"ten", "other"}, time : {"read", "unread"}]]

\* UsgsAdapter::parse: find and as_array throw on a value of another type.
FeatureFate(r) ==
    CASE ~r.object                             -> "thrown"
      [] ~r.members                            -> "dropped"
      [] r.coordinates = "no array"            -> "thrown"
      [] r.coordinates \in {"none", "fewer"}   -> "dropped"
      [] r.id # "string"                       -> "thrown"
      [] r.time = "no object"                  -> "thrown"
      [] r.time # "number"                     -> "dropped"
      [] OTHER                                 -> "kept"

\* IscAdapter::parse appends the designator, unless the time ends with it.
EventFate(r) ==
    IF r.origin /\ r.id = "some" /\ r.time \in {"utc", "undesignated"}
      THEN "kept" ELSE "dropped"

EntryFate(r) ==
    IF r.object /\ r.id = "some" /\ r.time = "read" THEN "kept" ELSE "dropped"

RowFate(r) ==
    IF r.latitude = "none" \/ r.longitude = "none" \/ r.date # "ten" THEN "dropped"
    ELSE IF r.time = "unread" \/ r.latitude = "outside" THEN "dropped"
    ELSE "kept"

FateOf(layout, r) == CASE layout = "features" -> FeatureFate(r)
                       [] layout = "events"   -> EventFate(r)
                       [] layout = "entries"  -> EntryFate(r)
                       [] layout = "rows"     -> RowFate(r)

\* The source_id an adapter's loop gives: a file's are rebranded at the end.
LoopSource == CASE stage = "features" -> "usgs"
                [] stage = "events"   -> "isc"
                [] OTHER              -> source

ReadRecord(r) ==
    /\ Len(listed) < MaxRecords
    /\ listed' = Append(listed, [layout |-> stage, record |-> r])
    /\ LET fate == FateOf(stage, r)
       IN  /\ stage' = IF fate = "thrown" THEN "thrown" ELSE stage
           /\ observations' =
                 IF fate = "kept"
                   THEN Append(observations, [source |-> LoopSource, of |-> Len(listed) + 1])
                   ELSE observations
    /\ UNCHANGED <<document, csv, http, source, requests, raw_body, no_data, error, unseen>>

Rebranded(o) == [o EXCEPT !.source = source]

NoEvents == stage = "events" /\ observations = <<>>

\* The ISC loop reports an error when it has kept nothing.
EndRecords ==
    /\ stage \in Layouts
    /\ Ends(IF NoEvents THEN "no events" ELSE "")
    /\ observations' = [n \in DOMAIN observations |-> Rebranded(observations[n])]
    /\ UNCHANGED <<document, csv, http, source, requests, raw_body, no_data, unseen, listed>>

Next ==
    \/ AskFirms
    \/ Transfer
    \/ http_fetch
    \/ FetchPart
    \/ OpenFile
    \/ \E format \in Formats : BeginParse(format)
    \/ ParseJson
    \/ ParseXml
    \/ ParseCsv
    \/ ParseReturns
    \/ stage \in Layouts /\ \E r \in Records[stage] : ReadRecord(r)
    \/ EndRecords

Spec == Init /\ [][Next]_vars
-----------------------------------------------------------------------------
\* Has what its adapter needs of a record: an identity, an instant, a place.
Usable(l) ==
    LET r == l.record
    IN  CASE l.layout = "features" -> /\ r.object /\ r.members /\ r.id = "string"
                                      /\ r.coordinates = "three" /\ r.time = "number"
          [] l.layout = "events"   -> /\ r.origin /\ r.id = "some"
                                      /\ r.time \in {"utc", "undesignated"}
          [] l.layout = "entries"  -> r.object /\ r.id = "some" /\ r.time = "read"
          [] l.layout = "rows"     -> /\ r.latitude = "valid" /\ r.longitude = "some"
                                      /\ r.date = "ten" /\ r.time = "read"

UsableOnes == {n \in DOMAIN listed : Usable(listed[n])}

\* The usable records, all of them, in the order of the document.
AreTheUsable(os) ==
    /\ \A k \in DOMAIN os : os[k].of \in UsableOnes
    /\ \A n \in UsableOnes : \E k \in DOMAIN os : os[k].of = n
    /\ \A j, k \in DOMAIN os : j < k => os[j].of < os[k].of

\* "We could not look" is never told as "no events here" (source.hpp:36): a fetch
\* that was refused a part of what it asked for, or could not read it, has an
\* error, whatever else went well.  What counts as an answer is the whole of a 2xx
\* response, within the limits, after permitted redirects (http.hpp:48); USGS and
\* ISC parse such an answer or, when it is empty, say "no data".  With an error or
\* without, a fetch that ends has every usable record of the document it read, in
\* its order, once, under the adapter's own identity; and an error without
\* anything unseen comes with no observations.  Left open, for there the code
\* differs from source.hpp: a document that lists nothing may be an error (it is in
\* ISC's parser, source.cpp:318), and FIRMS answered with nothing does not say so.
FetchTellsTheTruth ==
    /\ transfer = "answered" =>
          /\ status \in 200..299 /\ redirects <= max_redirects
          /\ sink = sent /\ sent <= max_response_bytes
    /\ stage = "body" /\ source \in {"usgs", "isc"} =>
          transfer = "answered" /\ raw_body = sent /\ sent > 0
    /\ no_data => transfer = "answered" /\ sent = 0 /\ error = "" /\ observations = <<>>
    /\ stage = "done" /\ transfer = "answered" /\ source \in {"usgs", "isc"} => no_data
    /\ stage = "done" =>
          /\ unseen => error # ""
          /\ error # "" => unseen \/ observations = <<>>
          /\ AreTheUsable(observations)
          /\ \A k \in DOMAIN observations : observations[k].source = source
=============================================================================
