------------------------------ MODULE MCIngest -------------------------------
EXTENDS Ingest, TLC

(* A service, and two files given with two --file options: both adapters of *)
(* a file carry the source identifier "file", so their ids share a          *)
(* namespace.  At its second revision each drops or adds an event.          *)
CONSTANTS svc, fileA, fileB

OriginDef   == {svc, fileA, fileB}
SourceOfDef == [o \in OriginDef |-> IF o = svc THEN "isc" ELSE "file"]
ListingDef  == (svc   :> << <<1, 2>>, <<2>> >>) @@
               (fileA :> << <<1>>, <<1>> >>) @@
               (fileB :> << <<1, 2>> >>)

One        == {1}
OneAdapters == [p \in One |-> <<svc, fileA, fileB>>]
Two        == {1, 2}
TwoAdapters == [p \in Two |-> <<svc>>]
=============================================================================
