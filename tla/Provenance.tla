----------------------------- MODULE Provenance ------------------------------
(***************************************************************************)
(* What the store promises about evidence (REQ-2.10, REQ-4.5, README.md:23): *)
(* every assertion traces back to a source.  Bodies and retrievals only     *)
(* accumulate, a retrieval names an archived body, and a catalog entry only *)
(* ever takes a value from a body that was retrieved from that entry's own  *)
(* source and lists it.                                                     *)
(***************************************************************************)
CONSTANTS Source, Id, Body, None, Says(_, _)   \* Says(b, id): body b lists id

VARIABLES
    archive,     \* the bodies kept
    evidence,    \* the pairs <<source, body>> of the retrievals kept
    catalog      \* catalog[<<source, id>>]: the body its value is from

vars == <<archive, evidence, catalog>>

Init ==
    /\ archive = {}
    /\ evidence = {}
    /\ catalog = [k \in Source \X Id |-> None]

Archive(b) ==
    /\ archive' = archive \cup {b}
    /\ UNCHANGED <<evidence, catalog>>

Record(s, b) ==
    /\ b \in archive
    /\ evidence' = evidence \cup {<<s, b>>}
    /\ UNCHANGED <<archive, catalog>>

Adopt(s, id, b) ==
    /\ <<s, b>> \in evidence
    /\ Says(b, id)
    /\ catalog' = [catalog EXCEPT ![<<s, id>>] = b]
    /\ UNCHANGED <<archive, evidence>>

Next ==
    \E b \in Body :
        \/ Archive(b)
        \/ \E s \in Source : Record(s, b)
        \/ \E s \in Source, id \in Id : Adopt(s, id, b)

Spec == Init /\ [][Next]_vars
=============================================================================
