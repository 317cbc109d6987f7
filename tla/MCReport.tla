------------------------------ MODULE MCReport ------------------------------
EXTENDS Report

(* One event, in a service's catalog and in a file.  The second body revises   *)
(* it to an earlier time, so that a revision moves a row past the other.       *)
MCSays(b, id) == TRUE
MCTimeOf(b, id) == IF b = "revised" THEN 1 ELSE 2
MCRank(k) == IF k[1] = "isc" THEN 1 ELSE 2

MCOptions == {[offline |-> off, firms |-> FALSE, files |-> files, seeds |-> {}] :
                 off \in BOOLEAN, files \in SUBSET Path}
=============================================================================
