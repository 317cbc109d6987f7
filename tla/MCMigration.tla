----------------------------- MODULE MCMigration -----------------------------
EXTENDS Migration

(* Three commands: one from the build before the last migration, two from   *)
(* the current build, whose kSchemaVersion is 2.                            *)
ProcDef == 1..3
BuildDef == [p \in ProcDef |-> IF p = 1 THEN 1 ELSE 2]
=============================================================================
