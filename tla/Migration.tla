------------------------------ MODULE Migration ------------------------------
(***************************************************************************)
(* kst::db::Database::open: several kst processes, possibly of different    *)
(* builds, open one database file and bring its schema forward, one         *)
(* transaction per migration, with no busy timeout and no retry.            *)
(*                                                                         *)
(* Migration v + 1 takes the schema from version v to v + 1.  None of them  *)
(* can be applied twice: the first is a list of CREATE statements without   *)
(* IF NOT EXISTS, the later ones ALTER TABLE ... ADD COLUMN on its tables.  *)
(***************************************************************************)
EXTENDS Integers

CONSTANTS
    Proc,           \* the processes that open the file
    Build,          \* Build[p]: kSchemaVersion of the build p runs
    MaxFaults,      \* bound on statements that fail for an I/O reason
    MaxCrashes      \* bound on processes killed inside open

ASSUME BuildAssumption == Build \in [Proc -> Nat \ {0}]

ASSUME BoundAssumption == MaxFaults \in Nat /\ MaxCrashes \in Nat

VARIABLES
    disk,      \* the committed file: user_version, and the scripts applied
    lock,      \* the process holding SQLite's write lock, as a set
    staged,    \* staged[p]: the file as p's open transaction would leave it
    pc,        \* where each process is in open
    v,         \* v[p]: the index of the migration loop
    found,     \* history: disk.version when p's open began, never read
    broke,     \* history: who left the loop by its `break`, never read
    faults,
    crashes

vars == <<disk, lock, staged, pc, v, found, broke, faults, crashes>>

\* Indices of kMigrations in the newest build.
Known == {0} \cup UNION {0..Build[p] : p \in Proc}

File == [version : Known, applied : SUBSET Known]

Opening == {"open", "version", "begin", "script", "stamp", "commit"}

TypeOK ==
    /\ disk \in File
    /\ lock \in SUBSET Proc
    /\ staged \in [Proc -> File]
    /\ pc \in [Proc -> Opening \cup {"idle", "ready"}]
    /\ v \in [Proc -> Known]
    /\ \A p \in Proc : v[p] <= Build[p]
    /\ found \in [Proc -> Known]
    /\ broke \in SUBSET Proc
    /\ faults \in 0..MaxFaults
    /\ crashes \in 0..MaxCrashes

Schema(n) == [version |-> n, applied |-> 1..n]

\* The file is absent (version 0) or was left by some build's open.
Init ==
    /\ \E n \in {0} \cup {Build[p] : p \in Proc} : disk = Schema(n)
    /\ lock = {}
    /\ staged = [p \in Proc |-> Schema(0)]
    /\ pc = [p \in Proc |-> "idle"]
    /\ v = [p \in Proc |-> 0]
    /\ found = [p \in Proc |-> 0]
    /\ broke = {}
    /\ faults = 0
    /\ crashes = 0

-----------------------------------------------------------------------------
Goto(p, label) == pc' = [pc EXCEPT ![p] = label]

Fault ==
    /\ faults < MaxFaults
    /\ faults' = faults + 1

\* A connection that goes away, or rolls back, leaves no trace in the file.
DiscardLeaks(p) == lock' = lock
Discard(p) == lock' = lock \ {p}

\* A command is started; `found` notes what it finds.
Start(p) ==
    /\ pc[p] = "idle"
    /\ Goto(p, "open")
    /\ found' = [found EXCEPT ![p] = disk.version]
    /\ UNCHANGED <<disk, lock, staged, v, broke, faults, crashes>>

OpenFile(p) ==
    /\ pc[p] = "open"
    /\ Goto(p, "version")
    /\ UNCHANGED <<disk, lock, staged, v, found, broke, faults, crashes>>

OpenFileFails(p) ==
    /\ pc[p] = "open"
    /\ Fault
    /\ Goto(p, "idle")
    /\ UNCHANGED <<disk, lock, staged, v, found, broke, crashes>>

\* The test on schema_version(), made once, before the loop.
CheckSkipped(p, current) ==
    /\ v' = [v EXCEPT ![p] = current]
    /\ Goto(p, "begin")

CheckVersion(p, current) ==
    IF current > Build[p]
      THEN /\ Goto(p, "idle")
           /\ UNCHANGED v
      ELSE /\ v' = [v EXCEPT ![p] = current]
           /\ Goto(p, "begin")

ReadVersion(p) ==
    /\ pc[p] = "version"
    /\ CheckVersion(p, disk.version)
    /\ UNCHANGED <<disk, lock, staged, found, broke, faults, crashes>>

\* schema_version() answers 0 when its statement fails.
ReadVersionFails(p) ==
    /\ pc[p] = "version"
    /\ Fault
    /\ CheckVersion(p, 0)
    /\ UNCHANGED <<disk, lock, staged, found, broke, crashes>>

-----------------------------------------------------------------------------
(* The migration loop.                                                      *)

MoreButOne(p) == v[p] < Build[p] - 1
MoreAlways(p) == TRUE
More(p) == v[p] < Build[p]

\* BEGIN is deferred: it takes neither a lock nor a snapshot.
Begin(p) ==
    /\ pc[p] = "begin"
    /\ More(p)
    /\ Goto(p, "script")
    /\ UNCHANGED <<disk, lock, staged, v, found, broke, faults, crashes>>

\* `break`: the handle is returned as it is.
BeginFails(p) ==
    /\ pc[p] = "begin"
    /\ More(p)
    /\ Fault
    /\ Goto(p, "ready")
    /\ broke' = broke \cup {p}
    /\ UNCHANGED <<disk, lock, staged, v, found, crashes>>

Return(p) ==
    /\ pc[p] = "begin"
    /\ ~More(p)
    /\ Goto(p, "ready")
    /\ UNCHANGED <<disk, lock, staged, v, found, broke, faults, crashes>>

\* What kMigrations[v] needs of the file: its objects absent, its tables there.
AppliesIfNotExists(s, n) == n > 0 => 1 \in s.applied
Applies(s, n) ==
    /\ n + 1 \notin s.applied
    /\ n > 0 => 1 \in s.applied

\* Its first statement takes the write lock, or finds it taken.
RunScript(p) ==
    /\ pc[p] = "script"
    /\ lock \subseteq {p}
    /\ Applies(disk, v[p])
    /\ lock' = {p}
    /\ staged' = [staged EXCEPT ![p] =
                    [disk EXCEPT !.applied = @ \cup {v[p] + 1}]]
    /\ Goto(p, "stamp")
    /\ UNCHANGED <<disk, v, found, broke, faults, crashes>>

\* ROLLBACK; return nullopt.
ScriptFails(p) ==
    /\ pc[p] = "script"
    /\ ~(lock \subseteq {p} /\ Applies(disk, v[p]))
    /\ Discard(p)
    /\ Goto(p, "idle")
    /\ UNCHANGED <<disk, staged, v, found, broke, faults, crashes>>

StampUncommitted(p) ==
    /\ pc[p] = "stamp"
    /\ disk' = [disk EXCEPT !.version = v[p] + 1]
    /\ Goto(p, "commit")
    /\ staged' = [staged EXCEPT ![p].version = v[p] + 1]
    /\ UNCHANGED <<lock, v, found, broke, faults, crashes>>

\* PRAGMA user_version = v + 1, inside the transaction.
Stamp(p) ==
    /\ pc[p] = "stamp"
    /\ staged' = [staged EXCEPT ![p].version = v[p] + 1]
    /\ Goto(p, "commit")
    /\ UNCHANGED <<disk, lock, v, found, broke, faults, crashes>>

\* An I/O error in the script, the PRAGMA or the COMMIT: whether by ROLLBACK
\* or by closing the connection, the transaction is undone.
StatementFails(p) ==
    /\ pc[p] \in {"script", "stamp", "commit"}
    /\ Fault
    /\ Discard(p)
    /\ Goto(p, "idle")
    /\ UNCHANGED <<disk, staged, v, found, broke, crashes>>

Commit(p) ==
    /\ pc[p] = "commit"
    /\ disk' = staged[p]
    /\ Discard(p)
    /\ v' = [v EXCEPT ![p] = @ + 1]
    /\ Goto(p, "begin")
    /\ UNCHANGED <<staged, found, broke, faults, crashes>>

-----------------------------------------------------------------------------
\* The command that opened the file ends.
Close(p) ==
    /\ pc[p] = "ready"
    /\ Goto(p, "idle")
    /\ broke' = broke \ {p}
    /\ UNCHANGED <<disk, lock, staged, v, found, faults, crashes>>

Crash(p) ==
    /\ pc[p] \in Opening
    /\ crashes < MaxCrashes
    /\ crashes' = crashes + 1
    /\ Discard(p)
    /\ Goto(p, "idle")
    /\ UNCHANGED <<disk, staged, v, found, broke, faults>>

Step(p) ==
    \/ OpenFile(p)
    \/ OpenFileFails(p)
    \/ ReadVersion(p)
    \/ ReadVersionFails(p)
    \/ Begin(p)
    \/ BeginFails(p)
    \/ Return(p)
    \/ RunScript(p)
    \/ ScriptFails(p)
    \/ Stamp(p)
    \/ StatementFails(p)
    \/ Commit(p)

Next == \E p \in Proc : Start(p) \/ Step(p) \/ Close(p) \/ Crash(p)

Spec == Init /\ [][Next]_vars

\* A process inside open keeps running; commands are started when they are.
FairSpec ==
    /\ Spec
    /\ \A p \in Proc : WF_vars(Step(p))

-----------------------------------------------------------------------------
(* Properties                                                               *)

\* The version the file carries names exactly the scripts applied to it, in
\* every state a reader or a crash can find: the script and its version are
\* one transaction, and no race of two openers applies one twice or skips one.
SchemaMatchesVersion == disk.applied = 1..disk.version

\* Forward migrations, one at a time and in order (REQ-4.2): no commit made on
\* a version read earlier, by this or another build, sets the file back.
VersionsAdvanceByOne ==
    [][disk'.version # disk.version => disk'.version = disk.version + 1]_vars

\* A handle that open returns at the end of its loop is on a file migrated at
\* least as far as the build that holds it.
HandleIsMigrated ==
    \A p \in Proc \ broke : pc[p] = "ready" => disk.version >= Build[p]

\* A file that was already newer than the build when open began is refused,
\* even when reading its version fails and schema_version() answers 0.
NewerIsRefused ==
    \A p \in Proc \ broke : pc[p] = "ready" => found[p] <= Build[p]

\* Openers that race make each other fail, and nothing retries inside open.
\* But each failure is paid for by another's progress: a user of the newest
\* build who keeps running the command gets a handle in the end.
Newest(p) == \A q \in Proc : Build[q] <= Build[p]

RetryingOpens ==
    \A p \in Proc :
        Newest(p) => ([]<>(pc[p] = "open") => []<>(pc[p] = "ready"))
=============================================================================
