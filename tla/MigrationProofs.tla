--------------------------- MODULE MigrationProofs ---------------------------
(***************************************************************************)
(* Proofs about Database::open for any number of processes, any builds and  *)
(* any number of migrations, faults and crashes.                            *)
(***************************************************************************)
EXTENDS Migration, TLAPS

InLoop == {"begin", "script", "stamp", "commit"}
InTransaction == {"stamp", "commit"}

(* The write lock is held by one process, inside its transaction.           *)
Locked ==
    /\ \A p \in Proc : p \in lock <=> pc[p] \in InTransaction
    /\ \A p, q \in lock : p = q

(* Inside a transaction the loop index is the version on disk, and what is  *)
(* staged is that file one migration further.                               *)
Staging ==
    \A p \in Proc :
        /\ pc[p] \in InLoop => v[p] <= disk.version
        /\ pc[p] \in InTransaction =>
            /\ v[p] = disk.version
            /\ v[p] < Build[p]
            /\ staged[p].applied = disk.applied \cup {v[p] + 1}
        /\ pc[p] = "script" => v[p] < Build[p]
        /\ pc[p] = "commit" => staged[p].version = v[p] + 1

(* An opener that found a newer file believes it found an empty one, or has *)
(* not looked yet.                                                          *)
Mistaken ==
    \A p \in Proc :
        /\ pc[p] # "idle" => found[p] <= disk.version
        /\ pc[p] \in InLoop /\ found[p] > Build[p] => v[p] = 0

IInv ==
    /\ TypeOK
    /\ Locked
    /\ Staging
    /\ SchemaMatchesVersion
    /\ Mistaken

-----------------------------------------------------------------------------
LEMMA KnownBelow ==
    /\ Known \subseteq Nat
    /\ 0 \in Known
    /\ \A p \in Proc : \A n \in Nat : n <= Build[p] => n \in Known
    /\ \A n \in Known : 1..n \subseteq Known
  <1>1. \A p \in Proc : Build[p] \in Nat
    BY BuildAssumption
  <1>2. Known \subseteq Nat
    BY <1>1 DEF Known
  <1>3. 0 \in Known
    BY DEF Known
  <1>4. \A p \in Proc : \A n \in Nat : n <= Build[p] => n \in Known
    BY <1>1 DEF Known
  <1>5. ASSUME NEW n \in Known, NEW m \in 1..n PROVE m \in Known
    <2>1. CASE n = 0
      BY <2>1
    <2>2. CASE n # 0
      <3>1. PICK p \in Proc : n \in 0..Build[p]
        BY <2>2 DEF Known
      <3> QED
        BY <1>1, <1>4, <3>1
    <2> QED
      BY <2>1, <2>2
  <1> QED
    BY <1>2, <1>3, <1>4, <1>5

(* The numbers of a state are natural, and every build has a migration.     *)
LEMMA Numbers ==
    ASSUME TypeOK, NEW p \in Proc
    PROVE  /\ disk.version \in Nat
           /\ v[p] \in Nat /\ v[p] \in Known /\ v[p] <= Build[p]
           /\ found[p] \in Nat
           /\ Build[p] \in Nat /\ Build[p] >= 1
  <1>1. disk.version \in Known /\ v[p] \in Known /\ found[p] \in Known
    BY DEF TypeOK, File
  <1>2. Known \subseteq Nat
    BY KnownBelow
  <1>3. v[p] <= Build[p]
    BY DEF TypeOK
  <1>4. Build[p] \in Nat /\ Build[p] >= 1
    BY BuildAssumption
  <1> QED
    BY <1>1, <1>2, <1>3, <1>4

(* The file any build leaves behind is a file.                              *)
LEMMA SchemaIsFile == ASSUME NEW n \in Known PROVE Schema(n) \in File
  <1>1. 1..n \in SUBSET Known
    BY KnownBelow
  <1> QED
    BY <1>1 DEF Schema, File

THEOREM InitIInv == Init => IInv
  <1> SUFFICES ASSUME Init PROVE IInv
    OBVIOUS
  <1> USE DEF Init
  <1>1. PICK n \in {0} \cup {Build[p] : p \in Proc} : disk = Schema(n)
    OBVIOUS
  <1>2. n \in Known /\ Schema(n) \in File /\ Schema(0) \in File
    BY KnownBelow, SchemaIsFile, BuildAssumption
  <1>3. TypeOK
    BY <1>1, <1>2, KnownBelow, BuildAssumption, BoundAssumption DEF TypeOK
  <1>4. Locked
    BY DEF Locked, InTransaction
  <1>5. Staging
    BY DEF Staging, InLoop, InTransaction
  <1>6. SchemaMatchesVersion
    BY <1>1 DEF SchemaMatchesVersion, Schema
  <1>7. Mistaken
    BY DEF Mistaken, InLoop
  <1> QED
    BY <1>3, <1>4, <1>5, <1>6, <1>7 DEF IInv

-----------------------------------------------------------------------------
(* A script runs only on the file it was written for: the loop index, read  *)
(* before the transaction and possibly stale, is the version on disk.       *)
LEMMA ScriptFindsItsVersion ==
    ASSUME IInv, NEW p \in Proc, RunScript(p)
    PROVE  /\ v[p] = disk.version
           /\ v[p] < Build[p]
           /\ \A q \in Proc : pc[q] \notin InTransaction
  <1> USE DEF IInv
  <1>1. v[p] + 1 \notin 1..disk.version
    BY DEF RunScript, Applies, SchemaMatchesVersion
  <1>2. v[p] \in Nat /\ disk.version \in Nat
    BY Numbers
  <1>3. v[p] <= disk.version /\ v[p] < Build[p]
    BY DEF RunScript, Staging, InLoop
  <1>4. v[p] = disk.version
    BY <1>1, <1>2, <1>3
  <1>5. \A q \in Proc : pc[q] \notin InTransaction
    BY DEF RunScript, Locked, InTransaction
  <1> QED
    BY <1>3, <1>4, <1>5

(* What a commit makes of the file.                                         *)
LEMMA CommitAdvances ==
    ASSUME IInv, NEW p \in Proc, Commit(p)
    PROVE  /\ disk' \in File
           /\ v[p] = disk.version
           /\ disk'.version = disk.version + 1
           /\ disk'.applied = 1..(disk.version + 1)
           /\ v[p] + 1 <= Build[p]
           /\ v[p] + 1 \in Known
  <1> USE DEF IInv
  <1>1. /\ v[p] = disk.version /\ v[p] < Build[p]
        /\ staged[p].applied = disk.applied \cup {v[p] + 1}
        /\ staged[p].version = v[p] + 1
        /\ disk' = staged[p]
    BY DEF Commit, Staging, InTransaction
  <1>2. disk.version \in Nat /\ Build[p] \in Nat
    BY Numbers
  <1>3. disk.applied = 1..disk.version
    BY DEF SchemaMatchesVersion
  <1>4. (1..disk.version) \cup {disk.version + 1} = 1..(disk.version + 1)
    BY <1>2
  <1>5. v[p] + 1 \in Known
    BY <1>1, <1>2, KnownBelow
  <1>6. staged[p] \in File
    BY DEF TypeOK
  <1>7. disk.applied \cup {v[p] + 1} = 1..(disk.version + 1)
    BY <1>1, <1>3, <1>4
  <1>8. v[p] + 1 <= Build[p]
    BY <1>1, <1>2
  <1> QED
    BY <1>1, <1>5, <1>6, <1>7, <1>8

LEMMA TypeStep == IInv /\ [Next]_vars => TypeOK'
  <1> SUFFICES ASSUME IInv, [Next]_vars PROVE TypeOK'
    OBVIOUS
  <1> USE BoundAssumption DEF IInv, TypeOK, Goto, Discard, Fault, Opening
  <1>1. ASSUME NEW p \in Proc, Start(p) PROVE TypeOK'
    BY <1>1 DEF Start, File
  <1>2. ASSUME NEW p \in Proc, OpenFile(p) PROVE TypeOK'
    BY <1>2 DEF OpenFile
  <1>3. ASSUME NEW p \in Proc, OpenFileFails(p) PROVE TypeOK'
    BY <1>3 DEF OpenFileFails
  <1>4. ASSUME NEW p \in Proc, NEW current \in Known,
               CheckVersion(p, current),
               UNCHANGED <<disk, lock, staged, found, broke, crashes>>,
               faults' \in 0..MaxFaults
        PROVE  TypeOK'
    <2>1. CASE current > Build[p]
      BY <1>4, <2>1 DEF CheckVersion
    <2>2. CASE ~(current > Build[p])
      <3>1. current <= Build[p]
        BY <2>2, KnownBelow, Numbers
      <3> QED
        BY <1>4, <2>2, <3>1 DEF CheckVersion
    <2> QED
      BY <2>1, <2>2
  <1>5. ASSUME NEW p \in Proc, ReadVersion(p) \/ ReadVersionFails(p) PROVE TypeOK'
    <2>1. CASE ReadVersion(p)
      <3>1. CheckVersion(p, disk.version) /\ disk.version \in Known
        BY <2>1 DEF ReadVersion, File
      <3> QED
        BY <1>4, <2>1, <3>1 DEF ReadVersion
    <2>2. CASE ReadVersionFails(p)
      <3>1. CheckVersion(p, 0) /\ 0 \in Known
        BY <2>2, KnownBelow DEF ReadVersionFails
      <3> QED
        BY <1>4, <2>2, <3>1 DEF ReadVersionFails
    <2> QED
      BY <1>5, <2>1, <2>2
  <1>6. ASSUME NEW p \in Proc, Begin(p) \/ BeginFails(p) \/ Return(p) PROVE TypeOK'
    BY <1>6 DEF Begin, BeginFails, Return
  <1>7. ASSUME NEW p \in Proc, RunScript(p) PROVE TypeOK'
    <2>1. v[p] + 1 \in Known
      BY <1>7, ScriptFindsItsVersion, Numbers, KnownBelow
    <2>2. [disk EXCEPT !.applied = @ \cup {v[p] + 1}] \in File
      BY <2>1 DEF File
    <2> QED
      BY <1>7, <2>2 DEF RunScript
  <1>8. ASSUME NEW p \in Proc, ScriptFails(p) \/ StatementFails(p) PROVE TypeOK'
    BY <1>8 DEF ScriptFails, StatementFails
  <1>9. ASSUME NEW p \in Proc, Stamp(p) PROVE TypeOK'
    <2>1. v[p] + 1 \in Known
      BY <1>9, Numbers, KnownBelow DEF Stamp, Staging, InTransaction
    <2>2. [staged[p] EXCEPT !.version = v[p] + 1] \in File
      BY <2>1 DEF File
    <2> QED
      BY <1>9, <2>2 DEF Stamp
  <1>10. ASSUME NEW p \in Proc, Commit(p) PROVE TypeOK'
    BY <1>10, CommitAdvances DEF Commit
  <1>11. ASSUME NEW p \in Proc, Close(p) \/ Crash(p) PROVE TypeOK'
    BY <1>11 DEF Close, Crash
  <1>12. CASE UNCHANGED vars
    BY <1>12 DEF vars
  <1> QED
    BY <1>1, <1>2, <1>3, <1>5, <1>6, <1>7, <1>8, <1>9, <1>10, <1>11, <1>12
       DEF Next, Step

(* Every step of p leaves the label and the loop index of the others alone. *)
LEMMA OthersUntouched ==
    ASSUME TypeOK, NEW p \in Proc, Start(p) \/ Step(p) \/ Close(p) \/ Crash(p)
    PROVE  \A q \in Proc \ {p} :
               /\ pc'[q] = pc[q] /\ v'[q] = v[q] /\ found'[q] = found[q]
               /\ staged'[q] = staged[q]
               /\ q \in broke' <=> q \in broke
  BY DEF TypeOK, Start, Step, Close, Crash, OpenFile, OpenFileFails, ReadVersion,
     ReadVersionFails, CheckVersion, Begin, BeginFails, Return, RunScript,
     ScriptFails, Stamp, StatementFails, Commit, Goto

LEMMA LockedStep == IInv /\ [Next]_vars => Locked'
  <1> SUFFICES ASSUME IInv, [Next]_vars PROVE Locked'
    OBVIOUS
  <1> USE DEF IInv, TypeOK, Locked, InTransaction, Goto, Discard
  <1>1. CASE UNCHANGED vars
    BY <1>1 DEF vars
  <1>2. ASSUME NEW p \in Proc, Start(p) \/ OpenFile(p) \/ OpenFileFails(p)
                  \/ Begin(p) \/ BeginFails(p) \/ Return(p) \/ Stamp(p) \/ Close(p)
        PROVE  Locked'
    BY <1>2 DEF Start, OpenFile, OpenFileFails, Begin, BeginFails, Return, Stamp,
       Close
  <1>3. ASSUME NEW p \in Proc, ReadVersion(p) \/ ReadVersionFails(p) PROVE Locked'
    BY <1>3 DEF ReadVersion, ReadVersionFails, CheckVersion
  <1>4. ASSUME NEW p \in Proc, RunScript(p) PROVE Locked'
    BY <1>4 DEF RunScript
  <1>5. ASSUME NEW p \in Proc,
               ScriptFails(p) \/ StatementFails(p) \/ Commit(p) \/ Crash(p)
        PROVE  Locked'
    BY <1>5 DEF ScriptFails, StatementFails, Commit, Crash
  <1> QED
    BY <1>1, <1>2, <1>3, <1>4, <1>5 DEF Next, Step

(* No other process is in a transaction when one commits.                   *)
LEMMA CommitIsAlone ==
    ASSUME IInv, NEW p \in Proc, Commit(p), NEW q \in Proc \ {p}
    PROVE  pc[q] \notin InTransaction
  BY DEF IInv, Locked, Commit, InTransaction

LEMMA StagingStep == IInv /\ [Next]_vars => Staging'
  <1> SUFFICES ASSUME IInv, [Next]_vars PROVE Staging'
    OBVIOUS
  <1> USE DEF IInv, Staging, InLoop, InTransaction, Goto
  <1>1. CASE UNCHANGED vars
    BY <1>1 DEF vars
  <1>2. ASSUME NEW p \in Proc, Start(p) \/ Step(p) \/ Close(p) \/ Crash(p)
        PROVE  Staging'
    <2>0. pc \in [Proc -> Opening \cup {"idle", "ready"}] /\ v \in [Proc -> Known]
            /\ staged \in [Proc -> File]
      BY DEF TypeOK
    <2>1. CASE disk' = disk
      <3>1. ASSUME NEW q \in Proc \ {p} PROVE
               /\ pc'[q] \in InLoop => v'[q] <= disk'.version
               /\ pc'[q] \in InTransaction =>
                    /\ v'[q] = disk'.version /\ v'[q] < Build[q]
                    /\ staged'[q].applied = disk'.applied \cup {v'[q] + 1}
               /\ pc'[q] = "script" => v'[q] < Build[q]
               /\ pc'[q] = "commit" => staged'[q].version = v'[q] + 1
        BY <1>2, <2>1, OthersUntouched
      <3>2. /\ pc'[p] \in InLoop => v'[p] <= disk'.version
            /\ pc'[p] \in InTransaction =>
                    /\ v'[p] = disk'.version /\ v'[p] < Build[p]
                    /\ staged'[p].applied = disk'.applied \cup {v'[p] + 1}
            /\ pc'[p] = "script" => v'[p] < Build[p]
            /\ pc'[p] = "commit" => staged'[p].version = v'[p] + 1
        <4>1. CASE Start(p) \/ OpenFile(p) \/ OpenFileFails(p) \/ BeginFails(p)
                    \/ Return(p) \/ Close(p) \/ Crash(p) \/ ScriptFails(p)
                    \/ StatementFails(p)
          BY <2>0, <2>1, <4>1 DEF Start, OpenFile, OpenFileFails, BeginFails,
             Return, Close, Crash, ScriptFails, StatementFails
        <4>2. CASE ReadVersion(p) \/ ReadVersionFails(p)
          BY <2>0, <2>1, <4>2, Numbers DEF ReadVersion, ReadVersionFails, CheckVersion
        <4>3. CASE Begin(p)
          BY <2>0, <2>1, <4>3 DEF Begin, More
        <4>4. CASE RunScript(p)
          <5>1. v[p] = disk.version /\ v[p] < Build[p]
            BY <4>4, ScriptFindsItsVersion
          <5>2. staged'[p].applied = disk.applied \cup {v[p] + 1}
            BY <2>0, <4>4 DEF RunScript, TypeOK, File
          <5> QED
            BY <2>0, <2>1, <4>4, <5>1, <5>2 DEF RunScript
        <4>5. CASE Stamp(p)
          <5>1. /\ staged'[p].version = v[p] + 1
                /\ staged'[p].applied = staged[p].applied
            BY <2>0, <4>5 DEF Stamp, File
          <5> QED
            BY <2>0, <2>1, <4>5, <5>1 DEF Stamp
        <4>6. CASE Commit(p)
          BY <2>1, <4>6, CommitAdvances, Numbers
        <4> QED
          BY <1>2, <4>1, <4>2, <4>3, <4>4, <4>5, <4>6 DEF Step
      <3> QED
        BY <3>1, <3>2
    <2>2. CASE Commit(p)
      <3>1. disk'.version = disk.version + 1 /\ disk.version \in Nat
        BY <2>2, CommitAdvances, Numbers
      <3>2. ASSUME NEW q \in Proc \ {p} PROVE
               /\ pc'[q] \in InLoop => v'[q] <= disk'.version
               /\ pc'[q] \notin InTransaction
               /\ pc'[q] = "script" => v'[q] < Build[q]
        BY <1>2, <2>2, <3>1, OthersUntouched, CommitIsAlone, Numbers
      <3>3. pc'[p] = "begin" /\ v'[p] = disk.version + 1
        BY <2>0, <2>2, CommitAdvances DEF Commit
      <3> QED
        BY <3>1, <3>2, <3>3
    <2> QED
      BY <1>2, <2>1, <2>2 DEF Start, Step, Close, Crash, OpenFile, OpenFileFails,
         ReadVersion, ReadVersionFails, Begin, BeginFails, Return, RunScript,
         ScriptFails, Stamp, StatementFails
  <1> QED
    BY <1>1, <1>2 DEF Next

(* Nothing but a commit changes the file, and what a commit changes it to.  *)
LEMMA DiskStep ==
    ASSUME IInv, [Next]_vars
    PROVE  \/ disk' = disk
           \/ /\ disk'.version = disk.version + 1
              /\ disk'.applied = 1..(disk.version + 1)
  <1>1. ASSUME NEW p \in Proc, Commit(p)
        PROVE  /\ disk'.version = disk.version + 1
               /\ disk'.applied = 1..(disk.version + 1)
    BY <1>1, CommitAdvances
  <1>2. (\E p \in Proc : Commit(p)) \/ disk' = disk
    BY DEF Next, vars, Start, Step, Close, Crash, OpenFile, OpenFileFails,
       ReadVersion, ReadVersionFails, Begin, BeginFails, Return, RunScript,
       ScriptFails, Stamp, StatementFails
  <1> QED
    BY <1>1, <1>2

LEMMA SchemaStep == IInv /\ [Next]_vars => SchemaMatchesVersion'
  BY DiskStep DEF IInv, SchemaMatchesVersion

LEMMA VersionGrows ==
    ASSUME IInv, [Next]_vars
    PROVE  disk.version \in Nat /\ disk'.version \in Nat /\ disk.version <= disk'.version
  <1>1. disk.version \in Nat
    BY KnownBelow DEF IInv, TypeOK, File
  <1> QED
    BY <1>1, DiskStep

LEMMA MistakenStep == IInv /\ [Next]_vars => Mistaken'
  <1> SUFFICES ASSUME IInv, [Next]_vars PROVE Mistaken'
    OBVIOUS
  <1> USE DEF IInv, Mistaken, InLoop, Goto
  <1>0. disk.version \in Nat /\ disk'.version \in Nat /\ disk.version <= disk'.version
    BY VersionGrows
  <1>1. CASE UNCHANGED vars
    BY <1>1 DEF vars
  <1>2. ASSUME NEW p \in Proc, Start(p) \/ Step(p) \/ Close(p) \/ Crash(p)
        PROVE  Mistaken'
    <2>0. /\ pc \in [Proc -> Opening \cup {"idle", "ready"}]
          /\ v \in [Proc -> Known] /\ found \in [Proc -> Known]
      BY DEF TypeOK
    <2>1. ASSUME NEW q \in Proc \ {p}
          PROVE  /\ pc'[q] # "idle" => found'[q] <= disk'.version
                 /\ pc'[q] \in InLoop /\ found'[q] > Build[q] => v'[q] = 0
      BY <1>0, <1>2, OthersUntouched, Numbers
    <2>2. /\ pc'[p] # "idle" => found'[p] <= disk'.version
          /\ pc'[p] \in InLoop /\ found'[p] > Build[p] => v'[p] = 0
      <3>1. CASE Start(p)
        BY <1>0, <2>0, <3>1 DEF Start
      <3>2. CASE OpenFile(p) \/ OpenFileFails(p) \/ BeginFails(p) \/ Return(p)
                  \/ Begin(p) \/ Close(p) \/ Crash(p) \/ ScriptFails(p)
                  \/ StatementFails(p) \/ RunScript(p) \/ Stamp(p)
        BY <1>0, <2>0, <3>2 DEF OpenFile, OpenFileFails, BeginFails, Return, Begin,
           Close, Crash, ScriptFails, StatementFails, RunScript, Stamp, Opening
      <3>3. CASE ReadVersion(p)
        <4>1. found[p] <= disk.version /\ disk'.version = disk.version
          BY <3>3 DEF ReadVersion
        <4>2. disk.version > Build[p] \/ ~(found[p] > Build[p])
          BY <4>1, Numbers
        <4> QED
          BY <2>0, <3>3, <4>1, <4>2 DEF ReadVersion, CheckVersion
      <3>4. CASE ReadVersionFails(p)
        BY <1>0, <2>0, <3>4, Numbers DEF ReadVersionFails, CheckVersion
      <3>5. CASE Commit(p)
        <4>1. v[p] = disk.version /\ v[p] + 1 <= Build[p]
          BY <3>5, CommitAdvances
        <4>2. found[p] <= disk.version
          BY <3>5 DEF Commit
        <4>3. ~(found[p] > Build[p])
          BY <4>1, <4>2, Numbers
        <4>4. found[p] <= disk'.version
          BY <1>0, <4>2, Numbers
        <4> QED
          BY <2>0, <3>5, <4>3, <4>4 DEF Commit
      <3> QED
        BY <1>2, <3>1, <3>2, <3>3, <3>4, <3>5 DEF Step
    <2> QED
      BY <2>1, <2>2
  <1> QED
    BY <1>1, <1>2 DEF Next

(* The strengthened invariant holds of every reachable state.               *)
THEOREM Inductive == Spec => []IInv
  <1>1. IInv /\ [Next]_vars => IInv'
    BY TypeStep, LockedStep, StagingStep, SchemaStep, MistakenStep DEF IInv
  <1> QED
    BY <1>1, InitIInv, PTL DEF Spec

-----------------------------------------------------------------------------
(* The loop never indexes kMigrations outside the build's own table.        *)
THEOREM TypeCorrect == Spec => []TypeOK
  <1>1. IInv => TypeOK
    BY DEF IInv
  <1> QED
    BY <1>1, Inductive, PTL

(* Whatever races, faults and crashes there are, the version in the file    *)
(* names exactly the migrations applied to it.                              *)
THEOREM SchemaCorrect == Spec => []SchemaMatchesVersion
  <1>1. IInv => SchemaMatchesVersion
    BY DEF IInv
  <1> QED
    BY <1>1, Inductive, PTL

(* No opener, however stale the version it read, sets the file back or      *)
(* skips a migration.                                                       *)
THEOREM MigrationsAdvance == Spec => VersionsAdvanceByOne
  <1>1. IInv /\ [Next]_vars =>
           [disk'.version # disk.version => disk'.version = disk.version + 1]_vars
    BY DiskStep
  <1> QED
    BY <1>1, Inductive, PTL DEF Spec, VersionsAdvanceByOne

-----------------------------------------------------------------------------
(* What a handle is worth.                                                  *)
Handles == HandleIsMigrated /\ NewerIsRefused

LEMMA HandlesStep == IInv /\ Handles /\ [Next]_vars => Handles'
  <1> SUFFICES ASSUME IInv, Handles, [Next]_vars PROVE Handles'
    OBVIOUS
  <1> USE DEF Handles, HandleIsMigrated, NewerIsRefused, Goto
  <1>0. disk.version \in Nat /\ disk'.version \in Nat /\ disk.version <= disk'.version
    BY VersionGrows
  <1>1. CASE UNCHANGED vars
    BY <1>1 DEF vars
  <1>2. ASSUME NEW p \in Proc, Start(p) \/ Step(p) \/ Close(p) \/ Crash(p)
        PROVE  Handles'
    <2>0. pc \in [Proc -> Opening \cup {"idle", "ready"}] /\ TypeOK
      BY DEF IInv, TypeOK
    <2>1. ASSUME NEW q \in Proc \ {p}, pc'[q] = "ready", q \notin broke'
          PROVE  disk'.version >= Build[q] /\ found'[q] <= Build[q]
      <3>1. disk.version >= Build[q] /\ found'[q] <= Build[q]
        BY <1>2, <2>0, <2>1, OthersUntouched
      <3> QED
        BY <1>0, <2>0, <3>1, Numbers
    <2>2. ASSUME pc'[p] = "ready", p \notin broke'
          PROVE  disk'.version >= Build[p] /\ found'[p] <= Build[p]
      <3>1. Return(p)
        BY <1>2, <2>0, <2>2 DEF Start, Step, Close, Crash, OpenFile, OpenFileFails,
           ReadVersion, ReadVersionFails, CheckVersion, Begin, BeginFails, RunScript,
           ScriptFails, Stamp, StatementFails, Commit
      <3>2. v[p] <= disk.version /\ (found[p] > Build[p] => v[p] = 0)
        BY <3>1 DEF IInv, Staging, Mistaken, InLoop, Return
      <3>3. v[p] >= Build[p]
        BY <2>0, <3>1, Numbers DEF Return, More
      <3>4. disk' = disk /\ found' = found
        BY <3>1 DEF Return
      <3> QED
        BY <2>0, <3>2, <3>3, <3>4, Numbers
    <2> QED
      BY <2>1, <2>2
  <1> QED
    BY <1>1, <1>2 DEF Next

LEMMA HandlesCorrect == Spec => []Handles
  <1>1. Init => Handles
    BY DEF Init, Handles, HandleIsMigrated, NewerIsRefused
  <1>2. IInv /\ Handles /\ [Next]_vars => Handles'
    BY HandlesStep
  <1> QED
    BY <1>1, <1>2, Inductive, PTL DEF Spec

(* However stale the version it read, and whatever the other openers do, the *)
(* loop ends only on a file migrated as far as its build.                   *)
THEOREM HandlesMigrated == Spec => []HandleIsMigrated
  <1>1. Handles => HandleIsMigrated
    BY DEF Handles
  <1> QED
    BY <1>1, HandlesCorrect, PTL

(* A file that was already newer when open began is refused, even when      *)
(* reading its version fails, unless BEGIN then fails too.                  *)
THEOREM NewerRefused == Spec => []NewerIsRefused
  <1>1. Handles => NewerIsRefused
    BY DEF Handles
  <1> QED
    BY <1>1, HandlesCorrect, PTL
=============================================================================
