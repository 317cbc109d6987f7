------------------------------ MODULE Correlate ------------------------------
(***************************************************************************)
(* The union-find of kst::analysis::correlate: the double loop over the     *)
(* canonically sorted observations, find with path compression, the union   *)
(* of two roots, the association reasons filed under a root, and the final   *)
(* pass that collects the groups an Event is built from.                    *)
(*                                                                         *)
(* An observation is its index in the sorted vector.  What                  *)
(* same_physical_event says of each pair is the input of the call, here     *)
(* any relation at all: the algorithm must be right for every one.          *)
(***************************************************************************)
EXTENDS Integers

CONSTANT N     \* number of observations

ASSUME NAssumption == N \in Nat

Obs   == 1..N
Pairs == {q \in Obs \X Obs : q[1] < q[2]}

VARIABLES
    assoc,     \* input: the pairs same_physical_event accepts
    pc,        \* which call of find, or which loop, the code is in
    i, j,      \* the loop indices
    parent,    \* the union-find forest
    cur,       \* argument of the innermost active find
    path,      \* arguments of the enclosing finds: their parent is rewritten
    ri,        \* find(i), kept while find(j) runs
    reasons,   \* reasons[r]: the associations filed under root r
    groups,    \* groups[r]: the members collected under root r
    rep        \* history: the root of each element's tree, never read

vars == <<assoc, pc, i, j, parent, cur, path, ri, reasons, groups, rep>>

Finding == {"findI", "findJ", "findReason", "findGroup"}

TypeOK ==
    /\ assoc \in SUBSET Pairs
    /\ pc \in Finding \cup {"pair", "collect", "done"}
    /\ i \in 1..(N + 1)
    /\ j \in 1..(N + 2)
    /\ parent \in [Obs -> Obs]
    /\ cur \in Obs \cup {0}
    /\ path \in SUBSET Obs
    /\ ri \in Obs \cup {0}
    /\ reasons \in [Obs -> SUBSET Pairs]
    /\ groups \in [Obs -> SUBSET Obs]
    /\ rep \in [Obs -> Obs]

Init ==
    /\ assoc \in SUBSET Pairs
    /\ pc = "pair"
    /\ i = 1
    /\ j = 2
    /\ parent = [x \in Obs |-> x]
    /\ cur = 0
    /\ path = {}
    /\ ri = 0
    /\ reasons = [x \in Obs |-> {}]
    /\ groups = [x \in Obs |-> {}]
    /\ rep = [x \in Obs |-> x]

-----------------------------------------------------------------------------
(* find(x): follow parent to a root, then point every element of the path   *)
(* at it while the recursion unwinds.                                       *)

Call(phase, x) ==
    /\ pc' = phase
    /\ cur' = x
    /\ path' = {}

Found == parent[cur] = cur

Compressed == [x \in Obs |-> IF x \in path THEN cur ELSE parent[x]]

FindStep ==
    /\ pc \in Finding
    /\ ~Found
    /\ path' = path \cup {cur}
    /\ cur' = parent[cur]
    /\ UNCHANGED <<assoc, pc, i, j, parent, ri, reasons, groups, rep>>

-----------------------------------------------------------------------------
(* The double loop over pairs.                                              *)

LoopDone ==
    /\ pc = "pair"
    /\ i > N
    /\ pc' = "collect"
    /\ i' = 1
    /\ UNCHANGED <<assoc, j, parent, cur, path, ri, reasons, groups, rep>>

NextRowUnbounded ==
    /\ pc = "pair"
    /\ j > N
    /\ i' = i + 1
    /\ j' = i + 2
    /\ UNCHANGED <<assoc, pc, parent, cur, path, ri, reasons, groups, rep>>

NextRow ==
    /\ pc = "pair"
    /\ i <= N
    /\ j > N
    /\ i' = i + 1
    /\ j' = i + 2
    /\ UNCHANGED <<assoc, pc, parent, cur, path, ri, reasons, groups, rep>>

SkipPair ==
    /\ pc = "pair"
    /\ i <= N
    /\ j <= N
    /\ <<i, j>> \notin assoc
    /\ j' = j + 1
    /\ UNCHANGED <<assoc, pc, i, parent, cur, path, ri, reasons, groups, rep>>

Associated ==
    /\ pc = "pair"
    /\ i <= N
    /\ j <= N
    /\ <<i, j>> \in assoc
    /\ Call("findI", i)
    /\ UNCHANGED <<assoc, i, j, parent, ri, reasons, groups, rep>>

FoundI ==
    /\ pc = "findI"
    /\ Found
    /\ parent' = Compressed
    /\ ri' = cur
    /\ Call("findJ", j)
    /\ UNCHANGED <<assoc, i, j, reasons, groups, rep>>

\* `if (ri != rj) parent[ri] = rj;` with rj the root just found.
LinkElement(p, r1, r2) == [p EXCEPT ![i] = r2]
LinkToMember(p, r1, r2) == [p EXCEPT ![r1] = j]
Link(p, r1, r2) == IF r1 # r2 THEN [p EXCEPT ![r1] = r2] ELSE p

FoundJ ==
    /\ pc = "findJ"
    /\ Found
    /\ parent' = Link(Compressed, ri, cur)
    /\ rep' = [x \in Obs |-> IF rep[x] = ri THEN cur ELSE rep[x]]
    /\ Call("findReason", i)
    /\ UNCHANGED <<assoc, i, j, ri, reasons, groups>>

FiledBeforeUnion == [reasons EXCEPT ![ri] = @ \cup {<<i, j>>}]
Filed == [reasons EXCEPT ![cur] = @ \cup {<<i, j>>}]

FoundReason ==
    /\ pc = "findReason"
    /\ Found
    /\ parent' = Compressed
    /\ reasons' = Filed
    /\ pc' = "pair"
    /\ j' = j + 1
    /\ UNCHANGED <<assoc, i, cur, path, ri, groups, rep>>

-----------------------------------------------------------------------------
(* groups[find(i)].push_back(i) for every observation.                      *)

Collect ==
    /\ pc = "collect"
    /\ i <= N
    /\ Call("findGroup", i)
    /\ UNCHANGED <<assoc, i, j, parent, ri, reasons, groups, rep>>

FoundGroup ==
    /\ pc = "findGroup"
    /\ Found
    /\ parent' = Compressed
    /\ groups' = [groups EXCEPT ![cur] = @ \cup {i}]
    /\ pc' = "collect"
    /\ i' = i + 1
    /\ UNCHANGED <<assoc, j, cur, path, ri, reasons, rep>>

CollectDoneEarly ==
    /\ pc = "collect"
    /\ i >= N
    /\ pc' = "done"
    /\ UNCHANGED <<assoc, i, j, parent, cur, path, ri, reasons, groups, rep>>

CollectDone ==
    /\ pc = "collect"
    /\ i > N
    /\ pc' = "done"
    /\ UNCHANGED <<assoc, i, j, parent, cur, path, ri, reasons, groups, rep>>

Next ==
    \/ FindStep
    \/ LoopDone
    \/ NextRow
    \/ SkipPair
    \/ Associated
    \/ FoundI
    \/ FoundJ
    \/ FoundReason
    \/ Collect
    \/ FoundGroup
    \/ CollectDone

Spec == Init /\ [][Next]_vars

\* One thread runs the loops to their end.
FairSpec == Spec /\ WF_vars(Next)
-----------------------------------------------------------------------------
(* Properties                                                               *)

\* A set no association crosses, and the relation "in the same component".
Closed(S) == \A q \in assoc : q[1] \in S <=> q[2] \in S

Connected(x, y) == \A S \in SUBSET Obs : Closed(S) /\ x \in S => y \in S

\* REQ-6.3, "the resulting partition is unique regardless of ingestion order":
\* the groups are exactly the connected components of the association
\* relation, so they are a function of that relation and not of the order in
\* which the double loop met its pairs or of where compression moved a parent.
PartitionIsClosure ==
    pc = "done" =>
        \A x, y \in Obs :
            (\E r \in Obs : {x, y} \subseteq groups[r]) <=> Connected(x, y)

\* No observation is dropped or put in two events (REQ-6.4: constituents are
\* retained), although parents are rewritten while groups are being filled.
GroupsPartition ==
    pc = "done" =>
        \A x \in Obs : \E r \in Obs : \A s \in Obs : x \in groups[s] <=> s = r

\* An event of several observations carries at least one association reason,
\* and carries only reasons about its own members: the root under which a
\* reason was filed may have been demoted since by a later union.
GroupsExplained ==
    pc = "done" =>
        \A r \in Obs :
            (\E x, y \in groups[r] : x # y) =>
                /\ reasons[r] # {}
                /\ \A q \in reasons[r] : {q[1], q[2]} \subseteq groups[r]

\* find never walks in a circle: the call returns.
Termination == <>(pc = "done")
=============================================================================
