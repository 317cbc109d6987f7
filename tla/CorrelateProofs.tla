--------------------------- MODULE CorrelateProofs ---------------------------
(***************************************************************************)
(* Proofs that the union-find of correlate computes the connected           *)
(* components of the association relation, for any number of observations   *)
(* and any relation.                                                        *)
(***************************************************************************)
EXTENDS Correlate, TLAPS

(* r gives the root of every element of the forest p.                       *)
Forest(p, r) ==
    \A x \in Obs :
        /\ p[r[x]] = r[x]
        /\ r[p[x]] = r[x]
        /\ p[x] = x => r[x] = x

Sought == IF pc = "findJ" THEN j ELSE i

(* A find in progress stays in the tree of its argument.                    *)
FindInv ==
    /\ pc \in Finding =>
        /\ cur \in Obs
        /\ rep[cur] = rep[Sought]
        /\ \A x \in path : rep[x] = rep[cur]
    /\ pc \in {"findI", "findJ", "findReason"} => <<i, j>> \in assoc
    /\ pc = "pair" => i < j
    /\ pc = "findGroup" => i <= N
    /\ pc \in {"findJ"} => ri = rep[i]

(* A union never joins what the associations keep apart.                    *)
Sound == \A S \in SUBSET Obs : Closed(S) => \A x \in Obs : x \in S <=> rep[x] \in S

Processed(q) ==
    \/ pc \in {"collect", "findGroup", "done"}
    \/ q[1] < i
    \/ q[1] = i /\ q[2] < j
    \/ pc = "findReason" /\ q = <<i, j>>

(* Every association met so far joined its two observations.                *)
Complete == \A q \in assoc : Processed(q) => rep[q[1]] = rep[q[2]]

(* What has been collected is filed by root, and collecting moves no root.  *)
Collected ==
    /\ pc \in {"collect", "findGroup", "done"} =>
        \A r \in Obs : groups[r] = {x \in Obs : x < i /\ rep[x] = r}
    /\ pc \notin {"collect", "findGroup", "done"} =>
        \A r \in Obs : groups[r] = {}
    /\ pc = "done" => i > N

(* Reasons stay inside a tree, and every tree that was ever joined has one  *)
(* under its root, but for the tree just joined whose reason is pending.    *)
Explained ==
    /\ \A r \in Obs : \A q \in reasons[r] :
        rep[q[1]] = rep[r] /\ rep[q[2]] = rep[r]
    /\ \A x \in Obs :
        \/ rep[x] = x
        \/ reasons[rep[x]] # {}
        \/ pc = "findReason" /\ rep[x] = rep[i]

IInv ==
    /\ TypeOK
    /\ Forest(parent, rep)
    /\ FindInv
    /\ Sound
    /\ Complete
    /\ Collected
    /\ Explained

-----------------------------------------------------------------------------
(* Path compression: re-pointing elements of a root's own tree at the root  *)
(* changes no root.                                                         *)
LEMMA CompressForest ==
    ASSUME NEW p \in [Obs -> Obs], NEW r \in [Obs -> Obs], Forest(p, r),
           NEW c \in Obs, p[c] = c,
           NEW T \in SUBSET Obs, \A x \in T : r[x] = r[c]
    PROVE  Forest([x \in Obs |-> IF x \in T THEN c ELSE p[x]], r)
  BY DEF Forest

(* Union: pointing one root at another moves its whole tree, and only it.   *)
LEMMA LinkForest ==
    ASSUME NEW p \in [Obs -> Obs], NEW r \in [Obs -> Obs], Forest(p, r),
           NEW a \in Obs, NEW b \in Obs, r[a] = a, r[b] = b
    PROVE  Forest(Link(p, a, b), [x \in Obs |-> IF r[x] = a THEN b ELSE r[x]])
  BY DEF Forest, Link

(* A root found is the root of every element on the way to it.              *)
LEMMA FoundIsRoot ==
    ASSUME TypeOK, Forest(parent, rep), FindInv, pc \in Finding, Found
    PROVE  /\ cur \in Obs
           /\ cur = rep[Sought]
           /\ rep[cur] = cur
           /\ \A x \in path : rep[x] = cur
  BY DEF TypeOK, Forest, FindInv, Found

LEMMA CompressedForest ==
    ASSUME TypeOK, Forest(parent, rep), FindInv, pc \in Finding, Found
    PROVE  /\ Compressed \in [Obs -> Obs]
           /\ Forest(Compressed, rep)
  <1>1. cur \in Obs /\ rep[cur] = cur /\ \A x \in path : rep[x] = rep[cur]
    BY FoundIsRoot
  <1>2. parent \in [Obs -> Obs] /\ rep \in [Obs -> Obs] /\ path \in SUBSET Obs
    BY DEF TypeOK
  <1>3. parent[cur] = cur
    BY DEF Found
  <1>4. Forest([x \in Obs |-> IF x \in path THEN cur ELSE parent[x]], rep)
    BY <1>1, <1>2, <1>3, CompressForest
  <1>5. Compressed \in [Obs -> Obs]
    BY <1>1, <1>2 DEF Compressed
  <1> QED
    BY <1>4, <1>5 DEF Compressed

-----------------------------------------------------------------------------
THEOREM InitIInv == Init => IInv
  <1> SUFFICES ASSUME Init PROVE IInv
    OBVIOUS
  <1>1. TypeOK
    BY NAssumption DEF Init, TypeOK, Obs, Pairs, Finding
  <1>2. Forest(parent, rep)
    BY DEF Init, Forest
  <1>3. FindInv
    BY DEF Init, FindInv, Finding
  <1>4. Sound
    BY DEF Init, Sound
  <1>5. Complete
    BY DEF Init, Complete, Processed, Pairs, Obs
  <1>6. Collected
    BY DEF Init, Collected
  <1>7. Explained
    BY DEF Init, Explained
  <1> QED
    BY <1>1, <1>2, <1>3, <1>4, <1>5, <1>6, <1>7 DEF IInv

(* One step of the loops keeps every variable in its type; the bounds on i  *)
(* and j rest on the loop guards the calls of find are made under.          *)
LEMMA TypeStep == IInv /\ [Next]_vars => TypeOK'
  <1> SUFFICES ASSUME IInv, [Next]_vars PROVE TypeOK'
    OBVIOUS
  <1> USE DEF IInv, TypeOK
  <1>0. i \in 1..(N + 1) /\ j \in 1..(N + 2) /\ Obs = 1..N
    BY DEF Obs
  <1>1. CASE FindStep
    BY <1>1 DEF FindStep, FindInv
  <1>2. CASE LoopDone
    <2>1. i' \in 1..(N + 1)
      BY <1>2, NAssumption DEF LoopDone
    <2> QED
      BY <1>2, <2>1 DEF LoopDone
  <1>3. CASE NextRow
    <2>1. i' \in 1..(N + 1) /\ j' \in 1..(N + 2)
      BY <1>0, <1>3, NAssumption DEF NextRow
    <2> QED
      BY <1>3, <2>1 DEF NextRow
  <1>4. CASE SkipPair
    <2>1. j' \in 1..(N + 2)
      BY <1>0, <1>4, NAssumption DEF SkipPair
    <2> QED
      BY <1>4, <2>1 DEF SkipPair
  <1>5. CASE Associated
    <2>1. i \in Obs
      BY <1>0, <1>5, NAssumption DEF Associated
    <2> QED
      BY <1>5, <2>1 DEF Associated, Call, Finding
  <1>6. CASE FoundI
    <2>1. pc \in Finding /\ Found
      BY <1>6 DEF FoundI, Finding
    <2>2. Compressed \in [Obs -> Obs] /\ cur \in Obs
      BY <2>1, CompressedForest, FoundIsRoot
    <2>3. j \in Obs
      BY <1>6 DEF FoundI, FindInv, Pairs
    <2> QED
      BY <1>6, <2>2, <2>3 DEF FoundI, Call, Finding
  <1>7. CASE FoundJ
    <2>1. pc \in Finding /\ Found
      BY <1>7 DEF FoundJ, Finding
    <2>2. Compressed \in [Obs -> Obs] /\ cur \in Obs
      BY <2>1, CompressedForest, FoundIsRoot
    <2>3. i \in Obs
      BY <1>7 DEF FoundJ, FindInv, Pairs
    <2>4. Link(Compressed, ri, cur) \in [Obs -> Obs]
      BY <2>2 DEF Link
    <2> QED
      BY <1>7, <2>2, <2>3, <2>4 DEF FoundJ, Call, Finding
  <1>8. CASE FoundReason
    <2>1. pc \in Finding /\ Found
      BY <1>8 DEF FoundReason, Finding
    <2>2. Compressed \in [Obs -> Obs] /\ cur \in Obs
      BY <2>1, CompressedForest, FoundIsRoot
    <2>3. <<i, j>> \in Pairs /\ j \in Obs
      BY <1>8 DEF FoundReason, FindInv, Pairs
    <2>4. reasons' \in [Obs -> SUBSET Pairs]
      BY <1>8, <2>2, <2>3 DEF FoundReason, Filed
    <2>5. j' \in 1..(N + 2)
      BY <1>0, <1>8, <2>3, NAssumption DEF FoundReason
    <2> QED
      BY <1>8, <2>2, <2>4, <2>5 DEF FoundReason
  <1>9. CASE Collect
    <2>1. i \in Obs
      BY <1>0, <1>9, NAssumption DEF Collect
    <2> QED
      BY <1>9, <2>1 DEF Collect, Call, Finding
  <1>10. CASE FoundGroup
    <2>1. pc \in Finding /\ Found
      BY <1>10 DEF FoundGroup, Finding
    <2>2. Compressed \in [Obs -> Obs] /\ cur \in Obs
      BY <2>1, CompressedForest, FoundIsRoot
    <2>3. i \in Obs
      BY <1>0, <1>10, NAssumption, <2>1 DEF FoundGroup, FindInv
    <2>4. groups' \in [Obs -> SUBSET Obs]
      BY <1>10, <2>2, <2>3 DEF FoundGroup
    <2>5. i' \in 1..(N + 1)
      BY <1>0, <1>10, <2>3, NAssumption DEF FoundGroup
    <2> QED
      BY <1>10, <2>2, <2>4, <2>5 DEF FoundGroup
  <1>11. CASE CollectDone
    BY <1>11 DEF CollectDone
  <1>12. CASE UNCHANGED vars
    BY <1>12 DEF vars
  <1> QED
    BY <1>1, <1>2, <1>3, <1>4, <1>5, <1>6, <1>7, <1>8, <1>9, <1>10, <1>11,
       <1>12 DEF Next

-----------------------------------------------------------------------------
(* The only step that moves a root: the tree of i joins the tree of j.      *)
LEMMA UnionMoves ==
    ASSUME IInv, FoundJ
    PROVE  /\ i \in Obs /\ j \in Obs /\ <<i, j>> \in assoc
           /\ ri \in Obs /\ ri = rep[i] /\ rep[ri] = ri
           /\ cur \in Obs /\ cur = rep[j] /\ rep[cur] = cur
           /\ rep' \in [Obs -> Obs]
           /\ \A x \in Obs : rep'[x] = IF rep[x] = ri THEN cur ELSE rep[x]
  <1> USE DEF IInv, TypeOK
  <1>1. pc \in Finding /\ Found
    BY DEF FoundJ, Finding
  <1>2. <<i, j>> \in assoc /\ ri = rep[i]
    BY DEF FoundJ, FindInv
  <1>3. i \in Obs /\ j \in Obs
    BY <1>2 DEF Pairs
  <1>4. cur \in Obs /\ cur = rep[j] /\ rep[cur] = cur
    BY <1>1, FoundIsRoot DEF FoundJ, Sought
  <1>5. ri \in Obs /\ rep[ri] = ri
    BY <1>2, <1>3 DEF Forest
  <1> QED
    BY <1>2, <1>3, <1>4, <1>5 DEF FoundJ

LEMMA ForestStep == IInv /\ [Next]_vars => Forest(parent, rep)'
  <1> SUFFICES ASSUME IInv, [Next]_vars PROVE Forest(parent, rep)'
    OBVIOUS
  <1> USE DEF IInv
  <1>1. CASE UNCHANGED <<parent, rep>>
    BY <1>1 DEF Forest
  <1>2. CASE FoundI \/ FoundReason \/ FoundGroup
    <2>1. pc \in Finding /\ Found
      BY <1>2 DEF FoundI, FoundReason, FoundGroup, Finding
    <2>2. parent' = Compressed /\ rep' = rep
      BY <1>2 DEF FoundI, FoundReason, FoundGroup
    <2> QED
      BY <2>1, <2>2, CompressedForest DEF Forest
  <1>3. CASE FoundJ
    <2>1. pc \in Finding /\ Found
      BY <1>3 DEF FoundJ, Finding
    <2>2. Compressed \in [Obs -> Obs] /\ Forest(Compressed, rep)
      BY <2>1, CompressedForest
    <2>3. ri \in Obs /\ rep[ri] = ri /\ cur \in Obs /\ rep[cur] = cur
      BY <1>3, UnionMoves
    <2>4. rep \in [Obs -> Obs]
      BY DEF TypeOK
    <2>5. Forest(Link(Compressed, ri, cur),
                 [x \in Obs |-> IF rep[x] = ri THEN cur ELSE rep[x]])
      BY <2>2, <2>3, <2>4, LinkForest
    <2> QED
      BY <1>3, <2>5 DEF FoundJ, Forest
  <1> QED
    BY <1>1, <1>2, <1>3 DEF Next, vars, FindStep, LoopDone, NextRow, SkipPair,
       Associated, Collect, CollectDone

LEMMA FindInvStep == IInv /\ [Next]_vars => FindInv'
  <1> SUFFICES ASSUME IInv, [Next]_vars PROVE FindInv'
    OBVIOUS
  <1> USE DEF IInv, TypeOK, Finding
  <1>0. i \in 1..(N + 1) /\ j \in 1..(N + 2) /\ Obs = 1..N /\ N \in Nat
    BY NAssumption DEF Obs
  <1>1. CASE FindStep
    <2>1. /\ parent[cur] \in Obs
          /\ rep[parent[cur]] = rep[cur]
          /\ cur \in Obs
      BY <1>1 DEF FindStep, FindInv, Forest
    <2> QED
      BY <1>1, <2>1 DEF FindStep, FindInv, Sought
  <1>2. CASE LoopDone
    BY <1>2 DEF LoopDone, FindInv
  <1>3. CASE NextRow
    BY <1>0, <1>3 DEF NextRow, FindInv
  <1>4. CASE SkipPair
    BY <1>0, <1>4 DEF SkipPair, FindInv
  <1>5. CASE Associated
    <2>1. i \in Obs
      BY <1>0, <1>5 DEF Associated
    <2> QED
      BY <1>5, <2>1 DEF Associated, Call, FindInv, Sought
  <1>6. CASE FoundI
    <2>1. cur = rep[i]
      BY <1>6, FoundIsRoot DEF FoundI, Sought
    <2>2. j \in Obs /\ <<i, j>> \in assoc
      BY <1>6 DEF FoundI, FindInv, Pairs
    <2> QED
      BY <1>6, <2>1, <2>2 DEF FoundI, Call, FindInv, Sought
  <1>7. CASE FoundJ
    <2>1. i \in Obs /\ <<i, j>> \in assoc
      BY <1>7, UnionMoves
    <2> QED
      BY <1>7, <2>1 DEF FoundJ, Call, FindInv, Sought
  <1>8. CASE FoundReason
    <2>1. <<i, j>> \in Pairs
      BY <1>8 DEF FoundReason, FindInv
    <2>2. i < j + 1
      BY <1>0, <2>1 DEF Pairs
    <2> QED
      BY <1>8, <2>2 DEF FoundReason, FindInv
  <1>9. CASE Collect
    <2>1. i \in Obs
      BY <1>0, <1>9 DEF Collect
    <2> QED
      BY <1>9, <2>1 DEF Collect, Call, FindInv, Sought
  <1>10. CASE FoundGroup
    BY <1>10 DEF FoundGroup, FindInv
  <1>11. CASE CollectDone
    BY <1>11 DEF CollectDone, FindInv
  <1>12. CASE UNCHANGED vars
    BY <1>12 DEF vars, FindInv, Sought
  <1> QED
    BY <1>1, <1>2, <1>3, <1>4, <1>5, <1>6, <1>7, <1>8, <1>9, <1>10, <1>11,
       <1>12 DEF Next

LEMMA SoundStep == IInv /\ [Next]_vars => Sound'
  <1> SUFFICES ASSUME IInv, [Next]_vars,
                      NEW S \in SUBSET Obs, Closed(S)', NEW x \in Obs
               PROVE  x \in S <=> rep'[x] \in S
    BY DEF Sound
  <1>1. assoc' = assoc
    BY DEF Next, vars, FindStep, LoopDone, NextRow, SkipPair, Associated,
       FoundI, FoundJ, FoundReason, Collect, FoundGroup, CollectDone
  <1>2. Closed(S)
    BY <1>1 DEF Closed
  <1>3. \A y \in Obs : y \in S <=> rep[y] \in S
    BY <1>2 DEF IInv, Sound
  <1>4. CASE rep' = rep
    BY <1>3, <1>4
  <1>5. CASE FoundJ
    <2>1. i \in S <=> j \in S
      BY <1>2, <1>5, UnionMoves DEF Closed
    <2>2. ri \in S <=> cur \in S
      BY <1>3, <1>5, <2>1, UnionMoves
    <2> QED
      BY <1>3, <1>5, <2>2, UnionMoves
  <1> QED
    BY <1>4, <1>5 DEF Next, vars, FindStep, LoopDone, NextRow, SkipPair,
       Associated, FoundI, FoundReason, Collect, FoundGroup, CollectDone

LEMMA CompleteStep == IInv /\ [Next]_vars => Complete'
  <1> SUFFICES ASSUME IInv, [Next]_vars,
                      NEW q \in assoc', Processed(q)'
               PROVE  rep'[q[1]] = rep'[q[2]]
    BY DEF Complete
  <1> USE DEF IInv, TypeOK
  <1>0. assoc' = assoc
    BY DEF Next, vars, FindStep, LoopDone, NextRow, SkipPair, Associated,
       FoundI, FoundJ, FoundReason, Collect, FoundGroup, CollectDone
  <1>1. /\ q \in assoc /\ q[1] \in Obs /\ q[2] \in Obs /\ q[1] < q[2]
        /\ q = <<q[1], q[2]>>
    BY <1>0 DEF Pairs
  <1>2. /\ q[1] \in 1..N /\ q[2] \in 1..N /\ N \in Nat
        /\ i \in 1..(N + 1) /\ j \in 1..(N + 2)
    BY <1>1, NAssumption DEF Obs
  <1>3. Processed(q) => rep[q[1]] = rep[q[2]]
    BY <1>1 DEF Complete
  <1>4. CASE UNCHANGED <<pc, i, j, rep>>
    BY <1>3, <1>4 DEF Processed
  <1>5. CASE LoopDone
    BY <1>2, <1>3, <1>5 DEF LoopDone, Processed
  <1>6. CASE NextRow
    <2>1. q[1] < i \/ (q[1] = i /\ q[2] < j)
      BY <1>1, <1>2, <1>6 DEF NextRow, Processed
    <2> QED
      BY <1>3, <1>6, <2>1 DEF NextRow, Processed
  <1>7. CASE SkipPair
    <2>1. ~(q[1] = i /\ q[2] = j)
      BY <1>1, <1>7 DEF SkipPair
    <2>0. q[1] < i \/ (q[1] = i /\ q[2] < j + 1)
      BY <1>7 DEF SkipPair, Processed
    <2>2. q[1] < i \/ (q[1] = i /\ q[2] < j)
      BY <1>2, <2>1, <2>0
    <2> QED
      BY <1>3, <1>7, <2>2 DEF SkipPair, Processed
  <1>8. CASE Associated \/ FoundI
    BY <1>3, <1>8 DEF Associated, FoundI, Call, Processed
  <1>9. CASE FoundJ
    <2>1. CASE q = <<i, j>>
      BY <1>9, <2>1, UnionMoves
    <2>2. CASE q # <<i, j>>
      <3>1. rep[q[1]] = rep[q[2]]
        BY <1>3, <1>9, <2>2 DEF FoundJ, Call, Processed
      <3> QED
        BY <1>1, <1>9, <3>1, UnionMoves
    <2> QED
      BY <2>1, <2>2
  <1>10. CASE FoundReason
    <2>0. q[1] < i \/ (q[1] = i /\ q[2] < j + 1)
      BY <1>10 DEF FoundReason, Processed
    <2>1. q[1] < i \/ (q[1] = i /\ (q[2] < j \/ q[2] = j))
      BY <1>2, <2>0
    <2>2. Processed(q)
      BY <1>1, <1>10, <2>1 DEF FoundReason, Processed
    <2> QED
      BY <1>3, <1>10, <2>2 DEF FoundReason
  <1>11. CASE Collect \/ FoundGroup \/ CollectDone
    BY <1>3, <1>11 DEF Collect, FoundGroup, CollectDone, Call, Processed
  <1> QED
    BY <1>4, <1>5, <1>6, <1>7, <1>8, <1>9, <1>10, <1>11 DEF Next, vars, FindStep

LEMMA CollectedStep == IInv /\ [Next]_vars => Collected'
  <1> SUFFICES ASSUME IInv, [Next]_vars PROVE Collected'
    OBVIOUS
  <1> USE DEF IInv, TypeOK, Collected
  <1>0. i \in 1..(N + 1) /\ Obs = 1..N /\ N \in Nat
    BY NAssumption DEF Obs
  <1>1. CASE UNCHANGED <<pc, i, groups, rep>>
    BY <1>1
  <1>2. CASE LoopDone
    <2>1. \A r \in Obs : groups[r] = {} /\ {x \in Obs : x < 1 /\ rep[x] = r} = {}
      BY <1>0, <1>2 DEF LoopDone
    <2> QED
      BY <1>2, <2>1 DEF LoopDone
  <1>3. CASE NextRow \/ SkipPair \/ Associated \/ FoundI \/ FoundJ \/ FoundReason
    BY <1>3 DEF NextRow, SkipPair, Associated, FoundI, FoundJ, FoundReason, Call
  <1>4. CASE Collect
    BY <1>4 DEF Collect, Call
  <1>5. CASE FoundGroup
    <2>0. i \in Obs
      BY <1>0, <1>5 DEF FoundGroup, FindInv
    <2>1. cur = rep[i] /\ cur \in Obs /\ i \in Obs
      BY <1>5, <2>0, FoundIsRoot DEF FoundGroup, Sought, Finding
    <2>2. \A x \in Obs : x < i + 1 <=> x < i \/ x = i
      BY <1>0
    <2>3. ASSUME NEW r \in Obs
          PROVE  groups'[r] = {x \in Obs : x < i + 1 /\ rep[x] = r}
      <3>1. groups[r] = {x \in Obs : x < i /\ rep[x] = r}
        BY <1>5 DEF FoundGroup
      <3>2. groups'[r] = IF r = cur THEN groups[r] \cup {i} ELSE groups[r]
        BY <1>5, <2>1 DEF FoundGroup
      <3> QED
        BY <2>1, <2>2, <3>1, <3>2
    <2> QED
      BY <1>5, <2>3 DEF FoundGroup
  <1>6. CASE CollectDone
    BY <1>6 DEF CollectDone
  <1> QED
    BY <1>1, <1>2, <1>3, <1>4, <1>5, <1>6 DEF Next, vars, FindStep

LEMMA ExplainedStep == IInv /\ [Next]_vars => Explained'
  <1> SUFFICES ASSUME IInv, [Next]_vars PROVE Explained'
    OBVIOUS
  <1> USE DEF IInv, TypeOK
  <1>0. \A q \in Pairs : q[1] \in Obs /\ q[2] \in Obs
    BY DEF Pairs
  <1>1. CASE /\ UNCHANGED <<i, reasons, rep>>
             /\ pc = "findReason" => pc' = "findReason"
    BY <1>1 DEF Explained
  <1>2. CASE NextRow \/ LoopDone \/ FoundGroup
    BY <1>2 DEF NextRow, LoopDone, FoundGroup, Explained
  <1>3. CASE FoundJ
    <2>1. pc = "findJ" /\ pc' = "findReason" /\ i' = i /\ reasons' = reasons
      BY <1>3 DEF FoundJ, Call
    <2>2. \A r \in Obs : \A q \in reasons[r] :
             rep'[q[1]] = rep'[r] /\ rep'[q[2]] = rep'[r]
      BY <1>0, <1>3, UnionMoves DEF Explained
    <2>3. rep'[i] = cur
      BY <1>3, UnionMoves
    <2>4. \A x \in Obs :
             rep'[x] = x \/ reasons[rep'[x]] # {} \/ rep'[x] = rep'[i]
      BY <1>3, <2>1, <2>3, UnionMoves DEF Explained
    <2> QED
      BY <2>1, <2>2, <2>4 DEF Explained
  <1>4. CASE FoundReason
    <2>1. cur \in Obs /\ cur = rep[i] /\ rep[cur] = cur
      BY <1>4, FoundIsRoot DEF FoundReason, Finding, Sought
    <2>2. <<i, j>> \in assoc
      BY <1>4 DEF FoundReason, FindInv
    <2>3. rep[i] = rep[j]
      BY <1>4, <2>2 DEF FoundReason, Complete, Processed
    <2>4. \A r \in Obs : reasons'[r] =
             IF r = cur THEN reasons[r] \cup {<<i, j>>} ELSE reasons[r]
      BY <1>4, <2>1 DEF FoundReason, Filed
    <2>5. rep' = rep
      BY <1>4 DEF FoundReason
    <2>6. i \in Obs /\ j \in Obs /\ i' = i
      BY <1>0, <1>4, <2>2 DEF FoundReason
    <2>7. ASSUME NEW r \in Obs, NEW q \in reasons'[r]
          PROVE  rep[q[1]] = rep[r] /\ rep[q[2]] = rep[r]
      <3>1. CASE q \in reasons[r]
        BY <3>1 DEF Explained
      <3>2. CASE q \notin reasons[r]
        <4>1. r = cur /\ q = <<i, j>>
          BY <2>4, <2>7, <3>2
        <4> QED
          BY <2>1, <2>3, <4>1
      <3> QED
        BY <3>1, <3>2
    <2>8. \A x \in Obs : rep[x] = x \/ reasons'[rep[x]] # {}
      BY <2>1, <2>4 DEF Explained
    <2> QED
      BY <2>5, <2>7, <2>8 DEF Explained
  <1> QED
    BY <1>1, <1>2, <1>3, <1>4 DEF Next, vars, FindStep, SkipPair, Associated,
       FoundI, Collect, CollectDone, Call

(* The strengthened invariant holds of every reachable state.               *)
THEOREM Inductive == Spec => []IInv
  <1>1. IInv /\ [Next]_vars => IInv'
    BY TypeStep, ForestStep, FindInvStep, SoundStep, CompleteStep,
       CollectedStep, ExplainedStep DEF IInv
  <1> QED
    BY <1>1, InitIInv, PTL DEF Spec

-----------------------------------------------------------------------------
(* Every variable keeps its type: in particular no loop index, no parent    *)
(* and no argument of find leaves the bounds of the vectors it indexes.     *)
THEOREM TypeCorrect == Spec => []TypeOK
  <1>1. IInv => TypeOK
    BY DEF IInv
  <1> QED
    BY <1>1, Inductive, PTL

(* Two collected observations share a group iff they have the same root.    *)
LEMMA GroupIsTree ==
    ASSUME IInv, pc = "done", NEW r \in Obs
    PROVE  groups[r] = {x \in Obs : rep[x] = r}
  <1>1. \A x \in Obs : x < i
    BY NAssumption DEF IInv, TypeOK, Collected, Obs
  <1> QED
    BY <1>1 DEF IInv, Collected

(* For any number of observations and any association relation, the groups  *)
(* correlate returns are exactly the connected components of the relation.  *)
THEOREM PartitionCorrect == Spec => []PartitionIsClosure
  <1>1. IInv => PartitionIsClosure
    <2> SUFFICES ASSUME IInv, pc = "done", NEW x \in Obs, NEW y \in Obs
                 PROVE  (\E r \in Obs : {x, y} \subseteq groups[r])
                            <=> Connected(x, y)
      BY DEF PartitionIsClosure
    <2>1. rep \in [Obs -> Obs]
      BY DEF IInv, TypeOK
    <2>2. (\E r \in Obs : {x, y} \subseteq groups[r]) <=> rep[x] = rep[y]
      BY <2>1, GroupIsTree
    <2>3. rep[x] = rep[y] => Connected(x, y)
      BY DEF IInv, Sound, Connected
    <2>4. ASSUME Connected(x, y) PROVE rep[x] = rep[y]
      <3> DEFINE S == {z \in Obs : rep[z] = rep[x]}
      <3>1. \A q \in assoc : q[1] \in Obs /\ q[2] \in Obs
        BY DEF IInv, TypeOK, Pairs
      <3>2. \A q \in assoc : rep[q[1]] = rep[q[2]]
        BY DEF IInv, Complete, Processed
      <3>3. Closed(S) /\ x \in S /\ S \in SUBSET Obs
        BY <3>1, <3>2 DEF Closed
      <3>4. y \in S
        BY <2>4, <3>3 DEF Connected
      <3> QED
        BY <3>4
    <2> QED
      BY <2>2, <2>3, <2>4
  <1> QED
    BY <1>1, Inductive, PTL

(* Every observation ends in one group, and in only one.                    *)
THEOREM PartitionOnce == Spec => []GroupsPartition
  <1>1. IInv => GroupsPartition
    <2> SUFFICES ASSUME IInv, pc = "done", NEW x \in Obs
                 PROVE  \E r \in Obs : \A s \in Obs : x \in groups[s] <=> s = r
      BY DEF GroupsPartition
    <2>1. rep[x] \in Obs
      BY DEF IInv, TypeOK
    <2>2. \A s \in Obs : x \in groups[s] <=> s = rep[x]
      BY GroupIsTree
    <2> QED
      BY <2>1, <2>2
  <1> QED
    BY <1>1, Inductive, PTL

(* An event of several observations carries a reason, and only reasons      *)
(* about its own members, however often its root was demoted.               *)
THEOREM EventsExplained == Spec => []GroupsExplained
  <1>1. IInv => GroupsExplained
    <2> SUFFICES ASSUME IInv, pc = "done", NEW r \in Obs,
                        NEW x \in groups[r], NEW y \in groups[r], x # y
                 PROVE  /\ reasons[r] # {}
                        /\ \A q \in reasons[r] : {q[1], q[2]} \subseteq groups[r]
      BY DEF GroupsExplained
    <2>1. x \in Obs /\ y \in Obs /\ rep[x] = r /\ rep[y] = r
      BY GroupIsTree
    <2>2. rep[r] = r
      BY <2>1 DEF IInv, Forest
    <2>3. reasons[r] # {}
      BY <2>1 DEF IInv, Explained
    <2>4. ASSUME NEW q \in reasons[r]
          PROVE  q[1] \in groups[r] /\ q[2] \in groups[r]
      <3>1. q[1] \in Obs /\ q[2] \in Obs
        BY DEF IInv, TypeOK, Pairs
      <3>2. rep[q[1]] = r /\ rep[q[2]] = r
        BY <2>2 DEF IInv, Explained
      <3> QED
        BY <3>1, <3>2, GroupIsTree
    <2> QED
      BY <2>3, <2>4
  <1> QED
    BY <1>1, Inductive, PTL
=============================================================================
