--------------------------- MODULE BalancerProofs ---------------------------
(***************************************************************************)
(* The balancer on a cluster of any size, with any number of entities and  *)
(* runs: no server gives up more than its surplus, and none is left below  *)
(* its share by the balancer alone.                                        *)
(***************************************************************************)
EXTENDS Balancer, TLAPS, FiniteSetTheorems, SequenceTheorems

Types ==
    /\ leader \in [Entities -> Leader]
    /\ elections \in Nat
    /\ mapped \in 0 .. Len(Group)
    /\ peers \subseteq Servers
    /\ entities \in [Servers -> Seq(Entities)]
    /\ balancedDistribution \in Int
    /\ offset \in [Servers -> Int]
    /\ todo \subseteq Servers
    /\ current \in Leader
    /\ found \in [Servers -> SUBSET Entities]
    /\ moved \in [Entities -> Nat]

\* What was picked is in the list of the server being visited, which is over the
\* distribution and will not be visited again in this run.
Visiting ==
    /\ current \notin todo
    /\ pc = "map" => current = NoServer /\ picked = << >>
    /\ picked # << >> => /\ current \in Servers
                         /\ picked.index \in 1 .. Len(entities[current])
                         /\ offset[current] > 0

\* The entities found are told apart, and so are those left to be moved, which nobody
\* has moved.
Listed(s, list) ==
    /\ \A i \in 1 .. Len(list) : list[i] \in found[s] /\ moved[list[i]] = 0
    /\ \A i, j \in 1 .. Len(list) : i # j => list[i] # list[j]

Lists ==
    /\ \A s \in Servers : found[s] \subseteq 1 .. mapped
    /\ \A s, t \in Servers : s # t => found[s] \cap found[t] = {}
    /\ \A s \in Servers : Listed(s, entities[s])
    /\ \A e \in Entities : moved[e] <= 1
    /\ pc = "map" => \A e \in Entities : moved[e] = 0

Given(s) == {e \in found[s] : moved[e] > 0}
Gone(s)  == {e \in found[s] : leader[e] # s}

\* What a server has given up, what is left of its list and what the offset still
\* allows are within what was found.
Surplus ==
    \A s \in Servers :
        /\ Len(entities[s]) + Cardinality(Given(s)) <= Cardinality(found[s])
        /\ offset[s] > 0 => offset[s] + Cardinality(Given(s)) <= Cardinality(found[s]) - balancedDistribution
        /\ Given(s) # {} => Cardinality(Given(s)) <= Cardinality(found[s]) - balancedDistribution

\* The same for the leaders a server has lost, known to the balancer or not: a request
\* whose answer was lost is not in the offset, but ends the visit.
Losses ==
    elections = 0 =>
        \A s \in Servers :
            /\ Len(entities[s]) + Cardinality(Gone(s)) <= Cardinality(found[s])
            /\ (s \in todo \/ s = current) /\ offset[s] > 0 =>
                  offset[s] + Cardinality(Gone(s)) <= Cardinality(found[s]) - balancedDistribution
            /\ Gone(s) # {} => Cardinality(Gone(s)) <= Cardinality(found[s]) - balancedDistribution
            /\ pc = "map" => Gone(s) = {}

BalancerInv == Types /\ Visiting /\ Lists /\ Surplus /\ Losses

-----------------------------------------------------------------------------
(* Lists.                                                                  *)

\* What is left of a list when the index i is deleted from it.
LEMMA RemoveAtElements ==
    ASSUME NEW S, NEW list \in Seq(S), NEW i \in 1 .. Len(list)
    PROVE  /\ RemoveAt(list, i) \in Seq(S)
           /\ Len(RemoveAt(list, i)) = Len(list) - 1
           /\ \A k \in 1 .. Len(list) - 1 :
                 RemoveAt(list, i)[k] = IF k < i THEN list[k] ELSE list[k + 1]
<1> DEFINE a == SubSeq(list, 1, i - 1)
           b == SubSeq(list, i + 1, Len(list))
<1>0. Len(list) \in Nat /\ i \in Nat
  OBVIOUS
<1>1. a \in Seq(S) /\ Len(a) = i - 1 /\ \A k \in 1 .. i - 1 : a[k] = list[k]
  OBVIOUS
<1>2. b \in Seq(S) /\ Len(b) = Len(list) - i /\ \A k \in 1 .. Len(list) - i : b[k] = list[i + k]
  OBVIOUS
<1>3. RemoveAt(list, i) = a \o b
  BY DEF RemoveAt
<1> HIDE DEF a, b
<1>4. a \o b \in Seq(S) /\ Len(a \o b) = Len(list) - 1
      /\ \A k \in 1 .. Len(list) - 1 : (a \o b)[k] = IF k <= i - 1 THEN a[k] ELSE b[k - (i - 1)]
  <2>1. /\ a \o b \in Seq(S)
        /\ Len(a \o b) = Len(a) + Len(b)
        /\ \A k \in 1 .. Len(a) + Len(b) : (a \o b)[k] = IF k <= Len(a) THEN a[k] ELSE b[k - Len(a)]
    BY <1>1, <1>2, ConcatProperties
  <2>2. Len(a) + Len(b) = Len(list) - 1
    BY <1>0, <1>1, <1>2
  <2> QED BY <1>1, <2>1, <2>2
<1>5. ASSUME NEW k \in 1 .. Len(list) - 1
      PROVE  (a \o b)[k] = IF k < i THEN list[k] ELSE list[k + 1]
  <2>1. CASE k < i
    BY <1>0, <1>1, <1>4, <2>1
  <2>2. CASE ~(k < i)
    <3>1. PICK m \in 1 .. Len(list) - i : m = k - (i - 1)
      BY <1>0, <2>2
    <3>2. (a \o b)[k] = b[m] /\ i + m = k + 1
      BY <1>0, <1>4, <2>2, <3>1
    <3> QED BY <1>2, <2>2, <3>2
  <2> QED BY <1>0, <2>1, <2>2
<1> QED BY <1>3, <1>4, <1>5

\* A list from which entries were deleted is no longer than before, and lists what it did.
LEMMA RemoveAtListed ==
    ASSUME NEW s \in Servers, NEW list \in Seq(Entities), NEW i \in 1 .. Len(list), Listed(s, list)
    PROVE  /\ RemoveAt(list, i) \in Seq(Entities)
           /\ Len(RemoveAt(list, i)) = Len(list) - 1
           /\ Listed(s, RemoveAt(list, i))
           /\ \A k \in 1 .. Len(RemoveAt(list, i)) : RemoveAt(list, i)[k] # list[i]
<1> DEFINE r == RemoveAt(list, i)
<1>1. /\ r \in Seq(Entities) /\ Len(r) = Len(list) - 1
      /\ \A k \in 1 .. Len(list) - 1 : r[k] = IF k < i THEN list[k] ELSE list[k + 1]
  BY RemoveAtElements
<1> HIDE DEF r
<1>2. \A k \in 1 .. Len(r) : \E m \in 1 .. Len(list) : m # i /\ r[k] = list[m]
  BY <1>1
<1>3. \A j, k \in 1 .. Len(r) : j # k => r[j] # r[k]
  BY <1>1 DEF Listed
<1>4. \A k \in 1 .. Len(r) : r[k] \in found[s] /\ moved[r[k]] = 0 /\ r[k] # list[i]
  BY <1>2 DEF Listed
<1> QED BY <1>1, <1>3, <1>4 DEF Listed, r

-----------------------------------------------------------------------------
(* Counting.                                                               *)

LEMMA EntitiesInterval == Entities = 1 .. Len(Group) /\ Len(Group) \in Nat /\ IsFiniteSet(Entities)
<1>1. Entities = 1 .. Len(Group) /\ Len(Group) \in Nat
  BY BalancerAssumption DEF Entities
<1> QED BY <1>1, FS_Interval

\* Sets of entities are finite, and one entity adds at most one.
LEMMA Counts ==
    ASSUME NEW A \in SUBSET Entities
    PROVE  /\ Cardinality(A) \in Nat
           /\ Cardinality(A) = 0 <=> A = {}
           /\ \A B \in SUBSET A : Cardinality(B) <= Cardinality(A)
           /\ \A x : x \notin A => Cardinality(A \cup {x}) = Cardinality(A) + 1
<1>1. IsFiniteSet(A)
  BY EntitiesInterval, FS_Subset
<1> QED BY <1>1, FS_CardinalityType, FS_EmptySet, FS_Subset, FS_AddElement

LEMMA AtMostOneMore ==
    ASSUME NEW A \in SUBSET Entities, NEW x \in Entities, NEW B, B \subseteq A \cup {x}
    PROVE  Cardinality(B) <= Cardinality(A) + 1
<1>1. A \cup {x} \in SUBSET Entities /\ B \in SUBSET (A \cup {x})
  OBVIOUS
<1>2. Cardinality(B) <= Cardinality(A \cup {x})
  BY <1>1, Counts
<1>3. Cardinality(A \cup {x}) = Cardinality(A) \/ Cardinality(A \cup {x}) = Cardinality(A) + 1
  <2>1. CASE x \in A
    <3>1. A \cup {x} = A
      BY <2>1
    <3> QED BY <3>1
  <2>2. CASE x \notin A
    BY <2>2, Counts
  <2> QED BY <2>1, <2>2
<1>4. Cardinality(A) \in Nat /\ Cardinality(B) \in Nat
  BY <1>1, Counts
<1> QED BY <1>2, <1>3, <1>4

\* The sets the invariant counts.
LEMMA CountTypes ==
    ASSUME Types, NEW s \in Servers
    PROVE  /\ found[s] \in SUBSET Entities /\ Given(s) \in SUBSET Entities /\ Gone(s) \in SUBSET Entities
           /\ Cardinality(found[s]) \in Nat
           /\ Cardinality(Given(s)) \in Nat /\ (Cardinality(Given(s)) = 0 <=> Given(s) = {})
           /\ Cardinality(Gone(s)) \in Nat /\ (Cardinality(Gone(s)) = 0 <=> Gone(s) = {})
           /\ Len(entities[s]) \in Nat /\ offset[s] \in Int /\ balancedDistribution \in Int
<1>1. found[s] \in SUBSET Entities /\ Given(s) \in SUBSET Entities /\ Gone(s) \in SUBSET Entities
  BY DEF Types, Given, Gone
<1>2. Len(entities[s]) \in Nat /\ offset[s] \in Int /\ balancedDistribution \in Int
  BY DEF Types
<1> HIDE DEF Given, Gone
<1> QED BY <1>1, <1>2, Counts

\* The even distribution is an integer, also when there are no servers.
LEMMA DistributionType ==
    ASSUME NEW m \in Nat, NEW n \in Nat
    PROVE  calcClusterDistribution(m, n) \in Int
<1>1. CASE m = 0
  BY <1>1 DEF calcClusterDistribution
<1>2. CASE m # 0
  <2>1. n \div m \in Int
    BY <1>2
  <2> QED BY <1>2, <2>1 DEF calcClusterDistribution
<1> QED BY <1>1, <1>2

-----------------------------------------------------------------------------
LEMMA InitBalancerInv == Init => BalancerInv
<1> SUFFICES ASSUME Init PROVE BalancerInv
  OBVIOUS
<1>1. Types
  BY EntitiesInterval DEF Init, Types, Leader
<1>2. Visiting
  BY DEF Init, Visiting
<1>3. Lists
  BY EntitiesInterval DEF Init, Lists, Listed
<1>4. ASSUME NEW s \in Servers
      PROVE  found[s] = {} /\ Given(s) = {} /\ Gone(s) = {} /\ Len(entities[s]) = 0 /\ offset[s] = 0
  BY DEF Init, Given, Gone
<1>5. ASSUME NEW s \in Servers
      PROVE  Cardinality(found[s]) = 0 /\ Cardinality(Given(s)) = 0 /\ Cardinality(Gone(s)) = 0
  BY <1>4, FS_EmptySet
<1>6. Surplus /\ Losses
  BY <1>4, <1>5 DEF Surplus, Losses
<1> QED BY <1>1, <1>2, <1>3, <1>6 DEF BalancerInv

\* A step that moves nothing: lists get shorter, and an offset stays or is taken from them.
Recounted(s) ==
    /\ Len(entities'[s]) <= Len(entities[s])
    /\ offset'[s] # offset[s] => offset'[s] <= Len(entities[s]) - balancedDistribution \/ offset'[s] <= 0

LEMMA ShrinkSurplus ==
    ASSUME BalancerInv, Types', UNCHANGED <<found, moved, mapped, balancedDistribution>>,
           pc' = "map" => pc = "map",
           \A s \in Servers : Recounted(s) /\ Listed(s, entities'[s])
    PROVE  Lists' /\ Surplus'
<1>1. Lists'
  BY DEF BalancerInv, Lists, Listed
<1>2. ASSUME NEW s \in Servers
      PROVE  /\ Given(s)' = Given(s) /\ found'[s] = found[s]
             /\ Len(entities[s]) \in Nat /\ offset[s] \in Int /\ balancedDistribution \in Int
             /\ Len(entities'[s]) \in Nat /\ offset'[s] \in Int
             /\ Cardinality(found[s]) \in Nat /\ Cardinality(Given(s)) \in Nat
  <2>1. Types /\ Given(s)' = Given(s) /\ found'[s] = found[s]
    BY DEF BalancerInv, Given
  <2>2. Len(entities'[s]) \in Nat /\ offset'[s] \in Int
    BY DEF Types
  <2> QED BY <2>1, <2>2, CountTypes
<1>3. Surplus'
  BY <1>2 DEF BalancerInv, Surplus, Recounted
<1> QED BY <1>1, <1>3

LEMMA ShrinkLosses ==
    ASSUME BalancerInv, Types', UNCHANGED <<found, leader, elections, balancedDistribution>>,
           pc' = "map" => pc = "map",
           \A s \in Servers : Recounted(s),
           \A s \in Servers : /\ s \in todo' \/ s = current'
                              /\ offset'[s] = offset[s]
                              => s \in todo \/ s = current \/ offset[s] <= Len(entities[s]) - balancedDistribution
    PROVE  Losses'
<1> SUFFICES ASSUME elections = 0, NEW s \in Servers
             PROVE  /\ Len(entities'[s]) + Cardinality(Gone(s)') <= Cardinality(found'[s])
                    /\ (s \in todo' \/ s = current') /\ offset'[s] > 0 =>
                          offset'[s] + Cardinality(Gone(s)') <= Cardinality(found'[s]) - balancedDistribution'
                    /\ Gone(s)' # {} =>
                          Cardinality(Gone(s)') <= Cardinality(found'[s]) - balancedDistribution'
                    /\ pc' = "map" => Gone(s)' = {}
  BY DEF Losses
<1>1. /\ Gone(s)' = Gone(s) /\ found'[s] = found[s]
      /\ Len(entities[s]) \in Nat /\ offset[s] \in Int /\ balancedDistribution \in Int
      /\ Len(entities'[s]) \in Nat /\ offset'[s] \in Int
      /\ Cardinality(found[s]) \in Nat /\ Cardinality(Gone(s)) \in Nat
  <2>1. Types /\ Gone(s)' = Gone(s) /\ found'[s] = found[s]
    BY DEF BalancerInv, Gone
  <2>2. Len(entities'[s]) \in Nat /\ offset'[s] \in Int
    BY DEF Types
  <2> QED BY <2>1, <2>2, CountTypes
<1>2. /\ Len(entities[s]) + Cardinality(Gone(s)) <= Cardinality(found[s])
      /\ (s \in todo \/ s = current) /\ offset[s] > 0 =>
            offset[s] + Cardinality(Gone(s)) <= Cardinality(found[s]) - balancedDistribution
      /\ Gone(s) # {} => Cardinality(Gone(s)) <= Cardinality(found[s]) - balancedDistribution
      /\ pc = "map" => Gone(s) = {}
  BY DEF BalancerInv, Losses
<1>3. Recounted(s)
  OBVIOUS
<1> QED BY <1>1, <1>2, <1>3 DEF Recounted

\* The index is deleted again only while the list reaches that far.
LEMMA DeleteAgainListed ==
    ASSUME NEW s \in Servers, NEW list \in Seq(Entities), NEW i \in Nat \ {0}, Listed(s, list)
    PROVE  /\ DeleteAgain(list, i) \in Seq(Entities)
           /\ Len(DeleteAgain(list, i)) <= Len(list)
           /\ Listed(s, DeleteAgain(list, i))
<1>0. Len(list) \in Nat
  OBVIOUS
<1>1. CASE i <= Len(list)
  <2>1. i \in 1 .. Len(list) /\ DeleteAgain(list, i) = RemoveAt(list, i)
    BY <1>0, <1>1 DEF DeleteAgain
  <2> QED BY <1>0, <2>1, RemoveAtListed
<1>2. CASE ~(i <= Len(list))
  BY <1>0, <1>2 DEF DeleteAgain
<1> QED BY <1>1, <1>2

\* The list of the server being visited is replaced by a shorter one.
Replaced(list) == entities' = [entities EXCEPT ![current] = list]

LEMMA ReplacedShrinks ==
    ASSUME BalancerInv, current \in Servers, NEW list \in Seq(Entities), Listed(current, list),
           Len(list) <= Len(entities[current]), Replaced(list)
    PROVE  /\ entities' \in [Servers -> Seq(Entities)]
           /\ \A s \in Servers : Len(entities'[s]) <= Len(entities[s]) /\ Listed(s, entities'[s])
           /\ entities'[current] = list
           /\ \A s \in Servers \ {current} : entities'[s] = entities[s]
<1>1. entities \in [Servers -> Seq(Entities)] /\ \A s \in Servers : Listed(s, entities[s])
  BY DEF BalancerInv, Types, Lists
<1>2. \A s \in Servers : entities'[s] = IF s = current THEN list ELSE entities[s]
  BY <1>1 DEF Replaced
<1>3. \A s \in Servers : Len(entities[s]) \in Nat
  BY <1>1
<1>4. entities' \in [Servers -> Seq(Entities)]
  BY <1>1 DEF Replaced
<1> QED BY <1>1, <1>2, <1>3, <1>4

-----------------------------------------------------------------------------
(* The steps that move nothing.                                            *)

LEMMA VisitStep ==
    ASSUME BalancerInv, NEW s \in Servers, visit(s)
    PROVE  BalancerInv'
<1> USE BalancerAssumption
<1>1. Types'
  BY DEF BalancerInv, Types, visit, Leader, cluster, tables
<1>2. Visiting'
  BY DEF BalancerInv, Types, Visiting, visit, Leader, cluster, tables
<1>3. \A t \in Servers : Recounted(t) /\ Listed(t, entities'[t])
  BY DEF BalancerInv, Types, Lists, Recounted, visit, tables
<1>4. Lists' /\ Surplus'
  BY <1>1, <1>3, ShrinkSurplus DEF visit, tables
<1>5. \A t \in Servers : t \in todo' \/ t = current' => t \in todo \/ t = current
  BY DEF visit
<1>6. Losses'
  BY <1>1, <1>3, <1>5, ShrinkLosses DEF visit, cluster, tables
<1> QED BY <1>1, <1>2, <1>4, <1>6 DEF BalancerInv

LEMMA LeaveStep ==
    ASSUME BalancerInv, leave
    PROVE  BalancerInv'
<1> USE BalancerAssumption
<1>1. Types'
  BY DEF BalancerInv, Types, leave, Leader, cluster, tables
<1>2. Visiting'
  BY DEF BalancerInv, Types, Visiting, leave, Leader, cluster, tables
<1>3. \A t \in Servers : Recounted(t) /\ Listed(t, entities'[t])
  BY DEF BalancerInv, Types, Lists, Recounted, leave, tables
<1>4. Lists' /\ Surplus'
  BY <1>1, <1>3, ShrinkSurplus DEF leave, tables
<1>5. \A t \in Servers : t \in todo' \/ t = current' => t \in todo \/ t = current
  BY DEF leave
<1>6. Losses'
  BY <1>1, <1>3, <1>5, ShrinkLosses DEF leave, cluster, tables
<1> QED BY <1>1, <1>2, <1>4, <1>6 DEF BalancerInv

LEMMA PickStep ==
    ASSUME BalancerInv, pick
    PROVE  BalancerInv'
<1> USE BalancerAssumption
<1>1. /\ current \in Servers /\ entities[current] \in Seq(Entities)
      /\ Listed(current, entities[current]) /\ offset[current] > 0 /\ pc = "balance"
  BY DEF BalancerInv, Types, Lists, Leader, pick
<1>2. PICK i \in 1 .. Len(entities[current]) :
         \/ picked' = [index |-> i, leader |-> leader[entities[current][i]]] /\ UNCHANGED entities
         \/ Replaced(RemoveAt(entities[current], i)) /\ UNCHANGED picked
  BY <1>1 DEF pick, Replaced
<1>3. /\ entities' \in [Servers -> Seq(Entities)]
      /\ \A s \in Servers : Len(entities'[s]) <= Len(entities[s]) /\ Listed(s, entities'[s])
  <2>1. CASE UNCHANGED entities
    BY <2>1 DEF BalancerInv, Types, Lists
  <2>2. CASE Replaced(RemoveAt(entities[current], i))
    <3>1. Len(entities[current]) \in Nat
      BY <1>1
    <3>2. /\ RemoveAt(entities[current], i) \in Seq(Entities)
          /\ Len(RemoveAt(entities[current], i)) = Len(entities[current]) - 1
          /\ Listed(current, RemoveAt(entities[current], i))
      BY <1>1, RemoveAtListed
    <3>3. Len(RemoveAt(entities[current], i)) <= Len(entities[current])
      BY <3>1, <3>2
    <3> QED BY <1>1, <2>2, <3>2, <3>3, ReplacedShrinks
  <2> QED BY <1>2, <2>1, <2>2
<1>4. Types'
  BY <1>3 DEF BalancerInv, Types, pick, cluster
<1>5. Visiting'
  BY <1>1, <1>2 DEF BalancerInv, Visiting, pick
<1>6. \A t \in Servers : Recounted(t) /\ Listed(t, entities'[t])
  BY <1>3 DEF Recounted, pick
<1>7. Lists' /\ Surplus'
  BY <1>4, <1>6, ShrinkSurplus DEF pick
<1>8. \A t \in Servers : t \in todo' \/ t = current' => t \in todo \/ t = current
  BY DEF pick
<1>9. Losses'
  BY <1>4, <1>6, <1>8, ShrinkLosses DEF pick, cluster
<1> QED BY <1>4, <1>5, <1>7, <1>9 DEF BalancerInv

LEMMA SkipStep ==
    ASSUME BalancerInv, skip
    PROVE  BalancerInv'
<1> USE BalancerAssumption
<1> DEFINE list == DeleteAgain(entities[current], picked.index)
<1>1. /\ current \in Servers /\ entities[current] \in Seq(Entities)
      /\ Listed(current, entities[current]) /\ picked.index \in Nat \ {0}
  BY DEF BalancerInv, Types, Visiting, Lists, Leader, skip
<1>2. list \in Seq(Entities) /\ Len(list) <= Len(entities[current]) /\ Listed(current, list)
  BY <1>1, DeleteAgainListed
<1>3. Replaced(list)
  BY DEF Replaced, skip
<1> HIDE DEF list
<1>4. /\ entities' \in [Servers -> Seq(Entities)]
      /\ \A s \in Servers : Len(entities'[s]) <= Len(entities[s]) /\ Listed(s, entities'[s])
  BY <1>1, <1>2, <1>3, ReplacedShrinks
<1>5. Types'
  BY <1>4 DEF BalancerInv, Types, skip, cluster, Leader
<1>6. Visiting'
  BY DEF BalancerInv, Types, Visiting, skip
<1>7. \A t \in Servers : Recounted(t) /\ Listed(t, entities'[t])
  BY <1>4 DEF Recounted, skip
<1>8. Lists' /\ Surplus'
  BY <1>5, <1>7, ShrinkSurplus DEF skip
<1>9. \A t \in Servers : t \in todo' \/ t = current' => t \in todo \/ t = current
  BY DEF skip
<1>10. Losses'
  BY <1>5, <1>7, <1>9, ShrinkLosses DEF skip, cluster
<1> QED BY <1>5, <1>6, <1>8, <1>10 DEF BalancerInv

\* The offsets of a new run are those of what is left in the lists.
LEMMA EndRunStep ==
    ASSUME BalancerInv, endRun
    PROVE  BalancerInv'
<1> USE BalancerAssumption
<1>0. \A t \in Servers : Len(entities[t]) \in Nat
  BY DEF BalancerInv, Types
<1>1. \A t \in Servers : /\ offset'[t] = IF t \in peers THEN Len(entities[t]) - balancedDistribution ELSE 0
                         /\ offset'[t] \in Int
  BY <1>0 DEF BalancerInv, Types, endRun, calcLeaderOffset
<1>2. Types'
  BY <1>0 DEF BalancerInv, Types, endRun, calcLeaderOffset, cluster, tables
<1>3. Visiting'
  BY DEF BalancerInv, Types, Visiting, endRun, Leader
<1>4. \A t \in Servers : Recounted(t) /\ Listed(t, entities'[t])
  BY <1>0, <1>1 DEF BalancerInv, Lists, Recounted, endRun, tables
<1>5. Lists' /\ Surplus'
  BY <1>2, <1>4, ShrinkSurplus DEF endRun, tables
<1>6. \A t \in Servers : (t \in todo' \/ t = current') /\ offset'[t] = offset[t]
         => t \in todo \/ t = current \/ offset[t] <= Len(entities[t]) - balancedDistribution
  BY <1>0, <1>1 DEF BalancerInv, Types, endRun
<1>7. Losses'
  BY <1>2, <1>4, <1>6, ShrinkLosses DEF endRun, cluster, tables
<1> QED BY <1>2, <1>3, <1>5, <1>7 DEF BalancerInv

-----------------------------------------------------------------------------
(* The steps that move a leader.                                           *)

\* What is known when a request is sent.
LEMMA Requested ==
    ASSUME BalancerInv, picked # << >>, NEW s \in Candidates
    PROVE  /\ current \in Servers /\ s \in Servers /\ s # current
           /\ entities[current] \in Seq(Entities) /\ Listed(current, entities[current])
           /\ picked.index \in 1 .. Len(entities[current])
           /\ offset[current] > 0 /\ offset[s] < 0
           /\ Entity \in found[current] /\ Entity \in Entities /\ moved[Entity] = 0
           /\ \A t \in Servers \ {current} : Entity \notin found[t]
           /\ pc # "map"
<1>1. /\ current \in Servers /\ picked.index \in 1 .. Len(entities[current]) /\ offset[current] > 0
      /\ pc # "map"
  BY DEF BalancerInv, Visiting
<1>2. s \in Servers /\ offset[s] < 0
  BY DEF BalancerInv, Types, Candidates
<1>3. entities[current] \in Seq(Entities) /\ Listed(current, entities[current])
  BY <1>1 DEF BalancerInv, Types, Lists
<1>4. Entity \in found[current] /\ moved[Entity] = 0
  BY <1>1, <1>3 DEF Listed, Entity
<1>5. offset[current] \in Int /\ offset[s] \in Int /\ found[current] \subseteq Entities
  BY <1>1, <1>2 DEF BalancerInv, Types
<1>6. s # current
  BY <1>1, <1>2, <1>5
<1>7. \A t \in Servers \ {current} : Entity \notin found[t]
  BY <1>1, <1>4 DEF BalancerInv, Lists
<1> QED BY <1>1, <1>2, <1>3, <1>4, <1>5, <1>6, <1>7

\* While nothing else is elected, the request takes one leader from the server visited.
LEMMA OneGone ==
    ASSUME BalancerInv, picked # << >>, NEW s \in Candidates, Granted(Entity, s), elections' = 0,
           UNCHANGED found
    PROVE  /\ elections = 0
           /\ \A t \in Servers : IF t = current THEN Cardinality(Gone(t)') <= Cardinality(Gone(t)) + 1
                                              ELSE Gone(t)' = Gone(t)
<1>1. /\ current \in Servers /\ Entity \in Entities
      /\ \A t \in Servers \ {current} : Entity \notin found[t]
  BY Requested
<1>2. elections = 0 /\ leader' = [leader EXCEPT ![Entity] = s]
  BY DEF Granted, BalancerInv, Types
<1>3. \A e \in Entities \ {Entity} : leader'[e] = leader[e]
  BY <1>2 DEF BalancerInv, Types
<1>4. found \in [Servers -> SUBSET Entities]
  BY DEF BalancerInv, Types
<1>5. ASSUME NEW t \in Servers \ {current} PROVE Gone(t)' = Gone(t)
  BY <1>1, <1>3, <1>4 DEF Gone
<1>6. ASSUME NEW t \in Servers, t = current
      PROVE  Cardinality(Gone(t)') <= Cardinality(Gone(t)) + 1
  <2>1. Gone(t)' \subseteq Gone(t) \cup {Entity} /\ Gone(t) \in SUBSET Entities
    BY <1>3, <1>4 DEF Gone
  <2> QED BY <1>1, <2>1, AtMostOneMore
<1> QED BY <1>2, <1>5, <1>6

\* One more is given up, and one less is listed and allowed.
LEMMA OneGivenUp ==
    ASSUME NEW n \in Nat, NEW g \in Nat, NEW h \in Nat, NEW f \in Nat, NEW d \in Int, NEW o \in Int,
           n + g <= f, o + g <= f - d, h <= g + 1, o > 0
    PROVE  n - 1 + h <= f /\ o - 1 + h <= f - d /\ h <= f - d
OBVIOUS

LEMMA StepDownStep ==
    ASSUME BalancerInv, NEW s \in Servers, LeaderStepDown(s)
    PROVE  BalancerInv'
<1> DEFINE c == current
           i == picked.index
           x == Entity
           list == RemoveAt(entities[c], i)
<1>1. /\ picked # << >> /\ s \in Candidates
      /\ UNCHANGED <<pc, mapped, peers, found, balancedDistribution, run, todo, current>>
      /\ picked' = << >>
  BY DEF LeaderStepDown
<1>2. /\ c \in Servers /\ s # c
      /\ entities[c] \in Seq(Entities) /\ Listed(c, entities[c])
      /\ i \in 1 .. Len(entities[c])
      /\ offset[c] > 0 /\ offset[s] < 0
      /\ x \in found[c] /\ x \in Entities /\ moved[x] = 0
      /\ \A t \in Servers \ {c} : x \notin found[t]
      /\ pc # "map"
  BY <1>1, Requested
<1>3. /\ list \in Seq(Entities) /\ Len(list) = Len(entities[c]) - 1 /\ Listed(c, list)
      /\ \A k \in 1 .. Len(list) : list[k] # x
  BY <1>2, RemoveAtListed DEF Entity
<1>4. Replaced(list) /\ Granted(x, s)
  BY DEF LeaderStepDown, Replaced
<1>5. /\ Types /\ moved \in [Entities -> Nat] /\ offset \in [Servers -> Int]
      /\ found \in [Servers -> SUBSET Entities]
  BY DEF BalancerInv, Types
<1>6. /\ moved' \in [Entities -> Nat] /\ moved'[x] = 1
      /\ \A e \in Entities \ {x} : moved'[e] = moved[e]
  BY <1>2, <1>5 DEF LeaderStepDown
<1>7. /\ offset' \in [Servers -> Int] /\ offset'[c] = offset[c] - 1 /\ offset'[s] = offset[s] + 1
      /\ \A t \in Servers \ {c, s} : offset'[t] = offset[t]
  BY <1>2, <1>5 DEF LeaderStepDown
<1>8. leader' \in [Entities -> Leader] /\ elections' \in Nat
  <2>1. Group[x] \subseteq Servers
    BY <1>2, BalancerAssumption, EntitiesInterval
  <2> HIDE DEF c, i, x, list
  <2>2. PICK l \in Servers : leader' = [leader EXCEPT ![x] = l]
    BY <1>4, <2>1 DEF Granted
  <2>3. elections' \in Nat
    BY <1>4, <1>5 DEF Granted, Types
  <2> QED BY <1>5, <2>2, <2>3 DEF Types, Leader
<1> HIDE DEF c, i, x, list
<1>9. /\ entities' \in [Servers -> Seq(Entities)]
      /\ entities'[c] = list
      /\ \A t \in Servers \ {c} : entities'[t] = entities[t]
  <2>1. Len(list) <= Len(entities[c])
    BY <1>2, <1>3
  <2> QED BY <1>2, <1>3, <1>4, <2>1, ReplacedShrinks DEF c
<1>10. Types'
  BY <1>1, <1>5, <1>6, <1>7, <1>8, <1>9 DEF Types
<1>11. Visiting'
  BY <1>1, <1>2 DEF BalancerInv, Visiting
<1>12. ASSUME NEW t \in Servers PROVE Listed(t, entities[t])'
  <2>1. CASE t = c
    <3>1. \A k \in 1 .. Len(list) : list[k] \in found[c] /\ moved'[list[k]] = 0
      BY <1>2, <1>3, <1>5, <1>6 DEF Listed
    <3>2. \A j, k \in 1 .. Len(list) : j # k => list[j] # list[k]
      BY <1>3 DEF Listed
    <3> QED BY <1>1, <1>9, <2>1, <3>1, <3>2 DEF Listed
  <2>2. CASE t # c
    <3>1. Listed(t, entities[t])
      BY DEF BalancerInv, Lists
    <3>2. \A k \in 1 .. Len(entities[t]) : entities[t][k] \in found[t] /\ moved'[entities[t][k]] = 0
      BY <1>2, <1>5, <1>6, <2>2, <3>1 DEF Listed
    <3>3. \A j, k \in 1 .. Len(entities[t]) : j # k => entities[t][j] # entities[t][k]
      BY <3>1 DEF Listed
    <3> QED BY <1>1, <1>9, <2>2, <3>2, <3>3 DEF Listed
  <2> QED BY <2>1, <2>2
<1>13. Lists'
  <2>1. \A e \in Entities : moved'[e] <= 1
    BY <1>6 DEF BalancerInv, Lists
  <2> QED BY <1>1, <1>2, <1>12, <2>1 DEF BalancerInv, Lists
<1>14. ASSUME NEW t \in Servers
       PROVE  IF t = c THEN Cardinality(Given(t)') <= Cardinality(Given(t)) + 1 ELSE Given(t)' = Given(t)
  <2>1. CASE t = c
    <3>1. Given(t)' \subseteq Given(t) \cup {x} /\ Given(t) \in SUBSET Entities
      BY <1>1, <1>5, <1>6 DEF Given
    <3> QED BY <1>2, <2>1, <3>1, AtMostOneMore
  <2>2. CASE t # c
    BY <1>1, <1>2, <1>5, <1>6, <2>2 DEF Given
  <2> QED BY <2>1, <2>2
<1>15. ASSUME NEW t \in Servers
       PROVE  /\ Cardinality(found[t]) \in Nat /\ Len(entities[t]) \in Nat /\ offset[t] \in Int
              /\ Cardinality(Given(t)) \in Nat /\ Cardinality(Gone(t)) \in Nat
              /\ Cardinality(Given(t)') \in Nat /\ Cardinality(Gone(t)') \in Nat
              /\ balancedDistribution \in Int
  <2>1. Given(t)' \in SUBSET Entities /\ Gone(t)' \in SUBSET Entities
    BY <1>1, <1>5 DEF Given, Gone
  <2> QED BY <1>5, <2>1, CountTypes, Counts
<1>16. Surplus'
  <2> SUFFICES ASSUME NEW t \in Servers
               PROVE  /\ Len(entities'[t]) + Cardinality(Given(t)') <= Cardinality(found'[t])
                      /\ offset'[t] > 0 => offset'[t] + Cardinality(Given(t)') <=
                                              Cardinality(found'[t]) - balancedDistribution'
                      /\ Given(t)' # {} => Cardinality(Given(t)') <=
                                              Cardinality(found'[t]) - balancedDistribution'
    BY DEF Surplus
  <2>1. /\ Len(entities[t]) + Cardinality(Given(t)) <= Cardinality(found[t])
        /\ offset[t] > 0 => offset[t] + Cardinality(Given(t)) <= Cardinality(found[t]) - balancedDistribution
        /\ Given(t) # {} => Cardinality(Given(t)) <= Cardinality(found[t]) - balancedDistribution
    BY DEF BalancerInv, Surplus
  <2>2. CASE t = c
    <3>1. Cardinality(Given(t)') <= Cardinality(Given(t)) + 1
      BY <1>14, <2>2
    <3>2. /\ Len(entities'[t]) = Len(entities[t]) - 1 /\ offset'[t] = offset[t] - 1 /\ offset[t] > 0
          /\ found'[t] = found[t] /\ balancedDistribution' = balancedDistribution
      BY <1>1, <1>2, <1>3, <1>7, <1>9, <2>2
    <3>3. /\ Cardinality(found[t]) \in Nat /\ Len(entities[t]) \in Nat /\ offset[t] \in Int
          /\ Cardinality(Given(t)) \in Nat /\ Cardinality(Given(t)') \in Nat /\ balancedDistribution \in Int
      BY <1>15
    <3>4. /\ Len(entities[t]) - 1 + Cardinality(Given(t)') <= Cardinality(found[t])
          /\ offset[t] - 1 + Cardinality(Given(t)') <= Cardinality(found[t]) - balancedDistribution
          /\ Cardinality(Given(t)') <= Cardinality(found[t]) - balancedDistribution
      BY <2>1, <2>2, <3>1, <3>2, <3>3, OneGivenUp
    <3> QED BY <1>1, <3>2, <3>4
  <2>3. CASE t = s
    <3>1. Given(t)' = Given(t) /\ entities'[t] = entities[t] /\ offset'[t] = offset[t] + 1 /\ offset[t] < 0
          /\ found'[t] = found[t] /\ balancedDistribution' = balancedDistribution
      BY <1>1, <1>2, <1>7, <1>9, <1>14, <2>3
    <3>2. ~(offset'[t] > 0)
      BY <1>15, <3>1
    <3> QED BY <1>1, <2>1, <3>1, <3>2
  <2>4. CASE t # c /\ t # s
    BY <1>1, <1>7, <1>9, <1>14, <2>1, <2>4
  <2> QED BY <2>2, <2>3, <2>4
<1>17. Losses'
  <2> SUFFICES ASSUME elections' = 0, NEW t \in Servers
               PROVE  /\ Len(entities'[t]) + Cardinality(Gone(t)') <= Cardinality(found'[t])
                      /\ (t \in todo' \/ t = current') /\ offset'[t] > 0 =>
                            offset'[t] + Cardinality(Gone(t)') <=
                               Cardinality(found'[t]) - balancedDistribution'
                      /\ Gone(t)' # {} => Cardinality(Gone(t)') <=
                                              Cardinality(found'[t]) - balancedDistribution'
                      /\ pc' = "map" => Gone(t)' = {}
    BY DEF Losses
  <2>1. elections = 0 /\ IF t = c THEN Cardinality(Gone(t)') <= Cardinality(Gone(t)) + 1
                                  ELSE Gone(t)' = Gone(t)
    BY <1>1, <1>4, OneGone DEF c, x
  <2>2. /\ Len(entities[t]) + Cardinality(Gone(t)) <= Cardinality(found[t])
        /\ (t \in todo \/ t = c) /\ offset[t] > 0 =>
              offset[t] + Cardinality(Gone(t)) <= Cardinality(found[t]) - balancedDistribution
        /\ Gone(t) # {} => Cardinality(Gone(t)) <= Cardinality(found[t]) - balancedDistribution
    BY <2>1 DEF BalancerInv, Losses, c
  <2>3. current' = c
    BY <1>1 DEF c
  <2>4. CASE t = c
    <3>1. Cardinality(Gone(t)') <= Cardinality(Gone(t)) + 1
      BY <2>1, <2>4
    <3>2. /\ Len(entities'[t]) = Len(entities[t]) - 1 /\ offset'[t] = offset[t] - 1 /\ offset[t] > 0
          /\ found'[t] = found[t] /\ balancedDistribution' = balancedDistribution
      BY <1>1, <1>2, <1>3, <1>7, <1>9, <2>4
    <3>3. /\ Cardinality(found[t]) \in Nat /\ Len(entities[t]) \in Nat /\ offset[t] \in Int
          /\ Cardinality(Gone(t)) \in Nat /\ Cardinality(Gone(t)') \in Nat /\ balancedDistribution \in Int
      BY <1>15
    <3>4. /\ Len(entities[t]) - 1 + Cardinality(Gone(t)') <= Cardinality(found[t])
          /\ offset[t] - 1 + Cardinality(Gone(t)') <= Cardinality(found[t]) - balancedDistribution
          /\ Cardinality(Gone(t)') <= Cardinality(found[t]) - balancedDistribution
      BY <2>2, <2>4, <3>1, <3>2, <3>3, OneGivenUp
    <3> QED BY <1>1, <1>2, <3>2, <3>4
  <2>5. CASE t = s
    <3>1. Gone(t)' = Gone(t) /\ entities'[t] = entities[t] /\ offset'[t] = offset[t] + 1 /\ offset[t] < 0
          /\ found'[t] = found[t] /\ balancedDistribution' = balancedDistribution
      BY <1>1, <1>2, <1>7, <1>9, <2>1, <2>5
    <3>2. ~(offset'[t] > 0)
      BY <1>15, <3>1
    <3> QED BY <1>1, <1>2, <2>2, <3>1, <3>2
  <2>6. CASE t # c /\ t # s
    BY <1>1, <1>2, <1>7, <1>9, <2>1, <2>2, <2>3, <2>6
  <2> QED BY <2>4, <2>5, <2>6
<1> QED BY <1>10, <1>11, <1>13, <1>16, <1>17 DEF BalancerInv

\* A request that failed, or was granted without an answer, ends the visit.
LEMMA StepDownFailsStep ==
    ASSUME BalancerInv, NEW s \in Servers, LeaderStepDownFails(s)
    PROVE  BalancerInv'
<1> DEFINE c == current
           i == picked.index
           shorter == RemoveAt(entities[c], i)
           list == DeleteAgain(shorter, i)
<1>1. /\ picked # << >> /\ s \in Candidates /\ (Granted(Entity, s) \/ UNCHANGED cluster)
      /\ UNCHANGED <<mapped, peers, found, balancedDistribution, offset, run, todo, steppedDown, moved>>
      /\ picked' = << >> /\ current' = NoServer /\ (pc' = pc \/ pc' = "failed")
  BY DEF LeaderStepDownFails
<1>2. /\ c \in Servers /\ entities[c] \in Seq(Entities) /\ Listed(c, entities[c])
      /\ i \in 1 .. Len(entities[c]) /\ offset[c] > 0 /\ Entity \in Entities /\ pc # "map"
  BY <1>1, Requested
<1>3. shorter \in Seq(Entities) /\ Len(shorter) = Len(entities[c]) - 1 /\ Listed(c, shorter)
  BY <1>2, RemoveAtListed
<1>4. Replaced(list)
  BY DEF LeaderStepDownFails, Replaced
<1> HIDE DEF shorter
<1>5. list \in Seq(Entities) /\ Len(list) <= Len(shorter) /\ Listed(c, list)
  BY <1>2, <1>3, DeleteAgainListed
<1> HIDE DEF list, c, i
<1>6. Len(list) <= Len(entities[c]) /\ Len(list) <= Len(entities[c]) - 1
  BY <1>2, <1>3, <1>5
<1>7. /\ entities' \in [Servers -> Seq(Entities)]
      /\ \A t \in Servers : Len(entities'[t]) <= Len(entities[t]) /\ Listed(t, entities'[t])
      /\ entities'[c] = list
      /\ \A t \in Servers \ {c} : entities'[t] = entities[t]
  BY <1>2, <1>4, <1>5, <1>6, ReplacedShrinks DEF c
<1>8. leader' \in [Entities -> Leader] /\ elections' \in Nat
  <2>1. CASE UNCHANGED cluster
    BY <2>1 DEF cluster, BalancerInv, Types
  <2>2. CASE Granted(Entity, s)
    <3>1. Group[Entity] \subseteq Servers
      BY <1>2, BalancerAssumption, EntitiesInterval
    <3>2. PICK l \in Servers : leader' = [leader EXCEPT ![Entity] = l]
      BY <2>2, <3>1 DEF Granted
    <3>3. elections' \in Nat
      BY <2>2 DEF Granted, BalancerInv, Types
    <3> QED BY <3>2, <3>3 DEF BalancerInv, Types, Leader
  <2> QED BY <1>1, <2>1, <2>2
<1>9. Types'
  BY <1>1, <1>7, <1>8 DEF BalancerInv, Types, Leader
<1>10. Visiting'
  BY <1>1, <1>2, BalancerAssumption DEF BalancerInv, Types, Visiting
<1>11. \A t \in Servers : Recounted(t) /\ Listed(t, entities'[t])
  BY <1>1, <1>7 DEF Recounted
<1>12. Lists' /\ Surplus'
  BY <1>1, <1>2, <1>9, <1>11, ShrinkSurplus
<1>13. Losses'
  <2>1. CASE UNCHANGED cluster
    <3>1. \A t \in Servers : t \in todo' \/ t = current' => t \in todo \/ t = current
      BY <1>1, BalancerAssumption
    <3> QED BY <1>1, <1>2, <1>9, <1>11, <2>1, <3>1, ShrinkLosses DEF cluster
  <2>2. CASE Granted(Entity, s)
    <3> SUFFICES ASSUME elections' = 0, NEW t \in Servers
                 PROVE  /\ Len(entities'[t]) + Cardinality(Gone(t)') <= Cardinality(found'[t])
                        /\ (t \in todo' \/ t = current') /\ offset'[t] > 0 =>
                              offset'[t] + Cardinality(Gone(t)') <=
                                 Cardinality(found'[t]) - balancedDistribution'
                        /\ Gone(t)' # {} => Cardinality(Gone(t)') <=
                                                Cardinality(found'[t]) - balancedDistribution'
                        /\ pc' = "map" => Gone(t)' = {}
      BY DEF Losses
    <3>1. elections = 0 /\ IF t = c THEN Cardinality(Gone(t)') <= Cardinality(Gone(t)) + 1
                                    ELSE Gone(t)' = Gone(t)
      BY <1>1, <2>2, OneGone DEF c
    <3>2. /\ Len(entities[t]) + Cardinality(Gone(t)) <= Cardinality(found[t])
          /\ (t \in todo \/ t = c) /\ offset[t] > 0 =>
                offset[t] + Cardinality(Gone(t)) <= Cardinality(found[t]) - balancedDistribution
          /\ Gone(t) # {} => Cardinality(Gone(t)) <= Cardinality(found[t]) - balancedDistribution
      BY <3>1 DEF BalancerInv, Losses, c
    <3>3. found'[t] = found[t] /\ balancedDistribution' = balancedDistribution /\ offset'[t] = offset[t]
          /\ todo' = todo /\ t # current' /\ c \notin todo /\ pc' # "map"
      BY <1>1, <1>2, BalancerAssumption DEF BalancerInv, Visiting, c
    <3>4. CASE t = c
      <4>1. /\ Cardinality(found[t]) \in Nat /\ Len(entities[t]) \in Nat /\ offset[t] \in Int
            /\ Cardinality(Gone(t)) \in Nat /\ balancedDistribution \in Int
        BY CountTypes DEF BalancerInv
      <4>2. Gone(t)' \in SUBSET Entities /\ Len(entities'[t]) \in Nat
        BY <1>7, <3>3 DEF Gone, BalancerInv, Types
      <4>3. Cardinality(Gone(t)') \in Nat
        BY <4>2, Counts
      <4>4. /\ Len(entities[t]) - 1 + Cardinality(Gone(t)') <= Cardinality(found[t])
            /\ Cardinality(Gone(t)') <= Cardinality(found[t]) - balancedDistribution
        BY <1>2, <3>1, <3>2, <3>4, <4>1, <4>3, OneGivenUp
      <4>5. Len(entities'[t]) <= Len(entities[t]) - 1
        BY <1>6, <1>7, <3>4
      <4>6. Len(entities'[t]) + Cardinality(Gone(t)') <= Cardinality(found[t])
        BY <4>1, <4>2, <4>3, <4>4, <4>5
      <4> QED BY <3>3, <3>4, <4>4, <4>6
    <3>5. CASE t # c
      BY <1>7, <3>1, <3>2, <3>3, <3>5
    <3> QED BY <3>4, <3>5
  <2> QED BY <1>1, <2>1, <2>2
<1> QED BY <1>9, <1>10, <1>12, <1>13 DEF BalancerInv

-----------------------------------------------------------------------------
(* Before the balancing, and beside it.                                    *)

\* Nothing is moved, or lost without an election, while the view is gathered.
LEMMA MapStep ==
    ASSUME BalancerInv, createClusterMappings
    PROVE  BalancerInv'
<1> DEFINE e == mapped + 1
           l == leader[e]
<1>1. /\ pc = "map" /\ mapped < Len(Group) /\ UNCHANGED <<cluster, progress, moved, balancedDistribution>>
      /\ Types /\ Visiting /\ Lists /\ Surplus /\ Losses
  BY DEF createClusterMappings, BalancerInv
<1>2. UNCHANGED <<leader, elections, offset, todo, current, picked>>
  BY <1>1 DEF cluster, progress
<1>3. CASE pc' = "failed" /\ UNCHANGED <<mapped, peers, entities, found>>
  <2>1. Types'
    BY <1>1, <1>2, <1>3 DEF Types
  <2>2. Visiting'
    BY <1>1, <1>2, <1>3 DEF Visiting
  <2>3. \A t \in Servers : Recounted(t) /\ Listed(t, entities'[t])
    BY <1>1, <1>2, <1>3 DEF Recounted, Types, Lists
  <2>4. Lists' /\ Surplus'
    BY <1>1, <1>3, <2>1, <2>3, ShrinkSurplus
  <2>5. Losses'
    BY <1>1, <1>2, <1>3, <2>1, <2>3, ShrinkLosses
  <2> QED BY <2>1, <2>2, <2>4, <2>5 DEF BalancerInv
<1>4. CASE /\ peers' = peers \cup Group[e]
           /\ entities' = [s \in Servers |-> IF s = l THEN Append(entities[s], e) ELSE entities[s]]
           /\ found' = [s \in Servers |-> IF s = l THEN found[s] \cup {e} ELSE found[s]]
           /\ mapped' = e
           /\ UNCHANGED pc
  <2>1. /\ e \in Entities /\ mapped \in Nat /\ e \in 1 .. Len(Group) /\ Group[e] \subseteq Servers
        /\ moved[e] = 0
    BY <1>1, EntitiesInterval, BalancerAssumption DEF Types, Lists
  <2>2. \A s \in Servers : e \notin found[s]
    BY <1>1, <2>1 DEF Lists
  <2>3. Types'
    BY <1>1, <1>2, <1>4, <2>1 DEF Types
  <2>4. Visiting'
    BY <1>1, <1>2, <1>4 DEF Visiting
  <2>5. ASSUME NEW s \in Servers
        PROVE  /\ entities[s] \in Seq(Entities) /\ Len(entities[s]) \in Nat
               /\ s = l => entities'[s] = Append(entities[s], e) /\ found'[s] = found[s] \cup {e}
               /\ s # l => entities'[s] = entities[s] /\ found'[s] = found[s]
    BY <1>1, <1>4 DEF Types
  <2> HIDE DEF e, l
  <2>6. ASSUME NEW s \in Servers PROVE Listed(s, entities[s])'
    <3>1. Listed(s, entities[s])
      BY <1>1 DEF Lists
    <3>2. CASE s = l
      <4> DEFINE n == Len(entities[s])
      <4>1. /\ n \in Nat /\ Len(entities'[s]) = n + 1 /\ entities'[s][n + 1] = e
            /\ \A k \in 1 .. n : entities'[s][k] = entities[s][k]
        BY <2>1, <2>5, <3>2
      <4> HIDE DEF n
      <4>2. \A k \in 1 .. n : entities[s][k] \in found[s] /\ moved[entities[s][k]] = 0 /\ entities[s][k] # e
        BY <2>2, <3>1 DEF Listed, n
      <4>3. \A k \in 1 .. n + 1 : entities'[s][k] \in found'[s] /\ moved[entities'[s][k]] = 0
        BY <2>1, <2>5, <3>2, <4>1, <4>2
      <4>4. \A j, k \in 1 .. n : j # k => entities[s][j] # entities[s][k]
        BY <3>1 DEF Listed, n
      <4>5. \A j, k \in 1 .. n + 1 : j # k => entities'[s][j] # entities'[s][k]
        <5> SUFFICES ASSUME NEW j \in 1 .. n + 1, NEW k \in 1 .. n + 1, j # k
                     PROVE  entities'[s][j] # entities'[s][k]
          OBVIOUS
        <5>1. CASE j = n + 1
          <6>1. k \in 1 .. n
            BY <4>1, <5>1
          <6> QED BY <4>1, <4>2, <5>1, <6>1
        <5>2. CASE k = n + 1
          <6>1. j \in 1 .. n
            BY <4>1, <5>2
          <6> QED BY <4>1, <4>2, <5>2, <6>1
        <5>3. CASE j \in 1 .. n /\ k \in 1 .. n
          BY <4>1, <4>4, <5>3
        <5> QED BY <4>1, <5>1, <5>2, <5>3
      <4> QED BY <1>1, <4>1, <4>3, <4>5 DEF Listed
    <3>3. CASE s # l
      BY <1>1, <2>5, <3>1, <3>3 DEF Listed
    <3> QED BY <3>2, <3>3
  <2>7. \A s \in Servers : found'[s] \subseteq 1 .. mapped'
    BY <1>1, <1>4, <2>1, <2>5 DEF Lists, e
  <2>8. \A s, t \in Servers : s # t => found'[s] \cap found'[t] = {}
    BY <1>1, <2>2, <2>5 DEF Lists
  <2>9. Lists'
    BY <1>1, <1>4, <2>6, <2>7, <2>8 DEF Lists
  <2>10. ASSUME NEW s \in Servers
         PROVE  /\ Given(s) = {} /\ Given(s)' = {} /\ Cardinality(Given(s)) = 0
                /\ Cardinality(found[s]) \in Nat
                /\ offset[s] \in Int /\ balancedDistribution \in Int
                /\ IF s = l THEN /\ Len(entities'[s]) = Len(entities[s]) + 1
                                 /\ Cardinality(found'[s]) = Cardinality(found[s]) + 1
                            ELSE entities'[s] = entities[s] /\ found'[s] = found[s]
    <3>1. found[s] \in SUBSET Entities /\ found'[s] \in SUBSET Entities
      BY <1>1, <2>3 DEF Types
    <3>2. \A x \in Entities : moved[x] = 0 /\ moved'[x] = 0
      BY <1>1 DEF Lists
    <3>3. Given(s) = {} /\ Given(s)' = {}
      BY <3>1, <3>2 DEF Given
    <3>4. s = l => Cardinality(found'[s]) = Cardinality(found[s]) + 1
      BY <2>2, <2>5, <3>1, Counts
    <3>5. s = l => Len(entities'[s]) = Len(entities[s]) + 1
      BY <2>1, <2>5
    <3> QED BY <1>1, <2>5, <3>3, <3>4, <3>5, CountTypes, FS_EmptySet
  <2>11. ASSUME NEW s \in Servers
         PROVE  /\ Len(entities'[s]) + 0 <= Cardinality(found'[s])
                /\ offset'[s] > 0 => offset'[s] + 0 <= Cardinality(found'[s]) - balancedDistribution'
    <3>1. Len(entities[s]) <= Cardinality(found[s])
          /\ (offset[s] > 0 => offset[s] <= Cardinality(found[s]) - balancedDistribution)
      BY <1>1, <2>5, <2>10 DEF Surplus
    <3>2. CASE s = l
      <4>1. Len(entities'[s]) = Len(entities[s]) + 1 /\ Cardinality(found'[s]) = Cardinality(found[s]) + 1
        BY <2>10, <3>2
      <4> QED BY <1>1, <1>2, <2>5, <2>10, <3>1, <4>1
    <3>3. CASE s # l
      BY <1>1, <1>2, <2>5, <2>10, <3>1, <3>3
    <3> QED BY <3>2, <3>3
  <2>12. Surplus'
    BY <2>10, <2>11, FS_EmptySet DEF Surplus
  <2>13. Losses'
    <3>1. elections = 0 => \A s \in Servers : Gone(s) = {}
      BY <1>1 DEF Losses
    <3>2. elections = 0 => \A s \in Servers : Gone(s)' = {}
      BY <1>2, <2>5, <3>1 DEF Gone, l
    <3> QED BY <1>2, <2>11, <3>2, FS_EmptySet DEF Losses
  <2> QED BY <2>3, <2>4, <2>9, <2>12, <2>13 DEF BalancerInv
<1> QED BY <1>3, <1>4 DEF createClusterMappings

\* The first offsets are those of what was found.
LEMMA StartStep ==
    ASSUME BalancerInv, startBalance
    PROVE  BalancerInv'
<1> DEFINE d == balancedDistribution'
<1>1. /\ pc = "map" /\ pc' = "balance" /\ todo' = peers /\ offset' = calcLeaderOffset(d)
      /\ UNCHANGED <<leader, elections, moved, mapped, peers, entities, found, current, picked>>
      /\ Types /\ Visiting /\ Lists /\ Surplus /\ Losses
  BY DEF startBalance, BalancerInv, cluster
<1>2. d \in Int
  <2>1. UNION {found[s] : s \in Servers} \in SUBSET Entities
    BY <1>1 DEF Types
  <2>2. Cardinality(UNION {found[s] : s \in Servers}) \in Nat
    BY <2>1, Counts
  <2>3. Cardinality(peers) \in Nat
    BY <1>1, BalancerAssumption, FS_Subset, FS_CardinalityType DEF Types
  <2> QED BY <2>2, <2>3, DistributionType DEF startBalance
<1> HIDE DEF d
<1>3. ASSUME NEW s \in Servers
      PROVE  /\ Len(entities[s]) \in Nat /\ Cardinality(found[s]) \in Nat
             /\ Given(s) = {} /\ Len(entities[s]) <= Cardinality(found[s])
             /\ offset'[s] \in Int /\ (offset'[s] = Len(entities[s]) - d \/ offset'[s] = 0)
  <2>1. Len(entities[s]) \in Nat /\ Cardinality(found[s]) \in Nat
    BY <1>1, CountTypes
  <2>2. Given(s) = {}
    BY <1>1 DEF Lists, Types, Given
  <2>3. Len(entities[s]) + 0 <= Cardinality(found[s])
    BY <1>1, <2>2, FS_EmptySet DEF Surplus
  <2>4. offset'[s] = Len(entities[s]) - d \/ offset'[s] = 0
    BY <1>1 DEF calcLeaderOffset
  <2> QED BY <1>2, <2>1, <2>2, <2>3, <2>4
<1>4. offset' \in [Servers -> Int]
  BY <1>1, <1>2, <1>3 DEF calcLeaderOffset
<1>5. Types'
  BY <1>1, <1>2, <1>4 DEF Types, d
<1>6. Visiting'
  BY <1>1, BalancerAssumption DEF Visiting, Types
<1>7. Lists'
  BY <1>1 DEF Lists, Listed
<1>8. ASSUME NEW s \in Servers
      PROVE  /\ Len(entities'[s]) + 0 <= Cardinality(found'[s])
             /\ offset'[s] > 0 => offset'[s] + 0 <= Cardinality(found'[s]) - balancedDistribution'
  BY <1>1, <1>2, <1>3 DEF d
<1>9. Surplus'
  <2>1. \A s \in Servers : Given(s)' = {}
    BY <1>1, <1>3 DEF Given
  <2> QED BY <1>8, <2>1, FS_EmptySet DEF Surplus
<1>10. Losses'
  <2>1. elections = 0 => \A s \in Servers : Gone(s)' = {}
    BY <1>1 DEF Losses, Gone
  <2> QED BY <1>1, <1>8, <2>1, FS_EmptySet DEF Losses
<1> QED BY <1>5, <1>6, <1>7, <1>9, <1>10 DEF BalancerInv

\* An election nobody asked for changes nothing the balancer counts.
LEMMA ElectionStep ==
    ASSUME BalancerInv, NEW e \in Entities, Election(e)
    PROVE  BalancerInv'
<1>1. /\ UNCHANGED <<mapped, peers, entities, found, balancedDistribution, offset, todo, current, picked,
                     pc, moved>>
      /\ elections' = elections + 1
  BY DEF Election, tables, progress
<1>2. leader' \in [Entities -> Leader]
  BY EntitiesInterval, BalancerAssumption DEF Election, BalancerInv, Types, Leader
<1>3. Types'
  BY <1>1, <1>2 DEF BalancerInv, Types
<1>4. Visiting' /\ Lists'
  BY <1>1 DEF BalancerInv, Visiting, Lists, Listed
<1>5. Surplus'
  <2>1. \A s \in Servers : Given(s)' = Given(s)
    BY <1>1 DEF Given
  <2> QED BY <1>1, <2>1 DEF BalancerInv, Surplus
<1>6. Losses'
  BY <1>1 DEF BalancerInv, Types, Losses
<1> QED BY <1>3, <1>4, <1>5, <1>6 DEF BalancerInv

LEMMA NextBalancerInv == BalancerInv /\ [Next]_vars => BalancerInv'
<1> SUFFICES ASSUME BalancerInv, [Next]_vars PROVE BalancerInv'
  OBVIOUS
<1>1. CASE UNCHANGED vars
  <2>1. UNCHANGED <<leader, elections, mapped, peers, entities, found, balancedDistribution, offset,
                    todo, current, picked, pc, moved>>
    BY <1>1 DEF vars, cluster, tables, progress
  <2>2. \A s \in Servers : Given(s)' = Given(s) /\ Gone(s)' = Gone(s)
    BY <2>1 DEF Given, Gone
  <2>3. Types' /\ Visiting' /\ Lists'
    BY <2>1 DEF BalancerInv, Types, Visiting, Lists, Listed
  <2>4. Surplus' /\ Losses'
    BY <2>1, <2>2 DEF BalancerInv, Surplus, Losses
  <2> QED BY <2>3, <2>4 DEF BalancerInv
<1> QED
  BY <1>1, MapStep, StartStep, VisitStep, PickStep, LeaveStep, SkipStep, StepDownStep,
     StepDownFailsStep, EndRunStep, ElectionStep
     DEF Next, Balance, Returned

-----------------------------------------------------------------------------
\* What the balancer has listed, given up and may still give up, for clusters of any size.
THEOREM BalancerInvariant == Spec => []BalancerInv
BY InitBalancerInv, NextBalancerInv, PTL DEF Spec

\* Over all runs a server gives up at most the leaders it was found to have over the even
\* distribution, and no entity is moved twice, whatever was dropped, skipped or failed and
\* whatever the cluster elects meanwhile (balanceEntities, balancer/balancer.go).
THEOREM SurplusOnly == Spec => []GivesUpSurplusOnly
<1>1. BalancerInv => GivesUpSurplusOnly
  <2> SUFFICES ASSUME BalancerInv, NEW s \in Servers, Cardinality(Given(s)) > 0
               PROVE  Cardinality(Given(s)) <= Cardinality(found[s]) - balancedDistribution
    BY DEF GivesUpSurplusOnly, BalancerInv, Lists, Given
  <2>1. Given(s) # {}
    BY CountTypes DEF BalancerInv
  <2> QED BY <2>1 DEF BalancerInv, Surplus
<1> QED BY <1>1, BalancerInvariant, PTL

\* As long as the cluster elects nobody on its own, the balancer takes no server that led its
\* share below it, the requests whose answers were lost included.
THEOREM ShareIsKept == Spec => []ShareKept
<1>1. BalancerInv => ShareKept
  <2> SUFFICES ASSUME BalancerInv, elections = 0, NEW s \in Servers,
                      Cardinality({e \in Entities : leader[e] = s}) < balancedDistribution
               PROVE  Cardinality({e \in Entities : leader[e] = s}) >= Cardinality(found[s])
    BY DEF ShareKept
  <2> DEFINE leads == {e \in Entities : leader[e] = s}
  <2>1. /\ found[s] \in SUBSET Entities /\ Gone(s) \in SUBSET Entities /\ leads \in SUBSET Entities
        /\ Cardinality(found[s]) \in Nat /\ Cardinality(Gone(s)) \in Nat
        /\ balancedDistribution \in Int
    BY CountTypes DEF BalancerInv
  <2>2. Cardinality(leads) \in Nat /\ \A B \in SUBSET leads : Cardinality(B) <= Cardinality(leads)
    BY <2>1, Counts
  <2>3. CASE Gone(s) = {}
    <3>1. found[s] \in SUBSET leads
      BY <2>1, <2>3 DEF Gone
    <3> QED BY <2>1, <2>2, <3>1
  <2>4. CASE Gone(s) # {}
    <3>1. Cardinality(Gone(s)) <= Cardinality(found[s]) - balancedDistribution
      BY <2>4 DEF BalancerInv, Losses
    <3>2. found[s] \ Gone(s) \in SUBSET leads
      BY <2>1 DEF Gone
    <3>3. Cardinality(found[s] \ Gone(s)) <= Cardinality(leads)
      BY <2>2, <3>2
    <3>4. Cardinality(found[s] \ Gone(s)) = Cardinality(found[s]) - Cardinality(Gone(s))
      <4>1. IsFiniteSet(found[s]) /\ IsFiniteSet(Gone(s)) /\ found[s] \cap Gone(s) = Gone(s)
        BY <2>1, EntitiesInterval, FS_Subset DEF Gone
      <4> QED BY <4>1, FS_Difference
    <3> QED BY <2>1, <2>2, <3>1, <3>3, <3>4
  <2> QED BY <2>3, <2>4
<1> QED BY <1>1, BalancerInvariant, PTL
=============================================================================
