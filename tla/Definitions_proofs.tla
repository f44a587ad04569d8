------------------------- MODULE Definitions_proofs -------------------------
(* Proofs about what is defined before anything runs.

   WorkflowDefinition, for lists of nodes and edges of any length: what is saved
   has an order, and what has none is refused.  The edges that still hold a node
   back (OpenEdges) are as many as its in-degree.

   ToolPipeline, for any library and any number of jobs: what the operations of a
   tool have left, after the first n of them, is what the others need. *)

EXTENDS WorkflowDefinition, ToolPipeline, FiniteSetTheorems, WellFoundedInduction,
        SequenceTheorems, TLAPS

ListsInv ==
  /\ Len(nodes) \in Nat /\ DOMAIN nodes = 1 .. Len(nodes)
  /\ Len(edges) \in Nat /\ DOMAIN edges = 1 .. Len(edges)

\* The nodes that were checked: valid, and with ids of their own.
CheckedInv ==
  /\ nodeIds \in Seq(Ids) /\ Len(nodeIds) <= Len(nodes)
  /\ \A i \in 1 .. Len(nodeIds) : nodeIds[i] = nodes[i].id /\ nodes[i].ok
  /\ IsInjective(nodeIds)

\* The edges into a node whose source was not popped, or that are about to be visited.
OpenEdges(n) ==
  {i \in DOMAIN edges : edges[i][2] = n /\ (edges[i][1] \notin ToSet(ordered) \/ i \in targets)}

Queued(n) == n \in ToSet(queue) \cup ToSet(ordered)

\* The queue, what was popped from it, and the node whose edges are visited.
QueueInv ==
  /\ Len(nodeIds) = Len(nodes)
  /\ \A i \in DOMAIN edges : edges[i][1] \in Ids /\ edges[i][2] \in Ids
  /\ queue \in Seq(Ids) /\ ordered \in Seq(Ids)
  /\ IsInjective(queue) /\ IsInjective(ordered)
  /\ ToSet(queue) \cap ToSet(ordered) = {}
  /\ targets \subseteq DOMAIN edges
  /\ \A i \in targets : edges[i][1] \in ToSet(ordered)
  /\ pc # "visit" => targets = {}
  /\ pc \in {"sorted", "cycle"} => queue = <<>>
  /\ pc = "sorted" => Len(ordered) = Len(nodeIds)
  /\ pc = "cycle" => Len(ordered) # Len(nodeIds)

\* A node is queued when no edge holds it back any more.
DegreeInv ==
  /\ DOMAIN inDegree = Ids
  /\ \A n \in Ids : inDegree[n] = Cardinality(OpenEdges(n))
  /\ \A n \in Ids : Queued(n) <=> OpenEdges(n) = {}

\* Whoever was popped came after all its sources.
OrderInv ==
  \A j \in DOMAIN ordered : \A i \in DOMAIN edges :
    edges[i][2] = ordered[j] => \E k \in DOMAIN ordered : k < j /\ ordered[k] = edges[i][1]

SortInv ==
  pc \in {"pop", "visit", "sorted", "cycle"} => QueueInv /\ DegreeInv /\ OrderInv

DefinitionInv ==
  /\ pc \in {"nodes", "invalid", "pop", "visit", "sorted", "cycle"}
  /\ pc = "nodes" => ordered = <<>> /\ targets = {}
  /\ ListsInv /\ CheckedInv /\ SortInv

-----------------------------------------------------------------------------
(* Numbers and sets.                                                       *)

LEMMA LeastOf ==
  ASSUME NEW S \in SUBSET Nat, IsFiniteSet(S), S # {}
  PROVE  \E p \in S : \A q \in S : p <= q
<1> DEFINE Below(p) == {q \in S : q < p}
           family == {Below(p) : p \in S}
<1>1. IsWellFoundedOn(StrictSubsetOrdering(S), FiniteSubsetsOf(S))
  BY FS_StrictSubsetOrderingWellFounded
<1>2. family # {} /\ family \subseteq FiniteSubsetsOf(S)
  <2>1. ASSUME NEW p \in S PROVE Below(p) \in FiniteSubsetsOf(S)
    <3>1. Below(p) \in SUBSET S
      OBVIOUS
    <3>2. IsFiniteSet(Below(p))
      BY <3>1, FS_Subset
    <3> QED BY <3>1, <3>2 DEF FiniteSubsetsOf
  <2> QED BY <2>1
<1>3. PICK A \in family : \A B \in family : <<B, A>> \notin StrictSubsetOrdering(S)
  <2> HIDE DEF family
  <2> QED BY <1>1, <1>2, WFMin
<1>4. PICK p \in S : A = Below(p)
  BY DEF family
<1>5. ASSUME NEW q \in S PROVE p <= q
  <2>0. p \in Nat /\ q \in Nat
    OBVIOUS
  <2>1. CASE q < p
    <3>1. ASSUME NEW m \in Below(q) PROVE m \in Below(p)
      <4>1. m \in S /\ m < q /\ m \in Nat
        OBVIOUS
      <4> QED BY <4>1, <2>0, <2>1
    <3>2. Below(q) \subseteq Below(p)
      BY <3>1
    <3>3. q \in Below(p) /\ q \notin Below(q)
      BY <2>0, <2>1
    <3>4. <<Below(q), Below(p)>> \in StrictSubsetOrdering(S)
      BY <3>2, <3>3 DEF StrictSubsetOrdering
    <3>5. Below(q) \in family
      OBVIOUS
    <3> QED BY <1>3, <1>4, <3>4, <3>5
  <2> QED BY <2>0, <2>1
<1> QED BY <1>5

\* A list without repetitions has as many elements as it is long.
LEMMA ListCardinality ==
  ASSUME NEW S, NEW s \in Seq(S), IsInjective(s)
  PROVE  IsFiniteSet(ToSet(s)) /\ Cardinality(ToSet(s)) = Len(s)
<1>1. Len(s) \in Nat /\ DOMAIN s = 1 .. Len(s) /\ s \in [1 .. Len(s) -> ToSet(s)]
  BY DEF ToSet
<1> DEFINE T == ToSet(s)
           D == 1 .. Len(s)
<1>2. s \in Bijection(1 .. Len(s), ToSet(s))
  <2>1. \A t \in T : \E k \in D : s[k] = t
    BY <1>1 DEF ToSet
  <2>2. s \in [D -> T] /\ \A k, l \in D : s[k] = s[l] => k = l
    BY <1>1 DEF IsInjective
  <2> HIDE DEF T, D
  <2>3. s \in Injection(D, T)
    BY <2>2 DEF Injection, IsInjective
  <2>4. s \in Surjection(D, T)
    BY <2>1, <2>2 DEF Surjection
  <2> QED BY <2>3, <2>4 DEF Bijection, T, D
<1>3. IsFiniteSet(1 .. Len(s)) /\ Cardinality(1 .. Len(s)) = Len(s)
  BY <1>1, FS_Interval
<1>4. ExistsBijection(1 .. Len(s), ToSet(s))
  BY <1>2 DEF ExistsBijection
<1> QED BY <1>3, <1>4, FS_Bijection

LEMMA OpenFinite ==
  ASSUME ListsInv, NEW n
  PROVE  IsFiniteSet(OpenEdges(n)) /\ Cardinality(OpenEdges(n)) \in Nat
<1>1. IsFiniteSet(DOMAIN edges)
  BY FS_Interval DEF ListsInv
<1>2. OpenEdges(n) \in SUBSET DOMAIN edges
  BY DEF OpenEdges
<1>3. IsFiniteSet(OpenEdges(n))
  BY <1>1, <1>2, FS_Subset
<1> QED BY <1>3, FS_CardinalityType

\* A valid list of nodes names each once.
LEMMA IdsCardinality ==
  ASSUME ListsInv, CheckedInv, Len(nodeIds) = Len(nodes)
  PROVE  /\ ToSet(nodeIds) = Ids
         /\ IsFiniteSet(Ids) /\ Cardinality(Ids) = Len(nodes)
<1>1. ToSet(nodeIds) = Ids
  <2>1. DOMAIN nodeIds = DOMAIN nodes /\ \A i \in DOMAIN nodes : nodeIds[i] = nodes[i].id
    BY DEF ListsInv, CheckedInv
  <2> QED BY <2>1 DEF ToSet, Ids
<1>2. nodeIds \in Seq(Ids) /\ IsInjective(nodeIds)
  BY DEF CheckedInv
<1> QED BY <1>1, <1>2, ListCardinality

LEMMA AppendIs ==
  ASSUME NEW S, NEW s \in Seq(S), NEW e \in S
  PROVE  /\ Append(s, e) \in Seq(S) /\ Len(Append(s, e)) = Len(s) + 1
         /\ ToSet(Append(s, e)) = ToSet(s) \cup {e}
         /\ IsInjective(s) /\ e \notin ToSet(s) => IsInjective(Append(s, e))
<1> DEFINE t == Append(s, e)
<1>1. /\ t \in Seq(S) /\ Len(t) = Len(s) + 1 /\ Len(s) \in Nat
      /\ DOMAIN s = 1 .. Len(s) /\ DOMAIN t = 1 .. Len(s) + 1
      /\ \A i \in 1 .. Len(s) : t[i] = s[i]
      /\ t[Len(s) + 1] = e
  BY AppendProperties
<1> HIDE DEF t
<1>2. ToSet(t) = ToSet(s) \cup {e}
  BY <1>1 DEF ToSet
<1>3. ASSUME IsInjective(s), e \notin ToSet(s) PROVE IsInjective(t)
  BY <1>1, <1>3 DEF ToSet, IsInjective
<1> QED BY <1>1, <1>2, <1>3 DEF t

LEMMA TailIs ==
  ASSUME NEW S, NEW s \in Seq(S), s # <<>>, IsInjective(s)
  PROVE  /\ Head(s) \in S /\ Head(s) \in ToSet(s)
         /\ Tail(s) \in Seq(S) /\ IsInjective(Tail(s))
         /\ ToSet(Tail(s)) = ToSet(s) \ {Head(s)}
<1> DEFINE t == Tail(s)
<1>1. /\ t \in Seq(S) /\ Len(t) = Len(s) - 1 /\ Len(s) \in Nat \ {0}
      /\ DOMAIN s = 1 .. Len(s) /\ DOMAIN t = 1 .. Len(s) - 1
      /\ \A i \in 1 .. Len(s) - 1 : t[i] = s[i + 1]
      /\ Head(s) = s[1] /\ Head(s) \in S
  BY HeadTailProperties
<1> HIDE DEF t
<1>2. Head(s) \in ToSet(s)
  BY <1>1 DEF ToSet
<1>3. IsInjective(t)
  BY <1>1 DEF IsInjective
<1>4. ToSet(t) = ToSet(s) \ {Head(s)}
  <2>1. ASSUME NEW x \in ToSet(t) PROVE x \in ToSet(s) /\ x # Head(s)
    <3>1. PICK k \in 1 .. Len(s) - 1 : x = t[k]
      BY <1>1 DEF ToSet
    <3>2. k + 1 \in 1 .. Len(s) /\ k + 1 # 1 /\ 1 \in 1 .. Len(s) /\ x = s[k + 1]
      BY <1>1, <3>1
    <3> QED BY <1>1, <3>2 DEF ToSet, IsInjective
  <2>2. ASSUME NEW x \in ToSet(s), x # Head(s) PROVE x \in ToSet(t)
    <3>1. PICK k \in 1 .. Len(s) : x = s[k]
      BY <1>1 DEF ToSet
    <3>2. k - 1 \in 1 .. Len(s) - 1 /\ t[k - 1] = s[k]
      BY <1>1, <2>2, <3>1
    <3> QED BY <1>1, <3>1, <3>2 DEF ToSet
  <2> QED BY <2>1, <2>2
<1> QED BY <1>1, <1>2, <1>3, <1>4 DEF t

-----------------------------------------------------------------------------
(* The steps.                                                              *)

LEMMA AcceptsMeans ==
  ASSUME NEW n, Accepts(n)
  PROVE  n.ok /\ n.id \notin ToSet(nodeIds)
BY DEF Accepts

LEMMA CheckNodeStep ==
  ASSUME DefinitionInv, CheckNode
  PROVE  DefinitionInv'
<1> USE DEF DefinitionInv, CheckNode
<1> DEFINE node == nodes[Len(nodeIds) + 1]
<1>1. ListsInv' /\ Ids' = Ids
  BY DEF ListsInv, Ids
<1>2. CASE Accepts(node) /\ nodeIds' = Append(nodeIds, node.id) /\ UNCHANGED pc
  <2>1. Len(nodeIds) + 1 \in DOMAIN nodes /\ node.id \in Ids
    BY DEF ListsInv, CheckedInv, Ids
  <2>2. node.ok /\ node.id \notin ToSet(nodeIds)
    BY <1>2, AcceptsMeans
  <2>3. nodeIds \in Seq(Ids) /\ IsInjective(nodeIds)
    BY DEF CheckedInv
  <2>4. nodeIds' \in Seq(Ids) /\ Len(nodeIds') = Len(nodeIds) + 1 /\ IsInjective(nodeIds')
    BY <1>2, <2>1, <2>2, <2>3, AppendIs
  <2>5. \A i \in 1 .. Len(nodeIds') :
          nodeIds'[i] = IF i <= Len(nodeIds) THEN nodeIds[i] ELSE node.id
    BY <1>2, <2>1, <2>3, <2>4, AppendProperties
  <2>6. \A i \in 1 .. Len(nodeIds') : nodeIds'[i] = nodes[i].id /\ nodes[i].ok
    BY <2>2, <2>3, <2>4, <2>5 DEF CheckedInv
  <2>7. CheckedInv'
    BY <1>1, <2>3, <2>4, <2>6 DEF CheckedInv, ListsInv
  <2> QED BY <1>1, <1>2, <2>7 DEF SortInv
<1>3. CASE pc' = "invalid" /\ UNCHANGED nodeIds
  BY <1>1, <1>3 DEF CheckedInv, SortInv
<1> QED BY <1>2, <1>3

LEMMA InitialQueueIs ==
  ASSUME CheckedInv, NEW q \in BoundedSeq(Ids, Len(nodeIds)), InitialQueue(q)
  PROVE  q \in Seq(Ids) /\ IsInjective(q)
<1>1. q \in Seq(Ids)
  BY DEF BoundedSeq, SeqOf, CheckedInv
<1>2. \A k, l \in DOMAIN q : k < l => q[k] # q[l]
  BY DEF InitialQueue, CheckedInv, IsInjective
<1>3. DOMAIN q \subseteq Nat
  BY <1>1
<1> QED BY <1>1, <1>2, <1>3 DEF IsInjective

LEMMA CheckEdgesStep ==
  ASSUME DefinitionInv, CheckEdges
  PROVE  DefinitionInv'
<1> USE DEF DefinitionInv, CheckEdges
<1>1. ListsInv' /\ CheckedInv' /\ Ids' = Ids
  BY DEF ListsInv, Ids, CheckedInv
<1>2. CASE /\ \A i \in DOMAIN edges : {edges[i][1], edges[i][2]} \subseteq ToSet(nodeIds)
           /\ pc' = "pop" /\ inDegree' = [n \in Ids |-> Degree(n)]
           /\ \E q \in BoundedSeq(Ids, Len(nodeIds)) : InitialQueue(q) /\ queue' = q
  <2>1. ToSet(nodeIds) = Ids
    BY IdsCardinality
  <2>2. queue' \in Seq(Ids) /\ IsInjective(queue')
    BY <1>2, InitialQueueIs
  <2>3. ToSet(queue') = {n \in Ids : Degree(n) = 0}
    BY <1>2, <2>1 DEF InitialQueue
  <2>4. ordered = <<>> /\ ToSet(ordered) = {} /\ targets = {} /\ ordered \in Seq(Ids)
        /\ IsInjective(ordered) /\ DOMAIN ordered = {}
    BY DEF ToSet, IsInjective
  <2>5. UNCHANGED <<nodes, edges, nodeIds, ordered, targets>>
    OBVIOUS
  <2>6. QueueInv'
    BY <1>1, <1>2, <2>1, <2>2, <2>4, <2>5 DEF QueueInv
  <2>7. ASSUME NEW n \in Ids
        PROVE  OpenEdges(n)' = {i \in DOMAIN edges : edges[i][2] = n}
    BY <2>4, <2>5 DEF OpenEdges
  <2>8. ASSUME NEW n \in Ids
        PROVE  /\ inDegree'[n] = Cardinality(OpenEdges(n)')
               /\ Queued(n)' <=> OpenEdges(n)' = {}
    <3>1. inDegree'[n] = Cardinality(OpenEdges(n)') /\ Degree(n) = Cardinality(OpenEdges(n)')
      BY <1>2, <2>7 DEF Degree
    <3>2. IsFiniteSet(OpenEdges(n)')
      <4>1. IsFiniteSet(DOMAIN edges)
        BY FS_Interval DEF ListsInv
      <4>2. OpenEdges(n)' \in SUBSET DOMAIN edges
        BY <2>7
      <4> QED BY <4>1, <4>2, FS_Subset
    <3>3. Degree(n) = 0 <=> OpenEdges(n)' = {}
      BY <3>1, <3>2, FS_EmptySet
    <3>4. Queued(n)' <=> n \in ToSet(queue')
      BY <2>4, <2>5 DEF Queued
    <3> QED BY <2>3, <3>1, <3>3, <3>4
  <2>9. DegreeInv'
    BY <1>1, <1>2, <2>8 DEF DegreeInv
  <2>10. OrderInv'
    BY <2>4, <2>5 DEF OrderInv
  <2> QED BY <1>1, <1>2, <2>6, <2>9, <2>10 DEF SortInv
<1>3. CASE pc' = "invalid"
  BY <1>1, <1>3 DEF SortInv
<1> QED BY <1>2, <1>3

LEMMA PopStep ==
  ASSUME DefinitionInv, Pop
  PROVE  DefinitionInv'
<1> DEFINE h == Head(queue)
<1>1. QueueInv /\ DegreeInv /\ OrderInv /\ ListsInv /\ CheckedInv
  BY DEF DefinitionInv, SortInv, Pop
<1>2. ListsInv' /\ CheckedInv' /\ Ids' = Ids
  BY <1>1 DEF Pop, ListsInv, Ids, CheckedInv
<1>3. /\ pc = "pop" /\ pc' = "visit" /\ queue # <<>> /\ ordered' = Append(ordered, h)
      /\ queue' = Tail(queue) /\ targets' = Downstream(h)
      /\ UNCHANGED <<nodes, edges, nodeIds, inDegree>>
  BY DEF Pop
<1>4. /\ h \in Ids /\ h \in ToSet(queue) /\ h \notin ToSet(ordered)
      /\ queue' \in Seq(Ids) /\ IsInjective(queue') /\ ToSet(queue') = ToSet(queue) \ {h}
  BY <1>1, <1>3, TailIs DEF QueueInv
<1>5. /\ ordered' \in Seq(Ids) /\ Len(ordered') = Len(ordered) + 1
      /\ ToSet(ordered') = ToSet(ordered) \cup {h} /\ IsInjective(ordered')
  BY <1>1, <1>3, <1>4, AppendIs DEF QueueInv
<1> HIDE DEF h
<1>6. targets = {} /\ targets' = {i \in DOMAIN edges : edges[i][1] = h}
  BY <1>1, <1>3 DEF QueueInv, Downstream
<1>7. QueueInv'
  BY <1>1, <1>2, <1>3, <1>4, <1>5, <1>6 DEF QueueInv
<1>8. ASSUME NEW n \in Ids PROVE OpenEdges(n)' = OpenEdges(n) /\ (Queued(n)' <=> Queued(n))
  <2>1. OpenEdges(n)' = OpenEdges(n)
    BY <1>3, <1>4, <1>5, <1>6 DEF OpenEdges
  <2> QED BY <1>4, <1>5, <2>1 DEF Queued
<1>9. DegreeInv'
  BY <1>1, <1>2, <1>3, <1>8 DEF DegreeInv
<1>10. OrderInv'
  <2>1. /\ Len(ordered) \in Nat /\ DOMAIN ordered = 1 .. Len(ordered)
        /\ DOMAIN ordered' = 1 .. Len(ordered) + 1
        /\ \A k \in 1 .. Len(ordered) : ordered'[k] = ordered[k]
        /\ ordered'[Len(ordered) + 1] = h
    BY <1>1, <1>3, <1>4, <1>5, AppendProperties DEF QueueInv
  <2>2. OpenEdges(h) = {}
    BY <1>1, <1>4 DEF DegreeInv, Queued
  <2>3. ASSUME NEW i \in DOMAIN edges, edges[i][2] = h
        PROVE  \E k \in 1 .. Len(ordered) : ordered[k] = edges[i][1]
    BY <2>1, <2>2, <2>3 DEF OpenEdges, ToSet
  <2>4. ASSUME NEW j \in DOMAIN ordered', NEW i \in DOMAIN edges, edges[i][2] = ordered'[j]
        PROVE  \E k \in DOMAIN ordered' : k < j /\ ordered'[k] = edges[i][1]
    <3>1. CASE j = Len(ordered) + 1
      BY <2>1, <2>3, <2>4, <3>1
    <3>2. CASE j \in 1 .. Len(ordered)
      <4>1. PICK k \in DOMAIN ordered : k < j /\ ordered[k] = edges[i][1]
        BY <1>1, <2>1, <2>4, <3>2 DEF OrderInv
      <4> QED BY <2>1, <4>1
    <3> QED BY <2>1, <3>1, <3>2
  <2> QED BY <1>3, <2>4 DEF OrderInv
<1> QED BY <1>2, <1>3, <1>7, <1>9, <1>10 DEF DefinitionInv, SortInv

LEMMA VisitStep ==
  ASSUME DefinitionInv, Visit
  PROVE  DefinitionInv'
<1>1. QueueInv /\ DegreeInv /\ OrderInv /\ ListsInv /\ CheckedInv
  BY DEF DefinitionInv, SortInv, Visit
<1>2. ListsInv' /\ CheckedInv' /\ Ids' = Ids /\ OrderInv'
  BY <1>1 DEF Visit, ListsInv, Ids, CheckedInv, OrderInv
<1>3. PICK i \in targets :
        LET target == edges[i][2] IN
        /\ inDegree' = [inDegree EXCEPT ![target] = @ - 1]
        /\ queue' = IF inDegree[target] = 1 THEN Append(queue, target) ELSE queue
        /\ targets' = targets \ {i}
  BY DEF Visit
<1>15. i \in DOMAIN edges
  BY <1>1 DEF QueueInv
<1>14. PICK target \in Ids : target = edges[i][2]
  BY <1>15, <1>1 DEF QueueInv
<1>4. /\ inDegree' = [inDegree EXCEPT ![target] = @ - 1]
      /\ queue' = IF inDegree[target] = 1 THEN Append(queue, target) ELSE queue
      /\ targets' = targets \ {i}
      /\ pc = "visit" /\ UNCHANGED <<nodes, edges, nodeIds, ordered, pc>>
  BY <1>3, <1>14 DEF Visit
<1>5. i \in DOMAIN edges /\ target \in Ids /\ target = edges[i][2] /\ edges[i][1] \in ToSet(ordered)
  BY <1>15, <1>1, <1>14 DEF QueueInv
<1>6. i \in OpenEdges(target) /\ OpenEdges(target)' = OpenEdges(target) \ {i}
  BY <1>4, <1>5 DEF OpenEdges
<1>7. ASSUME NEW n \in Ids, n # target PROVE OpenEdges(n)' = OpenEdges(n)
  BY <1>4, <1>5, <1>7 DEF OpenEdges
<1>8. target \notin ToSet(queue) /\ target \notin ToSet(ordered)
  BY <1>1, <1>5, <1>6 DEF DegreeInv, Queued
<1>9. /\ IsFiniteSet(OpenEdges(target)) /\ inDegree[target] \in Nat
      /\ Cardinality(OpenEdges(target)') = inDegree[target] - 1
      /\ IsFiniteSet(OpenEdges(target)')
  <2>1. IsFiniteSet(OpenEdges(target)) /\ Cardinality(OpenEdges(target)) \in Nat
    BY <1>1, OpenFinite
  <2>2. inDegree[target] = Cardinality(OpenEdges(target))
    BY <1>1, <1>5 DEF DegreeInv
  <2>3. /\ IsFiniteSet(OpenEdges(target) \ {i})
        /\ Cardinality(OpenEdges(target) \ {i}) = Cardinality(OpenEdges(target)) - 1
    BY <1>6, <2>1, FS_RemoveElement
  <2> QED BY <1>6, <2>1, <2>2, <2>3
<1>10. OpenEdges(target)' = {} <=> inDegree[target] = 1
  <2>1. Cardinality(OpenEdges(target)') = 0 <=> OpenEdges(target)' = {}
    BY <1>9, FS_EmptySet
  <2> QED BY <1>9, <2>1
<1>11. /\ queue' \in Seq(Ids) /\ IsInjective(queue')
       /\ ToSet(queue') = ToSet(queue) \cup (IF inDegree[target] = 1 THEN {target} ELSE {})
  <2>1. CASE inDegree[target] = 1
    BY <1>1, <1>4, <1>5, <1>8, <2>1, AppendIs DEF QueueInv
  <2>2. CASE inDegree[target] # 1
    BY <1>1, <1>4, <2>2 DEF QueueInv
  <2> QED BY <2>1, <2>2
<1>12. QueueInv'
  BY <1>1, <1>2, <1>4, <1>5, <1>8, <1>11 DEF QueueInv
<1>13. DegreeInv'
  <2>1. DOMAIN inDegree' = Ids
    BY <1>1, <1>4 DEF DegreeInv
  <2>2. ASSUME NEW n \in Ids
        PROVE  /\ inDegree'[n] = Cardinality(OpenEdges(n)')
               /\ Queued(n)' <=> OpenEdges(n)' = {}
    <3>1. CASE n = target
      <4>1. inDegree'[n] = inDegree[target] - 1
        BY <1>1, <1>4, <3>1 DEF DegreeInv
      <4>2. Queued(n)' <=> inDegree[target] = 1
        BY <1>4, <1>8, <1>11, <3>1 DEF Queued
      <4> QED BY <1>9, <1>10, <3>1, <4>1, <4>2
    <3>2. CASE n # target
      <4>1. OpenEdges(n)' = OpenEdges(n) /\ inDegree'[n] = inDegree[n]
        BY <1>1, <1>4, <1>7, <3>2 DEF DegreeInv
      <4>2. Queued(n)' <=> Queued(n)
        BY <1>4, <1>11, <3>2 DEF Queued
      <4> QED BY <1>1, <4>1, <4>2 DEF DegreeInv
    <3> QED BY <3>1, <3>2
  <2> QED BY <1>2, <2>1, <2>2 DEF DegreeInv
<1> QED BY <1>2, <1>4, <1>12, <1>13 DEF DefinitionInv, SortInv

LEMMA RestStep ==
  ASSUME DefinitionInv, Visited \/ Return \/ UNCHANGED defVars
  PROVE  DefinitionInv'
<1>1. /\ UNCHANGED <<nodes, edges, nodeIds, inDegree, queue, ordered, targets>>
      /\ \/ pc = "visit" /\ pc' = "pop" /\ targets = {}
         \/ /\ pc = "pop" /\ queue = <<>>
            /\ pc' = IF Len(ordered) = Len(nodeIds) THEN "sorted" ELSE "cycle"
         \/ UNCHANGED pc
  BY DEF Visited, Return, defVars
<1>2. ListsInv' /\ CheckedInv' /\ Ids' = Ids
  BY <1>1 DEF DefinitionInv, ListsInv, CheckedInv, Ids
<1>3. OrderInv => OrderInv'
  BY <1>1 DEF OrderInv
<1>4. DegreeInv => DegreeInv'
  <2>1. ASSUME NEW n PROVE OpenEdges(n)' = OpenEdges(n) /\ (Queued(n)' <=> Queued(n))
    BY <1>1 DEF OpenEdges, Queued
  <2> QED BY <1>1, <1>2, <2>1 DEF DegreeInv
<1>5. ASSUME pc' \in {"pop", "visit", "sorted", "cycle"} PROVE QueueInv'
  <2>1. QueueInv
    BY <1>1, <1>5 DEF DefinitionInv, SortInv
  <2> QED BY <1>1, <1>2, <2>1 DEF QueueInv
<1>6. SortInv'
  BY <1>1, <1>3, <1>4, <1>5 DEF DefinitionInv, SortInv
<1> QED BY <1>1, <1>2, <1>6 DEF DefinitionInv

LEMMA DefInitInv == DefInit => DefinitionInv
<1> SUFFICES ASSUME DefInit PROVE DefinitionInv
  OBVIOUS
<1>1. PICK d \in Definitions : nodes = d.nodes /\ edges = d.edges
  BY DEF DefInit
<1>2. nodes \in Seq(ToSet(nodes)) /\ edges \in Seq(ToSet(edges))
  BY <1>1, DefinitionsAssumption
<1>3. ListsInv
  BY <1>2 DEF ListsInv
<1>4. nodeIds = <<>> /\ ordered = <<>> /\ targets = {} /\ pc = "nodes"
  BY DEF DefInit
<1>5. nodeIds \in Seq(Ids) /\ Len(nodeIds) = 0 /\ IsInjective(nodeIds)
  BY <1>4 DEF IsInjective
<1>6. CheckedInv
  BY <1>3, <1>5 DEF CheckedInv, ListsInv
<1> QED BY <1>3, <1>4, <1>6 DEF DefinitionInv, SortInv

\* Through the checks and the sort, the nodes in the queue and those popped are
\* the ones that no edge holds back.
THEOREM DefinitionInvCorrect == DefSpec => []DefinitionInv
<1>1. DefinitionInv /\ [DefNext]_defVars => DefinitionInv'
  BY CheckNodeStep, CheckEdgesStep, PopStep, VisitStep, RestStep DEF DefNext
<1> QED BY <1>1, DefInitInv, PTL DEF DefSpec

\* No set of the nodes that were popped is a cycle: its first has its sources before it.
LEMMA OrderedAcyclic ==
  ASSUME QueueInv, OrderInv, NEW S \in SUBSET ToSet(ordered), S # {},
         \A n \in S : \E i \in DOMAIN edges : edges[i][2] = n /\ edges[i][1] \in S
  PROVE  FALSE
<1> DEFINE places == {k \in DOMAIN ordered : ordered[k] \in S}
<1>1. DOMAIN ordered = 1 .. Len(ordered) /\ Len(ordered) \in Nat
  BY DEF QueueInv
<1>2. places \in SUBSET Nat /\ IsFiniteSet(places)
  <2>1. IsFiniteSet(DOMAIN ordered) /\ places \in SUBSET DOMAIN ordered
    BY <1>1, FS_Interval
  <2> QED BY <1>1, <2>1, FS_Subset
<1>3. places # {}
  BY DEF ToSet
<1>4. PICK j \in places : \A k \in places : j <= k
  <2> HIDE DEF places
  <2> QED BY <1>2, <1>3, LeastOf
<1>5. PICK i \in DOMAIN edges : edges[i][2] = ordered[j] /\ edges[i][1] \in S
  OBVIOUS
<1>6. PICK k \in DOMAIN ordered : k < j /\ ordered[k] = edges[i][1]
  BY <1>5 DEF OrderInv
<1> QED BY <1>1, <1>4, <1>5, <1>6

\* A definition is saved exactly when it can be executed: its nodes are valid and
\* distinct and there is no cycle, and then each comes once, after its sources.
THEOREM SavedCorrect == DefSpec => []SavedIsSorted
<1>1. ASSUME DefinitionInv, pc \in {"sorted", "cycle"}
      PROVE  /\ QueueInv /\ DegreeInv /\ OrderInv
             /\ ToSet(ordered) \subseteq Ids
             /\ IsFiniteSet(Ids) /\ Cardinality(Ids) = Len(nodes)
             /\ IsFiniteSet(ToSet(ordered)) /\ Cardinality(ToSet(ordered)) = Len(ordered)
             /\ \A i \in DOMAIN nodes : nodes[i].ok
  <2>1. QueueInv /\ DegreeInv /\ OrderInv
    BY <1>1 DEF DefinitionInv, SortInv
  <2>2. IsFiniteSet(Ids) /\ Cardinality(Ids) = Len(nodes)
    BY <1>1, <2>1, IdsCardinality DEF DefinitionInv, QueueInv
  <2>3. ordered \in Seq(Ids) /\ IsInjective(ordered)
    BY <2>1 DEF QueueInv
  <2>4. IsFiniteSet(ToSet(ordered)) /\ Cardinality(ToSet(ordered)) = Len(ordered)
    BY <2>3, ListCardinality
  <2>5. ToSet(ordered) \subseteq Ids
    BY <2>3 DEF ToSet
  <2>6. \A i \in DOMAIN nodes : nodes[i].ok
    BY <1>1, <2>1 DEF DefinitionInv, QueueInv, CheckedInv, ListsInv
  <2> QED BY <2>1, <2>2, <2>4, <2>5, <2>6
<1>2. ASSUME DefinitionInv, pc = "sorted"
      PROVE  /\ ~Cyclic /\ \A i \in DOMAIN nodes : nodes[i].ok
             /\ IsInjective(ordered) /\ Len(ordered) = Len(nodes) /\ ToSet(ordered) = Ids
             /\ \A i \in DOMAIN edges : Before(edges[i][1], edges[i][2])
  <2>1. Len(ordered) = Len(nodes) /\ IsInjective(ordered)
    BY <1>1, <1>2 DEF QueueInv
  <2>2. ToSet(ordered) = Ids
    BY <1>1, <1>2, <2>1, FS_Subset
  <2>3. ~Cyclic
    BY <1>1, <1>2, <2>2, OrderedAcyclic DEF Cyclic
  <2>4. ASSUME NEW i \in DOMAIN edges PROVE Before(edges[i][1], edges[i][2])
    <3>1. PICK j \in DOMAIN ordered : ordered[j] = edges[i][2]
      BY <1>1, <1>2, <2>2 DEF QueueInv, ToSet
    <3>2. PICK k \in DOMAIN ordered : k < j /\ ordered[k] = edges[i][1]
      BY <1>1, <1>2, <3>1 DEF OrderInv
    <3> QED BY <3>1, <3>2 DEF Before
  <2> QED BY <1>1, <1>2, <2>1, <2>2, <2>3, <2>4
<1>3. ASSUME DefinitionInv, pc = "cycle"
      PROVE  Cyclic /\ Cardinality(Ids) = Len(nodes)
  <2> DEFINE rest == Ids \ ToSet(ordered)
  <2>1. queue = <<>> /\ targets = {} /\ Len(ordered) # Len(nodes)
    BY <1>1, <1>3 DEF QueueInv
  <2>2. rest # {}
    <3>1. CASE rest = {}
      <4>1. ToSet(ordered) = Ids
        BY <1>1, <1>3, <3>1
      <4> QED BY <1>1, <1>3, <2>1, <4>1
    <3> QED BY <3>1
  <2>3. ASSUME NEW n \in rest
        PROVE  \E i \in DOMAIN edges : edges[i][2] = n /\ edges[i][1] \in rest
    <3>1. ~Queued(n)
      BY <2>1 DEF Queued, ToSet
    <3>2. PICK i \in OpenEdges(n) : TRUE
      BY <1>1, <1>3, <3>1 DEF DegreeInv
    <3> QED BY <1>1, <1>3, <2>1, <3>2 DEF OpenEdges, QueueInv
  <2>4. rest \in (SUBSET Ids) \ {{}}
    BY <2>2
  <2> HIDE DEF rest
  <2>5. Cyclic
    BY <2>3, <2>4 DEF Cyclic
  <2> QED BY <1>1, <1>3, <2>5
<1>4. DefinitionInv => SavedIsSorted
  BY <1>2, <1>3 DEF SavedIsSorted
<1> QED BY <1>4, DefinitionInvCorrect, PTL

-----------------------------------------------------------------------------
(* ToolPipeline: the invariant.                                            *)

VectorTools == {"buffer", "clip_vector", "dissolve", "centroid", "simplify", "convex_hull"}
RasterTools == {"hillshade", "slope", "clip_raster", "raster_calculator"}
Tools == VectorTools \cup RasterTools \cup {"contour"}

Stages == {"idle", "queued", "loaded", "parsed", "refused", "failed", "completed"}

ToolOps ==
  {"buffer_op", "clip_vector_op", "dissolve_op", "centroid_op", "simplify_op",
   "convex_hull_op", "hillshade_op", "slope_op", "clip_raster_op", "raster_calc_op",
   "contour_op"}

Ops == ToolOps \cup {"download", "extract_raster_metadata", "upload", "create_output_dataset"}

Left == [source : BOOLEAN, raster : Nat, metadata : Nat, object : BOOLEAN,
         pending : BOOLEAN, staging : {"none", "some"}]

\* What was accepted.
RequestInv ==
  stage \in {"queued", "loaded", "parsed", "failed", "completed"} =>
    /\ request.by \in Clients /\ request.tool \in Tools
    /\ request.input \in Dataset /\ Genuine(request.input)
    /\ request.by # "workflow" =>
         /\ request.input.type = InputType(request.tool)
         /\ AcceptsDem(request.tool, request.input)

\* What the operations of each kind of tool have left after the first n of them.
VectorLeft(n) ==
  /\ ~have.object /\ have.raster = 0 /\ have.metadata = 0
  /\ n >= 1 =>
       /\ have.pending
       /\ have.staging = "none" =>
            \/ request.input.features = "none"
            \/ request.tool \in {"clip_vector", "simplify"}

ContourLeft(n) ==
  /\ ~have.object /\ have.raster = 0 /\ have.metadata = 0
  /\ n >= 1 => have.source
  /\ n >= 2 => have.pending

RasterLeft(n) ==
  /\ ~have.pending
  /\ n >= 1 => have.source /\ request.input.object
  /\ n >= 2 /\ request.by # "workflow" => have.raster # 0
  /\ n >= 3 => have.raster # 0 /\ have.metadata = have.raster
  /\ n >= 4 => have.object

LeftInv ==
  /\ request.tool \in VectorTools => VectorLeft(Len(done))
  /\ request.tool \in RasterTools => RasterLeft(Len(done))
  /\ request.tool = "contour" => ContourLeft(Len(done))

RunInv ==
  /\ stage \in {"idle", "refused"} => payload = <<>>
  /\ stage \in {"idle", "refused", "queued", "loaded"} => done = <<>> /\ have = Nothing
  /\ stage \in {"loaded", "parsed", "completed"} => Definition.importable
  /\ stage \in {"parsed", "completed"} => payload = Built(Definition) /\ LeftInv
  /\ stage = "parsed" => Len(done) < Len(Operations[Definition.workflow])
  /\ stage = "completed" => Len(done) = Len(Operations[Definition.workflow])

ToolInv ==
  /\ stage \in Stages /\ have \in Left /\ done \in Seq(Ops)
  /\ library \subseteq Dataset /\ \A d \in library : Genuine(d)
  /\ RequestInv /\ RunInv /\ AcceptedJobRuns

-----------------------------------------------------------------------------
(* The registry.                                                           *)

OpKey(t) == FirstOpKey(TOOL_REGISTRY[t].workflow)

\* The names in the registry.
LEMMA ToolNames == DOMAIN TOOL_REGISTRY = Tools
BY DEF TOOL_REGISTRY, Tools, VectorTools, RasterTools

\* What the registry says of each kind of tool.
LEMMA VectorToolIs ==
  ASSUME NEW t \in VectorTools
  PROVE  /\ TOOL_REGISTRY[t].category = "vector" /\ TOOL_REGISTRY[t].output = "vector"
         /\ Operations[TOOL_REGISTRY[t].workflow] = <<OpKey(t), "create_output_dataset">>
BY DEF TOOL_REGISTRY, VectorTool, ToolDefinition, VectorTools, Operations, OpKey, FirstOpKey

LEMMA RasterToolIs ==
  ASSUME NEW t \in RasterTools
  PROVE  /\ TOOL_REGISTRY[t].category = "raster" /\ TOOL_REGISTRY[t].output = "raster"
         /\ Operations[TOOL_REGISTRY[t].workflow] = RasterWorkflow(OpKey(t))
BY DEF TOOL_REGISTRY, ToolDefinition, RasterTools, Operations, OpKey, FirstOpKey

LEMMA ContourIs ==
  /\ TOOL_REGISTRY["contour"].category = "raster"
  /\ TOOL_REGISTRY["contour"].output = "vector"
  /\ OpKey("contour") = "contour_op"
  /\ Operations[TOOL_REGISTRY["contour"].workflow]
       = <<"download", "contour_op", "create_output_dataset">>
BY DEF TOOL_REGISTRY, ToolDefinition, Operations, OpKey, FirstOpKey

\* Only the class of hillshade cannot be loaded.
LEMMA Importable == \A t \in Tools : TOOL_REGISTRY[t].importable <=> t # "hillshade"
BY DEF TOOL_REGISTRY, VectorTool, ToolDefinition, Tools, VectorTools, RasterTools

ParamsOf(t) == TOOL_REGISTRY[t].params

\* The payload of an operation has the parameters of its tool, and no others.
LEMMA PayloadModelIs ==
  ASSUME NEW t \in Tools
  PROVE  PayloadModel[OpKey(t)] =
           IF TOOL_REGISTRY[t].category = "vector"
           THEN VectorPayload(ParamsOf(t).required, ParamsOf(t).optional)
           ELSE RasterPayload(ParamsOf(t).required, ParamsOf(t).optional)
<1> USE DEF OpKey, FirstOpKey, TOOL_REGISTRY, VectorTool, ToolDefinition, ParamsOf,
            PayloadModel, VectorPayload, RasterPayload, Model
<1>1. CASE t = "buffer"
  BY <1>1 DEF BufferParams, BufferOpPayload
<1>2. CASE t = "clip_vector"
  BY <1>2 DEF ClipVectorParams, ClipVectorOpPayload
<1>3. CASE t = "dissolve"
  BY <1>3 DEF DissolveParams, DissolveOpPayload
<1>4. CASE t = "centroid"
  BY <1>4 DEF CentroidParams, CentroidOpPayload
<1>5. CASE t = "simplify"
  BY <1>5 DEF SimplifyParams, SimplifyOpPayload
<1>6. CASE t = "convex_hull"
  BY <1>6 DEF ConvexHullParams, ConvexHullOpPayload
<1>7. CASE t = "hillshade"
  BY <1>7 DEF HillshadeParams, HillshadeOpPayload
<1>8. CASE t = "slope"
  BY <1>8 DEF SlopeParams, SlopeOpPayload
<1>9. CASE t = "clip_raster"
  BY <1>9 DEF ClipRasterParams, ClipRasterOpPayload
<1>10. CASE t = "raster_calculator"
  BY <1>10 DEF RasterCalcParams, RasterCalcOpPayload
<1>11. CASE t = "contour"
  BY <1>11 DEF ContourParams, ContourOpPayload
<1> HIDE DEF OpKey, FirstOpKey, TOOL_REGISTRY, PayloadModel
<1> QED
  BY <1>1, <1>2, <1>3, <1>4, <1>5, <1>6, <1>7, <1>8, <1>9, <1>10, <1>11
  DEF Tools, VectorTools, RasterTools

LEMMA OpKeyNames == \A t \in Tools : OpKey(t) \in ToolOps
BY DEF ToolOps, Tools, VectorTools, RasterTools, OpKey, FirstOpKey, TOOL_REGISTRY, VectorTool, ToolDefinition

LEMMA OpKeyIs ==
  \A t \in Tools :
    OpKey(t) \notin {"create_output_dataset", "download", "extract_raster_metadata", "upload"}
BY OpKeyNames DEF ToolOps

\* The pipeline of each kind of tool.
Pipeline(t) == Operations[TOOL_REGISTRY[t].workflow]

LEMMA PipelineIs ==
  ASSUME NEW t \in Tools
  PROVE  /\ t \in VectorTools =>
              /\ t \notin RasterTools /\ t # "contour"
              /\ Pipeline(t) = <<OpKey(t), "create_output_dataset">>
         /\ t = "contour" =>
              /\ t \notin VectorTools /\ t \notin RasterTools
              /\ Pipeline(t) = <<"download", "contour_op", "create_output_dataset">>
         /\ t \in RasterTools =>
              /\ t \notin VectorTools /\ t # "contour"
              /\ Pipeline(t) = <<"download", OpKey(t), "extract_raster_metadata", "upload",
                                 "create_output_dataset">>
<1>1. CASE t \in VectorTools
  BY <1>1, VectorToolIs DEF VectorTools, RasterTools, Pipeline
<1>2. CASE t = "contour"
  BY <1>2, ContourIs DEF VectorTools, RasterTools, Pipeline
<1>3. CASE t \in RasterTools
  BY <1>3, RasterToolIs DEF RasterWorkflow, VectorTools, RasterTools, Pipeline
<1> QED BY <1>1, <1>2, <1>3 DEF Tools

LEMMA LastOperation ==
  ASSUME NEW t \in Tools
  PROVE  /\ Len(Pipeline(t)) > 0
         /\ t \in VectorTools => Len(Pipeline(t)) = 2
         /\ t = "contour" => Len(Pipeline(t)) = 3
         /\ t \in RasterTools => Len(Pipeline(t)) = 5
<1>1. CASE t \in VectorTools
  <2>1. Len(Pipeline(t)) = 2 /\ t \notin RasterTools /\ t # "contour"
    BY <1>1, PipelineIs
  <2> QED BY <2>1
<1>2. CASE t = "contour"
  <2>1. Len(Pipeline(t)) = 3 /\ t \notin VectorTools /\ t \notin RasterTools
    BY <1>2, PipelineIs
  <2> QED BY <2>1
<1>3. CASE t \in RasterTools
  <2>1. Len(Pipeline(t)) = 5 /\ t \notin VectorTools /\ t # "contour"
    BY <1>3, PipelineIs
  <2> QED BY <2>1
<1> QED BY <1>1, <1>2, <1>3 DEF Tools

\* Every payload that is built has an operation that parses it.
LEMMA BuiltParses ==
  ASSUME NEW t \in Tools
  PROVE  /\ DOMAIN Built(TOOL_REGISTRY[t]) = ToSet(Pipeline(t))
         /\ Parses(Built(TOOL_REGISTRY[t]), Pipeline(t))
<1> DEFINE tool == TOOL_REGISTRY[t]
           steps == Pipeline(t)
<1>1. DOMAIN Built(tool) = Keys(tool) /\ \A o \in Keys(tool) : Built(tool)[o] = Sent(tool, o)
  BY DEF Built
<1>2. Keys(tool) = ToSet(steps) /\ steps[1] \in Keys(tool)
  <2> DEFINE k == OpKey(t)
  <2>0. Keys(tool) = {k, "create_output_dataset"}
          \cup {o \in {"download", "extract_raster_metadata", "upload"} :
                 tool.category = "raster" /\ (o = "download" \/ tool.output = "raster")}
    BY DEF Keys, OpKey
  <2> HIDE DEF k
  <2>1. CASE t \in VectorTools
    <3>1. steps = <<k, "create_output_dataset">> /\ tool.category = "vector"
      BY <2>1, VectorToolIs, PipelineIs DEF k
    <3>2. ToSet(<<k, "create_output_dataset">>) = {k, "create_output_dataset"}
      BY DEF ToSet
    <3> QED BY <2>0, <3>1, <3>2
  <2>2. CASE t \in RasterTools
    <3>1. /\ steps = <<"download", k, "extract_raster_metadata", "upload", "create_output_dataset">>
          /\ tool.category = "raster" /\ tool.output = "raster"
      BY <2>2, RasterToolIs, PipelineIs DEF k
    <3>2. ToSet(<<"download", k, "extract_raster_metadata", "upload", "create_output_dataset">>)
            = {"download", k, "extract_raster_metadata", "upload", "create_output_dataset"}
      BY DEF ToSet
    <3> QED BY <2>0, <3>1, <3>2
  <2>3. CASE t = "contour"
    <3>1. /\ steps = <<"download", k, "create_output_dataset">>
          /\ tool.category = "raster" /\ tool.output = "vector"
      BY <2>3, ContourIs, PipelineIs DEF k
    <3>2. ToSet(<<"download", k, "create_output_dataset">>)
            = {"download", k, "create_output_dataset"}
      BY DEF ToSet
    <3> QED BY <2>0, <3>1, <3>2
  <2> QED BY <2>1, <2>2, <2>3 DEF Tools
<1>3. ASSUME NEW o \in Keys(tool)
      PROVE  PayloadModel[o].required \subseteq Sent(tool, o) /\ Sent(tool, o) \subseteq Fields(PayloadModel[o])
  <2>1. CASE o = "create_output_dataset"
    <3>1. PayloadModel[o] = CreateOutputDatasetPayload
      BY <2>1 DEF PayloadModel
    <3>2. /\ CreateOutputDatasetPayload.required = {"job_id", "output_name", "output_type"}
          /\ CreateOutputDatasetPayload.optional =
               {"output_parent_id", "output_format", "storage_path", "file_size", "metadata"}
      BY DEF CreateOutputDatasetPayload, Model
    <3>3. Sent(tool, o) = OutputFields(tool)
      BY <2>1, OpKeyIs DEF Sent, OpKey
    <3> QED BY <3>1, <3>2, <3>3 DEF Fields, OutputFields
  <2>2. CASE o = "download"
    <3>1. PayloadModel[o] = DownloadPayload
      BY <2>2 DEF PayloadModel
    <3>2. /\ DownloadPayload.required = {"download_url"}
          /\ DownloadPayload.optional =
               {"download_to_path"}
      BY DEF DownloadPayload, Model
    <3>3. Sent(tool, o) = {"download_url", "download_to_path"}
      BY <2>2, OpKeyIs DEF Sent, OpKey
    <3> QED BY <3>1, <3>2, <3>3 DEF Fields
  <2>3. CASE o = "extract_raster_metadata"
    <3>1. PayloadModel[o] = ExtractRasterMetadataPayload
      BY <2>3 DEF PayloadModel
    <3>2. /\ ExtractRasterMetadataPayload.required = {"path"}
          /\ ExtractRasterMetadataPayload.optional =
               {}
      BY DEF ExtractRasterMetadataPayload, Model
    <3>3. Sent(tool, o) = {"path"}
      BY <2>3, OpKeyIs DEF Sent, OpKey
    <3> QED BY <3>1, <3>2, <3>3 DEF Fields
  <2>4. CASE o = "upload"
    <3>1. PayloadModel[o] = UploadPayload
      BY <2>4 DEF PayloadModel
    <3>2. /\ UploadPayload.required = {"upload_url"}
          /\ UploadPayload.optional =
               {"upload_from_path", "metadata"}
      BY DEF UploadPayload, Model
    <3>3. Sent(tool, o) = {"upload_url", "upload_from_path"}
      BY <2>4, OpKeyIs DEF Sent, OpKey
    <3> QED BY <3>1, <3>2, <3>3 DEF Fields
  <2>5. CASE o = OpKey(t)
    <3>1. Sent(tool, o) = {"job_id"} \cup Fields(tool.params)
             \cup IF tool.category = "vector" THEN {"input_dataset_id"} ELSE {"input_path", "work_dir"}
      BY <2>5, OpKeyIs DEF Sent, OpKey
    <3> DEFINE m == tool.params
    <3>2. CASE tool.category = "vector"
      <4>1. PayloadModel[o] = Model(m.required \cup {"job_id", "input_dataset_id"}, m.optional)
        BY <2>5, <3>2, PayloadModelIs DEF VectorPayload, ParamsOf
      <4>2. /\ PayloadModel[o].required = m.required \cup {"job_id", "input_dataset_id"}
            /\ PayloadModel[o].optional = m.optional
        BY <4>1 DEF Model
      <4> QED BY <3>1, <3>2, <4>2 DEF Fields
    <3>3. CASE tool.category # "vector"
      <4>1. PayloadModel[o] = Model(m.required \cup {"job_id", "input_path", "work_dir"}, m.optional)
        BY <2>5, <3>3, PayloadModelIs DEF RasterPayload, ParamsOf
      <4>2. /\ PayloadModel[o].required = m.required \cup {"job_id", "input_path", "work_dir"}
            /\ PayloadModel[o].optional = m.optional
        BY <4>1 DEF Model
      <4> QED BY <3>1, <3>3, <4>2 DEF Fields
    <3> QED BY <3>2, <3>3
  <2> QED BY <2>1, <2>2, <2>3, <2>4, <2>5 DEF Keys, OpKey
<1> QED BY <1>1, <1>2, <1>3 DEF Parses

-----------------------------------------------------------------------------
(* The operations.                                                         *)

LEMMA StagedIs ==
  ASSUME NEW h \in Left, NEW f \in {"none", "some"}
  PROVE  /\ Staged(h, f) \in Left /\ Staged(h, f).source = h.source
         /\ Staged(h, f).raster = h.raster /\ Staged(h, f).metadata = h.metadata
         /\ Staged(h, f).object = h.object /\ Staged(h, f).pending = TRUE
         /\ Staged(h, f).staging = f
BY DEF Staged, Left

LEMMA VectorRun ==
  ASSUME NEW t \in VectorTools, NEW h \in Left, NEW d \in Dataset, NEW g
  PROVE  /\ Execute(OpKey(t), h, d, g) # {}
         /\ \A r \in Execute(OpKey(t), h, d, g) :
              \E f \in {"none", "some"} :
                r = Staged(h, f) /\ (f = d.features \/ t \in {"clip_vector", "simplify"})
<1> USE DEF OpKey, FirstOpKey, TOOL_REGISTRY, VectorTool, ToolDefinition, Execute
<1>0. d.features \in {"none", "some"}
  BY DEF Dataset
<1>1. CASE t = "buffer"
  BY <1>0, <1>1 DEF BufferOp
<1>2. CASE t = "clip_vector"
  BY <1>0, <1>2 DEF ClipVectorOp
<1>3. CASE t = "dissolve"
  BY <1>0, <1>3 DEF DissolveOp
<1>4. CASE t = "centroid"
  BY <1>0, <1>4 DEF CentroidOp
<1>5. CASE t = "simplify"
  BY <1>0, <1>5 DEF SimplifyOp
<1>6. CASE t = "convex_hull"
  BY <1>0, <1>6 DEF ConvexHullOp
<1> HIDE DEF OpKey, FirstOpKey, TOOL_REGISTRY, Execute
<1> QED BY <1>1, <1>2, <1>3, <1>4, <1>5, <1>6 DEF VectorTools

LEMMA RasterRun ==
  ASSUME NEW t \in RasterTools, NEW h \in Left, h.source, NEW d \in Dataset, NEW g
  PROVE  /\ Execute(OpKey(t), h, d, g) = {} =>
              OpKey(t) = "clip_raster_op" /\ g \cap {"clip_geometry", "clip_dataset_id"} = {}
         /\ \A r \in Execute(OpKey(t), h, d, g) :
              /\ r \in Left /\ r.source /\ r.pending = h.pending
              /\ d.bands # 0 => r.raster # 0
<1> USE DEF OpKey, FirstOpKey, TOOL_REGISTRY, ToolDefinition, Execute
<1> DEFINE With(n) == [h EXCEPT !.raster = n]
<1>0. \A n \in Nat :
        /\ With(n) \in Left /\ With(n).source = h.source
        /\ With(n).pending = h.pending /\ With(n).raster = n
  BY DEF Left
<1>5. /\ With(1) \in Left /\ With(1).source /\ With(1).pending = h.pending /\ With(1).raster # 0
      /\ With(4) \in Left /\ With(4).source /\ With(4).pending = h.pending /\ With(4).raster # 0
  <2> HIDE DEF With, OpKey, Execute, FirstOpKey, TOOL_REGISTRY
  <2>1. 1 \in Nat /\ 4 \in Nat /\ 1 # 0 /\ 4 # 0
    OBVIOUS
  <2> QED BY <1>0, <2>1, ZenonT(60)
<1>1. CASE t = "hillshade"
  <2>1. Execute(OpKey(t), h, d, g) = {With(4)}
    BY <1>1 DEF HillshadeOp
  <2> HIDE DEF With, OpKey, Execute, FirstOpKey, TOOL_REGISTRY
  <2> QED BY <2>1, <1>5
<1>2. CASE t = "slope"
  <2>1. Execute(OpKey(t), h, d, g) = {With(4)}
    BY <1>2 DEF SlopeOp
  <2> HIDE DEF With, OpKey, Execute, FirstOpKey, TOOL_REGISTRY
  <2> QED BY <2>1, <1>5
<1>3. CASE t = "clip_raster"
  <2>1. /\ OpKey(t) = "clip_raster_op"
        /\ Execute(OpKey(t), h, d, g) =
             IF g \cap {"clip_geometry", "clip_dataset_id"} # {}
             THEN {With(d.bands)} ELSE {}
    BY <1>3 DEF ClipRasterOp
  <2>2. d.bands \in Nat
    BY DEF Dataset
  <2> HIDE DEF With, OpKey, Execute, FirstOpKey, TOOL_REGISTRY
  <2> QED BY <1>0, <2>1, <2>2
<1>4. CASE t = "raster_calculator"
  <2>1. Execute(OpKey(t), h, d, g) = {With(1)}
    BY <1>4 DEF RasterCalcOp
  <2> HIDE DEF With, OpKey, Execute, FirstOpKey, TOOL_REGISTRY
  <2> QED BY <2>1, <1>5
<1> HIDE DEF OpKey, FirstOpKey, TOOL_REGISTRY, Execute
<1> QED BY <1>1, <1>2, <1>3, <1>4 DEF RasterTools

-----------------------------------------------------------------------------
(* The steps.                                                              *)

LEMMA ToolInitInv == ToolInit => ToolInv
<1> SUFFICES ASSUME ToolInit PROVE ToolInv
  OBVIOUS
<1> USE DEF ToolInit
<1>1. stage = "idle" /\ done = <<>> /\ library = Uploaded /\ payload = <<>> /\ have = Nothing
  OBVIOUS
<1>2. Nothing \in Left /\ <<>> \in Seq(Ops)
  BY DEF Nothing, Left
<1>3. RequestInv /\ RunInv /\ AcceptedJobRuns
  BY <1>1 DEF RequestInv, RunInv, AcceptedJobRuns
<1> QED BY <1>1, <1>2, <1>3, UploadedAssumption DEF ToolInv, Stages

\* A job may fail for its data, its import or what the data lacks.
LEMMA FailStep ==
  ASSUME ToolInv, stage \in {"queued", "loaded", "parsed"}, NEW reason, FailJob(reason),
         reason # "payload",
         request.by # "workflow" =>
            \/ reason = "data"
            \/ reason = "import" /\ request.tool = "hillshade"
            \/ reason = "clip_raster_op"
               /\ request.given \cap {"clip_dataset_id", "clip_geometry"} = {}
            \/ reason = "download" /\ ~request.input.object
  PROVE  ToolInv'
<1> USE DEF FailJob
<1>1. RequestInv'
  BY DEF ToolInv, RequestInv
<1>2. RunInv'
  BY DEF RunInv
<1>3. AcceptedJobRuns'
  BY DEF AcceptedJobRuns
<1> QED BY <1>1, <1>2, <1>3 DEF ToolInv, Stages

\* The form asks for what the parameters model accepts.
LEMMA FormValid ==
  ASSUME NEW t \in Tools
  PROVE  /\ \A given \in Given("toolbox", t) : ParamsValid(t, given, {})
         /\ ParamsValid(t, ParamsOf(t).required, {})
<1> DEFINE m == ParamsOf(t)
<1>1. FormSchema(t).required = m.required /\ Fields(FormSchema(t)) \subseteq Fields(m)
  <2>1. CASE t = "clip_raster"
    BY <2>1 DEF FormSchema, ParamsOf, TOOL_REGISTRY, ToolDefinition, ClipRasterParams, Model, Fields
  <2>2. CASE t = "raster_calculator"
    BY <2>2 DEF FormSchema, ParamsOf, TOOL_REGISTRY, ToolDefinition, RasterCalcParams, Model, Fields
  <2>3. CASE t \notin {"clip_raster", "raster_calculator"}
    BY <2>3 DEF FormSchema, ParamsOf
  <2> QED BY <2>1, <2>2, <2>3
<1>2. ParamsValid(t, m.required, {})
  BY DEF ParamsValid, ParamsOf, Fields
<1>3. ASSUME NEW given \in Given("toolbox", t) PROVE ParamsValid(t, given, {})
  BY <1>1, <1>3 DEF Given, ParamsValid, ParamsOf
<1> QED BY <1>2, <1>3

LEMMA SubmitStep ==
  ASSUME ToolInv, NEW by \in Clients, NEW t, NEW inputs, NEW given, NEW bad,
         \A i \in DOMAIN inputs : inputs[i] \in library,
         by = "toolbox" /\ t \in Tools => ParamsValid(t, given, bad),
         Submit(by, t, inputs, given, bad)
  PROVE  ToolInv'
<1> USE ToolNames
<1>1. /\ stage = "idle" /\ done' = <<>> /\ have' = Nothing /\ payload' = <<>>
      /\ library' = library /\ have' \in Left /\ done' \in Seq(Ops)
  BY DEF Submit, ToolInv, RunInv
<1>2. CASE why' = "accepted"
  <2>1. stage' = "queued" /\ t \in Tools /\ inputs # <<>>
    BY <1>2 DEF Submit, NodeVerdict, FormVerdict
  <2>2. PICK i \in DOMAIN inputs :
          request' = [by |-> by, tool |-> t, input |-> inputs[i], given |-> given \ {"other"}]
    BY <1>2, <2>1 DEF Submit
  <2>3. inputs[i] \in Dataset /\ Genuine(inputs[i])
    BY DEF ToolInv
  <2>4. by # "workflow" => inputs[i].type = InputType(t) /\ AcceptsDem(t, inputs[i])
    BY <1>2 DEF Submit, FormVerdict
  <2>5. RequestInv'
    BY <2>1, <2>2, <2>3, <2>4 DEF RequestInv
  <2>6. RunInv' /\ AcceptedJobRuns'
    BY <1>1, <2>1 DEF RunInv, AcceptedJobRuns
  <2> QED BY <1>1, <2>1, <2>5, <2>6 DEF ToolInv, Stages
<1>3. CASE why' # "accepted"
  <2>1. stage' = "refused" /\ request' = [by |-> by]
    BY <1>3 DEF Submit
  <2>2. by = "toolbox" => why' # "parameters"
    BY DEF Submit, FormVerdict
  <2>3. RequestInv' /\ RunInv' /\ AcceptedJobRuns'
    BY <1>1, <2>1, <2>2 DEF RequestInv, RunInv, AcceptedJobRuns
  <2> QED BY <1>1, <2>1, <2>3 DEF ToolInv, Stages
<1> QED BY <1>2, <1>3

LEMMA SubmitAnyStep ==
  ASSUME ToolInv, SubmitAny
  PROVE  ToolInv'
<1>1. PICK by \in Clients, t \in DOMAIN TOOL_REGISTRY :
         \/ \E d \in library : \E given \in Given(by, t) : \E bad \in Bad(by, given) :
              Submit(by, t, <<d>>, given, bad)
         \/ \E inputs \in InputLists : Submit(by, t, inputs, TOOL_REGISTRY[t].params.required, {})
         \/ Submit(by, "unknown", <<>>, {}, {})
  BY DEF SubmitAny
<1>2. t \in Tools
  BY ToolNames
<1>3. CASE \E d \in library : \E given \in Given(by, t) : \E bad \in Bad(by, given) :
             Submit(by, t, <<d>>, given, bad)
  <2>a. PICK d \in library :
           \E given \in Given(by, t) : \E bad \in Bad(by, given) : Submit(by, t, <<d>>, given, bad)
    BY <1>3
  <2>b. PICK given \in Given(by, t) : \E bad \in Bad(by, given) : Submit(by, t, <<d>>, given, bad)
    BY <2>a
  <2>1. PICK bad \in Bad(by, given) : Submit(by, t, <<d>>, given, bad)
    BY <2>b
  <2>2. by = "toolbox" => ParamsValid(t, given, bad)
    BY <1>2, FormValid DEF Bad
  <2>3. \A i \in DOMAIN <<d>> : <<d>>[i] \in library
    OBVIOUS
  <2> QED BY <2>1, <2>2, <2>3, SubmitStep
<1>4. CASE \E inputs \in InputLists : Submit(by, t, inputs, TOOL_REGISTRY[t].params.required, {})
  <2>1. PICK inputs \in InputLists : Submit(by, t, inputs, ParamsOf(t).required, {})
    BY <1>4 DEF ParamsOf
  <2>2. \A i \in DOMAIN inputs : inputs[i] \in library
    BY DEF InputLists
  <2>3. ParamsValid(t, ParamsOf(t).required, {})
    BY <1>2, FormValid
  <2> QED BY <2>1, <2>2, <2>3, SubmitStep
<1>5. CASE Submit(by, "unknown", <<>>, {}, {})
  <2>1. "unknown" \notin Tools /\ \A i \in DOMAIN <<>> : <<>>[i] \in library
    BY DEF Tools, VectorTools, RasterTools
  <2> QED BY <1>5, <2>1, SubmitStep
<1> QED BY <1>1, <1>3, <1>4, <1>5

LEMMA LoadStep ==
  ASSUME ToolInv, Load
  PROVE  ToolInv'
<1>0. stage = "queued" /\ request.tool \in Tools
  BY DEF Load, ToolInv, RequestInv
<1>1. CASE ~Definition.importable /\ FailJob("import")
  <2>1. request.tool = "hillshade"
    BY <1>0, <1>1, Importable DEF Definition
  <2> QED BY <1>0, <1>1, <2>1, FailStep
<1>2. CASE Definition.importable /\ stage' = "loaded"
           /\ UNCHANGED <<library, request, why, payload, done, have, jobs>>
  <2>1. RequestInv'
    BY <1>0, <1>2 DEF ToolInv, RequestInv
  <2>2. RunInv'
    BY <1>0, <1>2 DEF ToolInv, RunInv, Definition
  <2> QED BY <1>2, <2>1, <2>2 DEF ToolInv, Stages, AcceptedJobRuns
<1> QED BY <1>1, <1>2 DEF Load

LEMMA ComposeStep ==
  ASSUME ToolInv, Compose
  PROVE  ToolInv'
<1>1. /\ stage = "loaded" /\ request.tool \in Tools
      /\ done = <<>> /\ have = Nothing /\ Definition.importable
  BY DEF Compose, ToolInv, RequestInv, RunInv
<1>2. Parses(Built(Definition), Operations[Definition.workflow])
  BY <1>1, BuiltParses DEF Definition, Pipeline
<1>3. /\ payload' = Built(Definition) /\ stage' = "parsed"
      /\ UNCHANGED <<library, request, why, done, have, jobs>>
  BY <1>2 DEF Compose
<1>4. RequestInv'
  BY <1>1, <1>3 DEF ToolInv, RequestInv
<1>5. Len(done) = 0 /\ Len(Operations[Definition.workflow]) > 0
  <2>1. Operations[Definition.workflow] = Pipeline(request.tool)
    BY DEF Definition, Pipeline
  <2>2. Len(Pipeline(request.tool)) > 0
    BY <1>1, LastOperation
  <2>3. Len(done) = 0
    BY <1>1
  <2> QED BY <2>1, <2>2, <2>3
<1>6. LeftInv'
  BY <1>1, <1>3, <1>5 DEF LeftInv, VectorLeft, RasterLeft, ContourLeft, Nothing
<1>7. RunInv'
  BY <1>1, <1>3, <1>5, <1>6 DEF RunInv, Definition
<1> QED BY <1>3, <1>4, <1>7 DEF ToolInv, Stages, AcceptedJobRuns

LEMMA CloseStep ==
  ASSUME ToolInv, Close
  PROVE  ToolInv'
<1> USE DEF Close
<1>1. Nothing \in Left /\ <<>> \in Seq(Ops)
  BY DEF Nothing, Left
<1>2. RequestInv' /\ RunInv' /\ AcceptedJobRuns'
  BY DEF RequestInv, RunInv, AcceptedJobRuns
<1> QED BY <1>1, <1>2 DEF ToolInv, Stages

LEMMA DataFailsStep ==
  ASSUME ToolInv, DataFails
  PROVE  ToolInv'
BY FailStep DEF DataFails

\* The operation after the first n, and how many there are.
LEMMA NextOperation ==
  ASSUME NEW t \in Tools, NEW n \in Nat, n < Len(Pipeline(t)),
         NEW o, o = Pipeline(t)[n + 1], o # "create_output_dataset"
  PROVE  /\ o \in Ops /\ o \in ToSet(Pipeline(t)) /\ n + 1 < Len(Pipeline(t))
         /\ t \in VectorTools => n = 0 /\ o = OpKey(t)
         /\ t = "contour" => (n = 0 /\ o = "download") \/ (n = 1 /\ o = "contour_op")
         /\ t \in RasterTools =>
              \/ n = 0 /\ o = "download"
              \/ n = 1 /\ o = OpKey(t)
              \/ n = 2 /\ o = "extract_raster_metadata"
              \/ n = 3 /\ o = "upload"
<1>0. /\ OpKey(t) \in Ops /\ "contour_op" \in Ops /\ "download" \in Ops
      /\ "extract_raster_metadata" \in Ops /\ "upload" \in Ops
  BY OpKeyNames DEF Ops, ToolOps
<1>1. CASE t \in VectorTools
  <2>1. /\ Pipeline(t) = <<OpKey(t), "create_output_dataset">>
        /\ t \notin RasterTools /\ t # "contour"
    BY <1>1, PipelineIs
  <2>2. n = 0
    BY <2>1
  <2>3. o = OpKey(t) /\ 1 < Len(Pipeline(t)) /\ o \in ToSet(Pipeline(t))
    BY <2>1, <2>2 DEF ToSet
  <2> QED BY <1>0, <2>1, <2>2, <2>3
<1>2. CASE t = "contour"
  <2>1. /\ Pipeline(t) = <<"download", "contour_op", "create_output_dataset">>
        /\ t \notin VectorTools /\ t \notin RasterTools
    BY <1>2, PipelineIs
  <2>2. n \in {0, 1}
    BY <2>1
  <2>3. n = 0 => o = "download"
    BY <2>1
  <2>4. n = 1 => o = "contour_op"
    BY <2>1
  <2>5. Len(Pipeline(t)) = 3 /\ DOMAIN Pipeline(t) = 1 .. 3
    BY <2>1
  <2>6. n + 1 \in DOMAIN Pipeline(t) /\ n + 1 < Len(Pipeline(t))
    BY <2>2, <2>5
  <2>7. o \in ToSet(Pipeline(t))
    BY <2>6 DEF ToSet
  <2>8. o \in Ops
    BY <1>0, <2>2, <2>3, <2>4
  <2>9. (n = 0 /\ o = "download") \/ (n = 1 /\ o = "contour_op")
    BY <2>2, <2>3, <2>4
  <2> QED BY <2>1, <2>6, <2>7, <2>8, <2>9
<1>3. CASE t \in RasterTools
  <2>1. /\ Pipeline(t) = <<"download", OpKey(t), "extract_raster_metadata", "upload",
                           "create_output_dataset">>
        /\ t \notin VectorTools /\ t # "contour"
    BY <1>3, PipelineIs
  <2>2. n \in {0, 1, 2, 3}
    BY <2>1
  <2>3. /\ n = 0 => o = "download"
        /\ n = 1 => o = OpKey(t)
        /\ n = 2 => o = "extract_raster_metadata"
        /\ n = 3 => o = "upload"
    BY <2>1
  <2>5. Len(Pipeline(t)) = 5 /\ DOMAIN Pipeline(t) = 1 .. 5
    BY <2>1
  <2>6. n + 1 \in DOMAIN Pipeline(t) /\ n + 1 < Len(Pipeline(t))
    BY <2>2, <2>5
  <2>7. o \in ToSet(Pipeline(t))
    BY <2>6 DEF ToSet
  <2> QED BY <1>0, <2>1, <2>2, <2>3, <2>6, <2>7
<1> QED BY <1>1, <1>2, <1>3 DEF Tools

LEMMA Predecessor ==
  \A n \in Nat : (n + 1 = 2 => n = 1) /\ (n + 1 = 3 => n = 2) /\ (n + 1 = 5 => n = 4)
OBVIOUS

\* What an operation that ran leaves, and why one does not run.
LEMMA RunOperationStep ==
  ASSUME ToolInv, RunOperation
  PROVE  ToolInv'
<1> DEFINE t == request.tool
           o == Pipeline(t)[Len(done) + 1]
           results == Execute(o, have, request.input, request.given)
<1>1. /\ stage = "parsed" /\ t \in Tools /\ request.input \in Dataset /\ Genuine(request.input)
      /\ have \in Left /\ done \in Seq(Ops) /\ Len(done) \in Nat /\ Len(done) < Len(Pipeline(t))
      /\ payload = Built(Definition) /\ LeftInv /\ Definition = TOOL_REGISTRY[t]
      /\ Definition.importable
      /\ request.by # "workflow" => request.input.type = InputType(t)
  BY DEF RunOperation, ToolInv, RequestInv, RunInv, Definition, Pipeline
<1>2. /\ o # "create_output_dataset"
      /\ \/ o \notin DOMAIN payload
         \/ results = {} /\ FailJob(o)
         \/ /\ have' \in results /\ done' = Append(done, o)
            /\ UNCHANGED <<library, request, stage, why, payload, jobs>>
  BY <1>1 DEF RunOperation, Pipeline
<1>4. /\ o \in Ops /\ o \in ToSet(Pipeline(t)) /\ Len(done) + 1 < Len(Pipeline(t))
      /\ t \in VectorTools => Len(done) = 0 /\ o = OpKey(t)
      /\ t = "contour" => (Len(done) = 0 /\ o = "download") \/ (Len(done) = 1 /\ o = "contour_op")
      /\ t \in RasterTools =>
           \/ Len(done) = 0 /\ o = "download"
           \/ Len(done) = 1 /\ o = OpKey(t)
           \/ Len(done) = 2 /\ o = "extract_raster_metadata"
           \/ Len(done) = 3 /\ o = "upload"
  <2> DEFINE n == Len(done)
  <2>1. /\ t \in Tools /\ n \in Nat /\ n < Len(Pipeline(t))
        /\ o = Pipeline(t)[n + 1] /\ o # "create_output_dataset"
    BY <1>1, <1>2
  <2> HIDE DEF o, t, n
  <2>2. /\ o \in Ops /\ o \in ToSet(Pipeline(t)) /\ n + 1 < Len(Pipeline(t))
        /\ t \in VectorTools => n = 0 /\ o = OpKey(t)
        /\ t = "contour" => (n = 0 /\ o = "download") \/ (n = 1 /\ o = "contour_op")
        /\ t \in RasterTools =>
             \/ n = 0 /\ o = "download"
             \/ n = 1 /\ o = OpKey(t)
             \/ n = 2 /\ o = "extract_raster_metadata"
             \/ n = 3 /\ o = "upload"
    BY <2>1, NextOperation
  <2> QED BY <2>2 DEF n
<1>3. o \in DOMAIN payload
  BY <1>1, <1>4, BuiltParses
<1> HIDE DEF o
<1>5. CASE results = {} /\ FailJob(o)
  <2>1. o # "payload"
    BY <1>4 DEF Ops, ToolOps
  <2>2. request.by # "workflow" =>
            \/ o = "clip_raster_op" /\ request.given \cap {"clip_dataset_id", "clip_geometry"} = {}
            \/ o = "download" /\ ~request.input.object
    <3>1. CASE t \in VectorTools
      BY <1>1, <1>4, <1>5, <3>1, VectorRun
    <3>2. CASE o = "download"
      BY <1>5, <3>2 DEF Execute, Download
    <3>3. CASE o = "contour_op" /\ t = "contour" /\ Len(done) = 1
      <4>1. have.source
        BY <1>1, <1>4, <3>3 DEF LeftInv, ContourLeft
      <4>2. results = {Staged(have, f) : f \in {"none", "some"}}
        BY <3>3, <4>1 DEF Execute, ContourOp
      <4> QED BY <1>5, <4>2
    <3>4. CASE t \in RasterTools /\ o = OpKey(t) /\ Len(done) = 1
      <4>1. have.source
        BY <1>1, <3>4 DEF LeftInv, RasterLeft
      <4> QED BY <1>1, <1>5, <3>4, <4>1, RasterRun
    <3>5. CASE t \in RasterTools /\ o = "extract_raster_metadata" /\ Len(done) = 2
      <4>1. request.by # "workflow" => have.raster # 0
        BY <1>1, <3>5 DEF LeftInv, RasterLeft
      <4>2. have.raster = 0
        BY <1>5, <3>5 DEF Execute, ExtractRasterMetadata
      <4> QED BY <4>1, <4>2
    <3>6. CASE t \in RasterTools /\ o = "upload" /\ Len(done) = 3
      <4>1. have.raster # 0
        BY <1>1, <3>6 DEF LeftInv, RasterLeft
      <4>2. have.raster = 0
        BY <1>5, <3>6 DEF Execute, Upload
      <4> QED BY <4>1, <4>2
    <3> QED BY <1>1, <1>4, <3>1, <3>2, <3>3, <3>4, <3>5, <3>6 DEF Tools
  <2> QED BY <1>1, <1>5, <2>1, <2>2, FailStep
<1>6. CASE have' \in results /\ done' = Append(done, o)
           /\ UNCHANGED <<library, request, stage, why, payload, jobs>>
  <2>1. done' \in Seq(Ops) /\ Len(done') = Len(done) + 1
    BY <1>1, <1>4, <1>6
  <2>2. have' \in Left /\ LeftInv'
    <3>0. request' = request /\ (t \in VectorTools => t \notin RasterTools /\ t # "contour")
          /\ (t \in RasterTools => t # "contour")
      BY <1>6 DEF VectorTools, RasterTools
    <3>1. CASE t \in VectorTools
      <4>1. PICK f \in {"none", "some"} :
              /\ have' = Staged(have, f)
              /\ f = request.input.features \/ t \in {"clip_vector", "simplify"}
        BY <1>1, <1>4, <1>6, <3>1, VectorRun
      <4>2. have' \in Left /\ have'.pending /\ have'.staging = f
            /\ have'.object = have.object /\ have'.raster = have.raster
            /\ have'.metadata = have.metadata
        BY <1>1, <4>1, StagedIs
      <4>3. VectorLeft(Len(done))
        BY <1>1, <3>1 DEF LeftInv
      <4>4. VectorLeft(Len(done))'
        BY <3>0, <4>1, <4>2, <4>3 DEF VectorLeft
      <4> QED BY <3>0, <3>1, <4>2, <4>4 DEF LeftInv
    <3>2. CASE t = "contour"
      <4>1. ContourLeft(Len(done))
        BY <1>1, <3>2 DEF LeftInv
      <4>2. CASE o = "download" /\ Len(done) = 0
        <5>1. have' = [have EXCEPT !.source = TRUE]
          BY <1>6, <4>2 DEF Execute, Download
        <5>2. /\ have' \in Left /\ have'.source /\ have'.object = have.object
              /\ have'.raster = have.raster /\ have'.metadata = have.metadata
          BY <1>1, <5>1 DEF Left
        <5>3. Len(done') = 1
          BY <2>1, <4>2
        <5>4. ContourLeft(Len(done))'
          BY <4>1, <5>2, <5>3 DEF ContourLeft
        <5> QED BY <3>0, <3>2, <5>2, <5>4 DEF LeftInv
      <4>3. CASE o = "contour_op" /\ Len(done) = 1
        <5>1. have.source
          BY <4>1, <4>3 DEF ContourLeft
        <5>2. PICK f \in {"none", "some"} : have' = Staged(have, f)
          BY <1>6, <4>3, <5>1 DEF Execute, ContourOp
        <5>3. /\ have' \in Left /\ have'.source = have.source /\ have'.object = have.object
              /\ have'.raster = have.raster /\ have'.metadata = have.metadata /\ have'.pending
          BY <1>1, <5>2, StagedIs
        <5>4. ContourLeft(Len(done))'
          BY <4>1, <5>1, <5>3 DEF ContourLeft
        <5> QED BY <3>0, <3>2, <5>3, <5>4 DEF LeftInv
      <4> QED BY <1>4, <3>2, <4>2, <4>3
    <3>3. CASE t \in RasterTools
      <4>1. RasterLeft(Len(done))
        BY <1>1, <3>3 DEF LeftInv
      <4>2. CASE Len(done) = 0 /\ o = "download"
        <5>1. have' = [have EXCEPT !.source = TRUE] /\ request.input.object
          BY <1>6, <4>2 DEF Execute, Download
        <5>2. have' \in Left /\ have'.source /\ have'.pending = have.pending
          BY <1>1, <5>1 DEF Left
        <5>3. Len(done') = 1
          BY <2>1, <4>2
        <5>4. RasterLeft(Len(done))'
          BY <3>0, <4>1, <5>1, <5>2, <5>3 DEF RasterLeft
        <5> QED BY <3>0, <3>3, <5>2, <5>4 DEF LeftInv
      <4>3. CASE Len(done) = 1 /\ o = OpKey(t)
        <5>1. have.source /\ request.input.object /\ ~have.pending
          BY <4>1, <4>3 DEF RasterLeft
        <5>2. /\ have' \in Left /\ have'.source /\ have'.pending = have.pending
              /\ request.input.bands # 0 => have'.raster # 0
          BY <1>1, <1>6, <3>3, <4>3, <5>1, RasterRun
        <5>3. request.by # "workflow" => request.input.bands # 0
          BY <1>1, <3>3, <5>1, RasterToolIs DEF Genuine, InputType
        <5>4. Len(done') = 2
          BY <2>1, <4>3
        <5>5. RasterLeft(Len(done))'
          BY <3>0, <5>1, <5>2, <5>3, <5>4 DEF RasterLeft
        <5> QED BY <3>0, <3>3, <5>2, <5>5 DEF LeftInv
      <4>4. CASE Len(done) = 2 /\ o = "extract_raster_metadata"
        <5>1. have.raster # 0 /\ have' = [have EXCEPT !.metadata = have.raster]
          BY <1>6, <4>4 DEF Execute, ExtractRasterMetadata
        <5>2. /\ have' \in Left /\ have'.source = have.source /\ have'.pending = have.pending
              /\ have'.raster = have.raster /\ have'.metadata = have.raster
          BY <1>1, <5>1 DEF Left
        <5>3. Len(done') = 3
          BY <2>1, <4>4
        <5>4. have.source /\ request.input.object /\ ~have.pending
          BY <4>1, <4>4 DEF RasterLeft
        <5>5. RasterLeft(Len(done))'
          BY <3>0, <5>1, <5>2, <5>3, <5>4 DEF RasterLeft
        <5> QED BY <3>0, <3>3, <5>2, <5>5 DEF LeftInv
      <4>5. CASE Len(done) = 3 /\ o = "upload"
        <5>1. have.raster # 0 /\ have' = [have EXCEPT !.object = TRUE]
          BY <1>6, <4>5 DEF Execute, Upload
        <5>2. /\ have' \in Left /\ have'.source = have.source /\ have'.pending = have.pending
              /\ have'.raster = have.raster /\ have'.metadata = have.metadata /\ have'.object
          BY <1>1, <5>1 DEF Left
        <5>3. /\ have.source /\ request.input.object /\ ~have.pending
              /\ have.metadata = have.raster
          BY <4>1, <4>5 DEF RasterLeft
        <5>4. RasterLeft(Len(done))'
          BY <3>0, <5>1, <5>2, <5>3 DEF RasterLeft
        <5> QED BY <3>0, <3>3, <5>2, <5>4 DEF LeftInv
      <4> QED BY <1>4, <3>3, <4>2, <4>3, <4>4, <4>5
    <3> QED BY <1>1, <3>1, <3>2, <3>3 DEF Tools
  <2>3. Len(done') < Len(Pipeline(t))
    BY <1>1, <1>4, <2>1
  <2>4. RequestInv'
    BY <1>1, <1>6 DEF ToolInv, RequestInv
  <2>5. RunInv'
    BY <1>1, <1>6, <2>2, <2>3 DEF RunInv, Definition, Pipeline
  <2> QED BY <1>1, <1>6, <2>1, <2>2, <2>4, <2>5 DEF ToolInv, Stages, AcceptedJobRuns
<1> QED BY <1>2, <1>3, <1>5, <1>6

LEMMA CreateOutputStep ==
  ASSUME ToolInv, CreateOutput
  PROVE  ToolInv'
<1> DEFINE t == request.tool
<1>1. /\ stage = "parsed" /\ t \in Tools /\ have \in Left /\ done \in Seq(Ops)
      /\ payload = Built(Definition) /\ LeftInv /\ Definition = TOOL_REGISTRY[t]
      /\ Definition.importable /\ Len(done) + 1 = Len(Pipeline(t))
  BY DEF CreateOutput, ToolInv, RequestInv, RunInv, Definition, Pipeline
<1>2. /\ stage' = "completed" /\ library' = library \cup {NewDataset}
      /\ done' = Append(done, "create_output_dataset")
      /\ UNCHANGED <<request, why, payload, have, jobs>>
  BY DEF CreateOutput
<1>3. done' \in Seq(Ops) /\ Len(done') = Len(done) + 1 /\ Len(done) \in Nat
  <2>1. "create_output_dataset" \in Ops
    BY DEF Ops
  <2> QED BY <1>1, <1>2, <2>1
<1>0. /\ t \in VectorTools => Len(done) = 1 /\ Len(done') = 2
      /\ t = "contour" => Len(done) = 2 /\ Len(done') = 3
      /\ t \in RasterTools => Len(done) = 4 /\ Len(done') = 5
  <2>1. Len(done) \in Nat /\ Len(done) + 1 = Len(Pipeline(t)) /\ Len(done') = Len(done) + 1
        /\ t \in Tools
    BY <1>1, <1>3
  <2>2. CASE t \in VectorTools
    <3>1. Len(Pipeline(t)) = 2 /\ t # "contour" /\ t \notin RasterTools
      BY <2>1, <2>2, PipelineIs
    <3>2. Len(done) + 1 = 2
      BY <2>1, <3>1
    <3>3. Len(done) = 1
      BY <2>1, <3>2, Predecessor
    <3>4. Len(done') = 2
      BY <2>1, <3>3
    <3> QED BY <3>1, <3>3, <3>4
  <2>3. CASE t = "contour"
    <3>1. Len(Pipeline(t)) = 3 /\ t \notin VectorTools /\ t \notin RasterTools
      BY <2>1, <2>3, PipelineIs
    <3>2. Len(done) + 1 = 3
      BY <2>1, <3>1
    <3>3. Len(done) = 2
      BY <2>1, <3>2, Predecessor
    <3>4. Len(done') = 3
      BY <2>1, <3>3
    <3> QED BY <3>1, <3>3, <3>4
  <2>4. CASE t \in RasterTools
    <3>1. Len(Pipeline(t)) = 5 /\ t # "contour" /\ t \notin VectorTools
      BY <2>1, <2>4, PipelineIs
    <3>2. Len(done) + 1 = 5
      BY <2>1, <3>1
    <3>3. Len(done) = 4
      BY <2>1, <3>2, Predecessor
    <3>4. Len(done') = 5
      BY <2>1, <3>3
    <3> QED BY <3>1, <3>3, <3>4
  <2> QED BY <2>1, <2>2, <2>3, <2>4 DEF Tools
<1>4. NewDataset \in Dataset /\ Genuine(NewDataset)
  <2>1. Definition.output \in {"vector", "raster"}
    BY <1>1, VectorToolIs, RasterToolIs, ContourIs DEF Tools
  <2>2. NewDataset \in Dataset
    BY <1>1, <2>1 DEF NewDataset, Dataset, Left
  <2>3. /\ NewDataset.type = Definition.output /\ NewDataset.bands = have.raster
        /\ NewDataset.known = have.metadata
    BY DEF NewDataset
  <2>4. CASE t \in RasterTools
    <3>1. Len(done) = 4
      BY <1>0, <2>4
    <3>2. have.raster # 0 /\ have.metadata = have.raster
      BY <1>1, <2>4, <3>1 DEF LeftInv, RasterLeft
    <3> QED BY <2>2, <2>3, <3>2 DEF Genuine
  <2>5. CASE t \in VectorTools \cup {"contour"}
    <3>1. Definition.output = "vector"
      BY <1>1, <2>5, VectorToolIs, ContourIs
    <3>2. have.metadata = 0
      BY <1>1, <2>5 DEF LeftInv, VectorLeft, ContourLeft
    <3> QED BY <2>2, <2>3, <3>1, <3>2 DEF Genuine
  <2> QED BY <1>1, <2>4, <2>5 DEF Tools
<1>5. LeftInv'
  <2>1. CASE t \in RasterTools
    <3>1. Len(done) = 4 /\ Len(done') = 5
      BY <1>0, <2>1
    <3>2. t \notin VectorTools /\ t # "contour"
      BY <2>1 DEF VectorTools, RasterTools
    <3> QED BY <1>1, <1>2, <2>1, <3>1, <3>2 DEF LeftInv, RasterLeft
  <2>2. CASE t \in VectorTools
    <3>1. Len(done) = 1 /\ Len(done') = 2
      BY <1>0, <2>2
    <3>2. t \notin RasterTools /\ t # "contour"
      BY <2>2 DEF VectorTools, RasterTools
    <3> QED BY <1>1, <1>2, <2>2, <3>1, <3>2 DEF LeftInv, VectorLeft
  <2>3. CASE t = "contour"
    <3>1. Len(done) = 2 /\ Len(done') = 3
      BY <1>0, <2>3
    <3>2. t \notin RasterTools /\ t \notin VectorTools
      BY <2>3 DEF VectorTools, RasterTools
    <3> QED BY <1>1, <1>2, <2>3, <3>1, <3>2 DEF LeftInv, ContourLeft
  <2> QED BY <1>1, <2>1, <2>2, <2>3 DEF Tools
<1>6. RequestInv'
  BY <1>1, <1>2 DEF ToolInv, RequestInv
<1>7. RunInv'
  BY <1>1, <1>2, <1>3, <1>5 DEF RunInv, Definition, Pipeline
<1> QED BY <1>1, <1>2, <1>3, <1>4, <1>6, <1>7 DEF ToolInv, Stages, AcceptedJobRuns

\* Whatever was submitted, what has run of a job left what the rest of it needs.
THEOREM ToolInvCorrect == ToolSpec => []ToolInv
<1>1. ToolInv /\ UNCHANGED toolVars => ToolInv'
  BY DEF toolVars, ToolInv, RequestInv, RunInv, LeftInv, VectorLeft, RasterLeft, ContourLeft,
         AcceptedJobRuns, Definition
<1>2. ToolInv /\ [ToolNext]_toolVars => ToolInv'
  BY <1>1, SubmitAnyStep, LoadStep, ComposeStep, RunOperationStep, DataFailsStep,
     CreateOutputStep, CloseStep DEF ToolNext
<1> QED BY <1>2, ToolInitInv, PTL DEF ToolSpec

\* The form, the parameters model, the payloads and the operations agree: a job of
\* the form fails only for its data, but for the two cases the property names.
THEOREM AcceptedCorrect == ToolSpec => []AcceptedJobRuns
<1>1. ToolInv => AcceptedJobRuns
  BY DEF ToolInv
<1> QED BY <1>1, ToolInvCorrect, PTL

\* A completed job left the raster or the features that its tool promises.
THEOREM OutputCorrect == ToolSpec => []OutputAsPromised
<1>1. ToolInv => OutputAsPromised
  <2> SUFFICES ASSUME ToolInv, stage = "completed" PROVE OutputAsPromised
    BY DEF OutputAsPromised
  <2> DEFINE t == request.tool
  <2>1. /\ t \in Tools /\ LeftInv /\ Definition = TOOL_REGISTRY[t]
        /\ Len(done) = Len(Pipeline(t))
    BY DEF ToolInv, RequestInv, RunInv, Definition, Pipeline
  <2>2. NewDataset.bands = have.raster /\ NewDataset.known = have.metadata
    BY DEF NewDataset
  <2>3. CASE t \in RasterTools
    <3>1. Len(done) = 5 /\ Definition.output = "raster"
      BY <2>1, <2>3, LastOperation, RasterToolIs
    <3>2. have.object /\ have.raster # 0 /\ have.metadata = have.raster
      BY <2>1, <2>3, <3>1 DEF LeftInv, RasterLeft
    <3> QED BY <2>2, <3>1, <3>2 DEF OutputAsPromised
  <2>4. CASE t \in VectorTools
    <3>1. Len(done) = 2 /\ Definition.output = "vector"
      BY <2>1, <2>4, LastOperation, VectorToolIs
    <3>2. VectorLeft(2)
      BY <2>1, <2>4, <3>1 DEF LeftInv
    <3> QED BY <3>1, <3>2 DEF OutputAsPromised, VectorLeft
  <2>5. CASE t = "contour"
    <3>1. Len(done) = 3 /\ Definition.output = "vector"
      BY <2>1, <2>5, LastOperation, ContourIs
    <3>2. ContourLeft(3)
      BY <2>1, <2>5, <3>1 DEF LeftInv
    <3> QED BY <2>5, <3>1, <3>2 DEF OutputAsPromised, ContourLeft
  <2> QED BY <2>1, <2>3, <2>4, <2>5 DEF Tools
<1> QED BY <1>1, ToolInvCorrect, PTL

\* No tool for elevations runs on a coloured raster through the form.
THEOREM ElevationCorrect == ToolSpec => []DemToolsReadElevation
<1>1. ToolInv => DemToolsReadElevation
  <2> SUFFICES ASSUME ToolInv, stage \in {"parsed", "completed"}, request.by # "workflow",
                      request.tool \in DemOnly, request.input.known # 0
               PROVE  request.input.bands = 1
    BY DEF DemToolsReadElevation
  <2>1. /\ request.input \in Dataset /\ Genuine(request.input)
        /\ AcceptsDem(request.tool, request.input)
    BY DEF ToolInv, RequestInv
  <2>2. request.input.known \in Nat /\ request.input.known <= 1
        /\ request.input.known \in {0, request.input.bands}
    BY <2>1 DEF AcceptsDem, Genuine, Dataset
  <2> QED BY <2>2
<1> QED BY <1>1, ToolInvCorrect, PTL

=============================================================================
