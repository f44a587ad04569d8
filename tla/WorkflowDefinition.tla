------------------------- MODULE WorkflowDefinition -------------------------
(* validate_definition and _topological_sort of workflows/dag_executor.py, one
   step per iteration of their loops: what the builder saves, and in what order
   the executor will run it.  Cycles and repeated edges are left to the sort. *)

EXTENDS Integers, Sequences, FiniteSets, SequencesExt

CONSTANT Definitions  \* the definitions considered: [nodes, edges]

\* A node is [id, type, ok]: ok says that its dataset is known or that its tool
\* accepts its parameters.  NoId stands for an id that is missing.
CONSTANT NoId

ASSUME DefinitionsAssumption ==
  \A d \in Definitions :
    /\ d.nodes \in Seq(ToSet(d.nodes)) /\ d.edges \in Seq(ToSet(d.edges))
    /\ \A i \in DOMAIN d.nodes : d.nodes[i].type \in {"source", "operation", "other"}

VARIABLES nodes, edges,     \* the definition, fixed
          nodeIds,          \* node_ids of validate_definition
          inDegree, queue, ordered,
          targets,          \* what is left of downstream[current], by edge
          pc                \* "nodes", "edges", "pop", "visit", or the
                            \* result: "invalid", "cycle", "sorted"

defVars == <<nodes, edges, nodeIds, inDegree, queue, ordered, targets, pc>>

Ids == {nodes[i].id : i \in DOMAIN nodes}

DefInit ==
  /\ \E d \in Definitions : nodes = d.nodes /\ edges = d.edges
  /\ nodeIds = <<>>
  /\ inDegree = [n \in Ids |-> 0]
  /\ queue = <<>> /\ ordered = <<>> /\ targets = {}
  /\ pc = "nodes"

-----------------------------------------------------------------------------
(* validate_definition                                                      *)

\* Mutant: a repeated id is not noticed.
AcceptsRepeated(n) == n.id # NoId /\ n.type \in {"source", "operation"} /\ n.ok

Accepts(n) ==
  /\ n.id # NoId
  /\ n.id \notin ToSet(nodeIds)
  /\ n.type \in {"source", "operation"}
  /\ n.ok

CheckNode ==
  /\ pc = "nodes" /\ Len(nodeIds) < Len(nodes)
  /\ LET node == nodes[Len(nodeIds) + 1] IN
       IF Accepts(node)
       THEN nodeIds' = Append(nodeIds, node.id) /\ UNCHANGED pc
       ELSE pc' = "invalid" /\ UNCHANGED nodeIds
  /\ UNCHANGED <<nodes, edges, inDegree, queue, ordered, targets>>

Degree(n) == Cardinality({i \in DOMAIN edges : edges[i][2] = n})

\* The nodes without inputs, in the order of the definition.
InitialQueue(q) ==
  /\ ToSet(q) = {n \in ToSet(nodeIds) : Degree(n) = 0}
  /\ \A k, l \in DOMAIN q : k < l =>
       \E i, j \in DOMAIN nodeIds : i < j /\ nodeIds[i] = q[k] /\ nodeIds[j] = q[l]

\* The edges are checked and the sort is entered: it counts the inputs of each
\* node and queues the nodes without any.
CheckEdges ==
  /\ pc = "nodes" /\ Len(nodeIds) = Len(nodes)
  /\ IF \A i \in DOMAIN edges : {edges[i][1], edges[i][2]} \subseteq ToSet(nodeIds)
     THEN /\ pc' = "pop"
          /\ inDegree' = [n \in Ids |-> Degree(n)]
          /\ \E q \in BoundedSeq(Ids, Len(nodeIds)) : InitialQueue(q) /\ queue' = q
     ELSE /\ pc' = "invalid"
          /\ UNCHANGED <<inDegree, queue>>
  /\ UNCHANGED <<nodes, edges, nodeIds, ordered, targets>>

-----------------------------------------------------------------------------
(* _topological_sort                                                        *)

Downstream(n) == {i \in DOMAIN edges : edges[i][1] = n}

Pop ==
  /\ pc = "pop" /\ queue # <<>>
  /\ ordered' = Append(ordered, Head(queue))
  /\ queue' = Tail(queue)
  /\ targets' = Downstream(Head(queue))
  /\ pc' = "visit"
  /\ UNCHANGED <<nodes, edges, nodeIds, inDegree>>

\* The edges of a node are visited in the order of the definition.
Visit ==
  /\ pc = "visit"
  /\ \E i \in targets :
       LET target == edges[i][2] IN
       /\ \A j \in targets : i <= j
       /\ inDegree' = [inDegree EXCEPT ![target] = @ - 1]
       /\ queue' = IF inDegree[target] = 1 THEN Append(queue, target) ELSE queue
       /\ targets' = targets \ {i}
  /\ UNCHANGED <<nodes, edges, nodeIds, ordered, pc>>

Visited ==
  /\ pc = "visit" /\ targets = {}
  /\ pc' = "pop"
  /\ UNCHANGED <<nodes, edges, nodeIds, inDegree, queue, ordered, targets>>

Return ==
  /\ pc = "pop" /\ queue = <<>>
  /\ pc' = IF Len(ordered) = Len(nodeIds) THEN "sorted" ELSE "cycle"
  /\ UNCHANGED <<nodes, edges, nodeIds, inDegree, queue, ordered, targets>>

DefNext == CheckNode \/ CheckEdges \/ Pop \/ Visit \/ Visited \/ Return

DefSpec == DefInit /\ [][DefNext]_defVars

-----------------------------------------------------------------------------
(* The reference: a graph has a cycle iff some set of its nodes, not empty,   *)
(* has no node without a predecessor in the set.                             *)

Cyclic ==
  \E S \in (SUBSET Ids) \ {{}} :
    \A n \in S : \E i \in DOMAIN edges : edges[i][2] = n /\ edges[i][1] \in S

Before(m, n) ==
  \E i, j \in DOMAIN ordered : i < j /\ ordered[i] = m /\ ordered[j] = n

\* A definition is saved exactly when its nodes are valid and distinct, its
\* edges connect them and there is no cycle; it then has an order that holds
\* every node once and puts each after all the nodes it takes its input from,
\* whatever edges are repeated (so a run never meets the error of the sort).
SavedIsSorted ==
  /\ pc = "sorted" =>
       /\ ~Cyclic /\ \A i \in DOMAIN nodes : nodes[i].ok
       /\ IsInjective(ordered) /\ Len(ordered) = Len(nodes) /\ ToSet(ordered) = Ids
       /\ \A i \in DOMAIN edges : Before(edges[i][1], edges[i][2])
  /\ pc = "cycle" => Cyclic /\ Cardinality(Ids) = Len(nodes)
=============================================================================
