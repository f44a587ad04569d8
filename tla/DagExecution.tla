---------------------------- MODULE DagExecution ----------------------------
(* What a workflow promises its user about the nodes of its graph, whoever
   executes it and in whatever order: a node runs only when everything it takes
   its input from has completed, a node that completed or failed stays so, and
   nodes are skipped only because some node failed. *)

EXTENDS Integers

CONSTANT N            \* the graph has the nodes 1 .. N

VARIABLES edges,      \* pairs <<source, target>>, fixed
          node        \* the status shown for each node

Nodes == 1 .. N

Upstream(n) == {m \in Nodes : <<m, n>> \in edges}

Init ==
  /\ edges \in SUBSET (Nodes \X Nodes)
  /\ node = [n \in Nodes |-> "waiting"]

Run(n) ==
  /\ node[n] = "waiting"
  /\ \A m \in Upstream(n) : node[m] = "completed"
  /\ node' = [node EXCEPT ![n] = "running"]

Complete(n) ==
  /\ node[n] = "running"
  /\ node' = [node EXCEPT ![n] = "completed"]

Fail(n) ==
  /\ node[n] = "running"
  /\ node' = [node EXCEPT ![n] = "failed"]

Skip(n) ==
  /\ node[n] = "waiting"
  /\ \E m \in Nodes : node[m] = "failed"
  /\ node' = [node EXCEPT ![n] = "skipped"]

Next ==
  /\ \E n \in Nodes : Run(n) \/ Complete(n) \/ Fail(n) \/ Skip(n)
  /\ UNCHANGED edges

Spec == Init /\ [][Next]_<<edges, node>>
=============================================================================
