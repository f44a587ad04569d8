--------------------------- MODULE MCDefinitions ---------------------------
(* What is defined before anything runs, checked side by side: part says which
   of the two modules the behaviour is about, and the other one stands still.

   Definitions: every list of up to four edges over three sound nodes (with
   self-loops, repeated edges and cycles), and up to one edge over two nodes
   that may lack an id, share it, or be of an unknown type or not valid.
   Tools: a library with a dataset of each kind a tool may meet. *)

EXTENDS WorkflowDefinition, ToolPipeline

CONSTANTS a, b, c

VARIABLE part

Sound(i) == [id |-> i, type |-> "operation", ok |-> TRUE]

MCNode == [id : {a, b, NoId}, type : {"source", "operation", "other"}, ok : BOOLEAN]

Lists(S, n) == UNION {[1 .. k -> S] : k \in 0 .. n}

MCDefinitionSet ==
  [nodes : {<<Sound(a), Sound(b), Sound(c)>>}, edges : Lists({a, b, c} \X {a, b, c}, 4)]
  \cup [nodes : Lists(MCNode, 2), edges : Lists({a, b} \X {a, b, c}, 1)]

Vector(f, m) == [type |-> "vector", bands |-> 0, known |-> 0, features |-> f,
                 object |-> TRUE, mine |-> m]

\* An upload whose metadata is not extracted yet has known = 0.
Raster(bandCount, k) == [type |-> "raster", bands |-> bandCount, known |-> k,
                         features |-> "none", object |-> TRUE, mine |-> TRUE]

Document == [Vector("none", TRUE) EXCEPT !.type = "text"]

MCUploaded ==
  {Vector("some", TRUE), Vector("none", TRUE), Vector("some", FALSE),
   Raster(1, 1), Raster(3, 3), Raster(3, 0), Document}

MCInit ==
  /\ part \in {"definition", "tool"}
  /\ ToolInit
  /\ IF part = "definition" THEN DefInit
     ELSE /\ nodes = <<>> /\ edges = <<>> /\ nodeIds = <<>> /\ inDegree = <<>>
          /\ queue = <<>> /\ ordered = <<>> /\ targets = {} /\ pc = "sorted"

MCNext ==
  \/ part = "definition" /\ DefNext /\ UNCHANGED <<part, toolVars>>
  \/ part = "tool" /\ ToolNext /\ UNCHANGED <<part, defVars>>

MCSpec == MCInit /\ [][MCNext]_<<part, defVars, toolVars>>
=============================================================================
