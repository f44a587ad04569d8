---------------------------- MODULE DatasetTree ----------------------------
(***************************************************************************)
(* The tree of folders and datasets and its transitive closure table: the  *)
(* post_save signal of DatasetNode (signals.py) that maintains the table,  *)
(* and the deletion (dataset_views.py destroy) that reads it to know which *)
(* files to remove.                                                        *)
(*                                                                         *)
(* A move (PATCH of parent) has no transaction around it: the parent is    *)
(* saved, then the rows of the node and of its descendants are deleted and *)
(* inserted statement by statement.  No serializer looks for cycles; the   *)
(* unique (ancestor, descendant) is what an insertion may fail on.         *)
(***************************************************************************)
EXTENDS Integers, Sequences, FiniteSets, SequencesExt

CONSTANTS
  Nodes,     \* the ids there may ever be; fresh ones are taken in order
  Datasets,  \* the ids of dataset nodes, that have a file; others are folders
  Requests,  \* the requests that move nodes, at once
  Root       \* the null of parent

ASSUME TreeAssumption ==
  /\ Nodes \subseteq Nat /\ IsFiniteSet(Nodes)
  /\ Datasets \subseteq Nodes /\ Root \notin Nodes

VARIABLES
  unborn,    \* ids not used yet
  parent,    \* the parent column of the live nodes
  closure,   \* the DatasetClosure rows <<ancestor, descendant, depth>>
  files,     \* datasets whose file is in the bucket
  removing,  \* files a committed destroy still has to remove
  move       \* where each moving request is

vars == <<unborn, parent, closure, files, removing, move>>

-----------------------------------------------------------------------------
Live == DOMAIN parent
Children(p) == {n \in Live : parent[n] = p}

\* What the parents of a column lead to from n, n included: the least set that
\* has n and the parent of each of its nodes.
Above(column, n) ==
  {a \in DOMAIN column :
     \A S \in SUBSET DOMAIN column :
       n \in S /\ (\A m \in S : column[m] \in S \cup {Root}) => a \in S}

\* The table rows of a node whose ancestors are those of p, one deeper.
Rows(n, p) == {<<c[1], n, c[3] + 1>> : c \in {c \in closure : c[2] = p}}

\* bulk_create of rows: unique_together (ancestor, descendant) and the foreign
\* keys may refuse them.
Accepted(rows) ==
  /\ \A c \in rows : ~\E b \in closure : b[1] = c[1] /\ b[2] = c[2]
  /\ \A c \in rows : c[1] \in Live /\ c[2] \in Live

Idle == [at |-> "idle", todo |-> <<>>]

Init ==
  /\ unborn = Nodes
  /\ parent = <<>>
  /\ closure = {}
  /\ files = {} /\ removing = {}
  /\ move = [r \in Requests |-> Idle]

-----------------------------------------------------------------------------
(* One transaction: insert the node, its self row and its ancestors' rows. *)

Create(n, p) ==
  /\ n \in unborn
  /\ \A m \in unborn : (m \in Datasets <=> n \in Datasets) => n <= m
  /\ p \in Live \cup {Root}
  /\ n \in Datasets => p \notin Datasets
  /\ unborn' = unborn \ {n}
  /\ parent' = [m \in Live \cup {n} |-> IF m = n THEN p ELSE parent[m]]
  /\ closure' = closure \cup {<<n, n, 0>>} \cup Rows(n, p)
  /\ files' = IF n \in Datasets THEN files \cup {n} ELSE files
  /\ UNCHANGED <<removing, move>>

-----------------------------------------------------------------------------
(* A move.  todo is what rebuild_descendant_closures still has to visit,   *)
(* the innermost call first: pairs of a child and the parent it was read   *)
(* with.                                                                   *)

SaveParent(r, n, p) ==
  /\ move[r].at = "idle"
  /\ n \in Live /\ p \in Live \cup {Root} /\ p # parent[n]
  /\ parent' = [parent EXCEPT ![n] = p]
  /\ move' = [move EXCEPT ![r] = [at |-> "delete", todo |-> << <<n, p>> >>]]
  /\ UNCHANGED <<unborn, closure, files, removing>>

DeleteRows(r) ==
  /\ move[r].at = "delete"
  /\ LET n == move[r].todo[1][1] IN
       closure' = {c \in closure : c[2] = n => c[1] = n}
  /\ move' = [move EXCEPT ![r].at = "create"]
  /\ UNCHANGED <<unborn, parent, files, removing>>

CreateRows(r) ==
  /\ move[r].at = "create"
  /\ LET n == move[r].todo[1][1]
         rows == Rows(n, move[r].todo[1][2])
     IN IF Accepted(rows)
        THEN /\ closure' = closure \cup rows
             /\ move' = [move EXCEPT ![r].at = "descend"]
        ELSE \* IntegrityError: 500, and what was written stays
             /\ closure' = closure
             /\ move' = [move EXCEPT ![r] = Idle]
  /\ UNCHANGED <<unborn, parent, files, removing>>

\* Mutant: only the direct children are rebuilt
DescendOnce(r) ==
  /\ move[r].at = "descend"
  /\ move' = [move EXCEPT ![r] =
       IF Tail(@.todo) = <<>> THEN Idle
       ELSE [at |-> "delete", todo |-> Tail(@.todo)]]
  /\ UNCHANGED <<unborn, parent, closure, files, removing>>

\* Mutant: the visited child is not taken off
DescendKeeps(r) ==
  /\ move[r].at = "descend"
  /\ move' = [move EXCEPT ![r].at = "delete"]
  /\ UNCHANGED <<unborn, parent, closure, files, removing>>

Descend(r) ==
  /\ move[r].at = "descend"
  /\ LET n == move[r].todo[1][1]
         \* the order of a query without ORDER BY is the database's
     IN \E s \in [1 .. Cardinality(Children(n)) -> Children(n)] :
          /\ IsInjective(s)
          /\ LET todo == [i \in DOMAIN s |-> <<s[i], n>>] \o Tail(move[r].todo)
             IN move' = [move EXCEPT ![r] =
                  IF todo = <<>> THEN Idle
                  ELSE [at |-> "delete", todo |-> todo]]
  /\ UNCHANGED <<unborn, parent, closure, files, removing>>

-----------------------------------------------------------------------------
(* The deletion: the rows go by the cascade of the parent column, the      *)
(* files by the closure table.                                             *)

\* n and what hangs below it.
Subtree(n) == {m \in Live : n \in Above(parent, m)}

\* Mutant: descendants are looked up among the direct children only
DescendantsNear(n) == {c[2] : c \in {c \in closure : c[1] = n /\ c[3] < 2}}
Descendants(n) == {c[2] : c \in {c \in closure : c[1] = n}}

Destroy(n) ==
  /\ n \in Live
  /\ removing' = removing \cup (Descendants(n) \cap Datasets)
  /\ parent' = [m \in Live \ Subtree(n) |-> parent[m]]
  /\ closure' = {c \in closure : {c[1], c[2]} \cap Subtree(n) = {}}
  /\ UNCHANGED <<unborn, files, move>>

RemoveFiles ==
  /\ removing # {}
  /\ files' = files \ removing
  /\ removing' = {}
  /\ UNCHANGED <<unborn, parent, closure, move>>

-----------------------------------------------------------------------------
MoveStep(r) == DeleteRows(r) \/ CreateRows(r) \/ Descend(r)

\* A request of another kind runs between two moves, not inside one.
Quiet == \A r \in Requests : move[r] = Idle

Next ==
  \/ \E n \in Nodes, p \in Nodes \cup {Root} : Quiet /\ Create(n, p)
  \/ \E r \in Requests, n \in Nodes, p \in Nodes \cup {Root} :
       SaveParent(r, n, p)
  \/ \E r \in Requests : MoveStep(r)
  \/ \E n \in Nodes : Quiet /\ removing = {} /\ Destroy(n)
  \/ RemoveFiles

Spec == Init /\ [][Next]_vars
FairSpec == Spec /\ \A r \in Requests : WF_vars(MoveStep(r))

-----------------------------------------------------------------------------
\* The ancestors of a node with their distance, itself included, for as far
\* as the parents go.
Ancestors(n) ==
  {<<a, Cardinality(Above(parent, n) \ Above(parent, a))>> : a \in Above(parent, n)}

\* A node that is not in or below a cycle of parents.
Rooted(n) == \E a \in Above(parent, n) : parent[a] = Root
Forest == \A n \in Live : Rooted(n)

\* Between moves, the table holds exactly the ancestors of every node that
\* hangs from a root, with their depths: also after moves that closed a cycle
\* and were refused half-way, and after later moves that opened it again.
ClosureExact ==
  Quiet => \A n \in Live : Rooted(n) =>
             {<<c[1], c[3]>> : c \in {c \in closure : c[2] = n}} = Ancestors(n)

\* As long as there is no cycle, deleting a folder removes the files of the
\* datasets it deletes, all of them and no other.
DestroyIsExact ==
  [][\A n \in Nodes : Destroy(n) /\ Forest =>
       removing' = (Live \ DOMAIN parent') \cap Datasets]_vars

\* The recursion of rebuild_descendant_closures ends, also on a cycle.
MoveEnds == \A r \in Requests : move[r].at # "idle" ~> move[r].at = "idle"

\* dataset_views.py:221 "Delete node and cleanup associated files. If folder,
\* deletes full hierarchy.": the files of the datasets that stay are kept.
FilesOfTheLiveKept == Live \cap Datasets \subseteq files

=============================================================================
