------------------------- MODULE DatasetTree_proofs -------------------------
(* Proofs about DatasetTree, for any nodes and any requests that move them one at
   a time: between two moves the closure table is exact for every node that hangs
   from a root, and a deletion from a forest removes the files it should. *)

EXTENDS DatasetTree, FiniteSetTheorems, SequenceTheorems, TLAPS

\* Two moves that run at once can interleave their rows: nothing is claimed then.
OneAtATime == \A q, r \in Requests : q # r => move[q] = Idle \/ move[r] = Idle

\* The operators of the module, for any parent column.
IsColumn(column) ==
  /\ DOMAIN column \subseteq Nodes
  /\ \A n \in DOMAIN column : column[n] \in DOMAIN column \cup {Root}
Hangs(column, n) == \E a \in Above(column, n) : column[a] = Root
Depth(column, n, a) == Cardinality(Above(column, n) \ Above(column, a))

\* The rows of n are its ancestors.
Exact(n) ==
  \A a \in Nodes, d \in Nat :
    <<a, n, d>> \in closure <=> a \in Above(parent, n) /\ d = Depth(parent, n, a)

TreeTypeOK ==
  /\ unborn \subseteq Nodes
  /\ Live \cap unborn = {}
  /\ IsColumn(parent)
  /\ closure \subseteq Live \X Live \X Nat
  /\ move \in [Requests -> [at : {"idle", "delete", "create", "descend"},
                            todo : Seq(Nodes \X (Nodes \cup {Root}))]]

\* What is to be visited are nodes with the parent they have.
TodoOK(r) ==
  LET todo == move[r].todo
  IN /\ move[r].at = "idle" <=> todo = <<>>
     /\ \A i \in DOMAIN todo : todo[i][1] \in Live /\ parent[todo[i][1]] = todo[i][2]

\* Either nothing of it hangs from a root, or all of it does and nothing of it is
\* above another: so no visit undoes one before it.
TodoApart(r) ==
  LET todo == move[r].todo
  IN \/ \A i \in DOMAIN todo : ~Rooted(todo[i][1])
     \/ \A i \in DOMAIN todo :
          /\ Rooted(todo[i][1])
          /\ \A j \in DOMAIN todo : i # j => todo[i][1] \notin Above(parent, todo[j][1])

\* The node being visited has its own row only, then its rows again.
VisitOK(r) ==
  LET n == move[r].todo[1][1]
  IN /\ move[r].at = "create" => \A c \in closure : c[2] = n => c[1] = n
     /\ move[r].at = "descend" /\ Rooted(n) => Exact(n)

\* A node with nothing to visit above it has its rows.
CleanExact ==
  \A m \in Live :
    Rooted(m) /\ (\A r \in Requests : \A i \in DOMAIN move[r].todo :
                    move[r].todo[i][1] \notin Above(parent, m)) => Exact(m)

SelfRows == \A n \in Live, d \in Nat : <<n, n, d>> \in closure <=> d = 0

TreeInv ==
  /\ TreeTypeOK
  /\ SelfRows
  /\ \A r \in Requests : TodoOK(r) /\ TodoApart(r) /\ VisitOK(r)
  /\ CleanExact

-----------------------------------------------------------------------------
(* What a parent column leads to.                                           *)

\* Above(column, n) has n and the parents of its nodes, and is the least such set.
LEMMA AboveClosed ==
  ASSUME TreeAssumption, NEW column, IsColumn(column), NEW n \in DOMAIN column
  PROVE  /\ n \in Above(column, n)
         /\ Above(column, n) \subseteq DOMAIN column
         /\ \A m \in Above(column, n) : column[m] \in Above(column, n) \cup {Root}
<1>1. n \in Above(column, n) /\ Above(column, n) \subseteq DOMAIN column
  BY DEF Above
<1>2. ASSUME NEW m \in Above(column, n), column[m] # Root
      PROVE  column[m] \in Above(column, n)
  <2>1. column[m] \in DOMAIN column
    BY <1>1, <1>2 DEF IsColumn
  <2>2. ASSUME NEW S \in SUBSET DOMAIN column, n \in S,
               \A k \in S : column[k] \in S \cup {Root}
        PROVE  column[m] \in S
    <3>1. m \in S
      BY <2>2 DEF Above
    <3> QED
      BY <1>2, <2>2, <3>1
  <2> QED
    BY <2>1, <2>2 DEF Above
<1> QED
  BY <1>1, <1>2

LEMMA AboveLeast ==
  ASSUME NEW column, NEW n, NEW S \in SUBSET DOMAIN column, n \in S,
         \A m \in S : column[m] \in S \cup {Root}
  PROVE  Above(column, n) \subseteq S
BY DEF Above

LEMMA AboveMonotone ==
  ASSUME TreeAssumption, NEW column, IsColumn(column), NEW n \in DOMAIN column,
         NEW a \in Above(column, n)
  PROVE  /\ a \in DOMAIN column
         /\ Above(column, a) \subseteq Above(column, n)
<1>1. /\ Above(column, n) \in SUBSET DOMAIN column
      /\ \A m \in Above(column, n) : column[m] \in Above(column, n) \cup {Root}
  BY AboveClosed
<1> HIDE DEF Above
<1> QED
  BY <1>1, AboveLeast

\* n and what its parent leads to.
LEMMA AboveStep ==
  ASSUME TreeAssumption, NEW column, IsColumn(column), NEW n \in DOMAIN column
  PROVE  /\ column[n] = Root => Above(column, n) = {n}
         /\ column[n] # Root =>
              /\ column[n] \in DOMAIN column
              /\ Above(column, n) = {n} \cup Above(column, column[n])
<1>1. CASE column[n] = Root
  <2> DEFINE S == {n}
  <2>1. Above(column, n) \subseteq S
    <3>1. n \in S /\ S \in SUBSET DOMAIN column /\ \A m \in S : column[m] \in S \cup {Root}
      BY <1>1
    <3> HIDE DEF S
    <3> QED
      BY <3>1, AboveLeast
  <2> QED
    BY <1>1, <2>1, AboveClosed
<1>2. ASSUME column[n] # Root
      PROVE  /\ column[n] \in DOMAIN column
             /\ Above(column, n) = {n} \cup Above(column, column[n])
  <2> DEFINE p == column[n]
  <2>1. p \in Above(column, n) /\ p \in DOMAIN column
    BY <1>2, AboveClosed
  <2>2. Above(column, p) \subseteq Above(column, n)
    BY <2>1, AboveMonotone
  <2>3. /\ p \in Above(column, p) /\ Above(column, p) \subseteq DOMAIN column
        /\ \A m \in Above(column, p) : column[m] \in Above(column, p) \cup {Root}
    BY <2>1, AboveClosed
  <2> HIDE DEF p
  <2> DEFINE S == {n} \cup Above(column, p)
  <2>4. n \in S /\ S \in SUBSET DOMAIN column /\ \A m \in S : column[m] \in S \cup {Root}
    BY <2>3 DEF p
  <2>5. Above(column, n) \subseteq S
    <3> HIDE DEF S
    <3> QED
      BY <2>4, AboveLeast
  <2> QED
    BY <2>1, <2>2, <2>5, AboveClosed DEF p
<1> QED
  BY <1>1, <1>2

\* What is above a node that hangs from a root hangs from it as well.
LEMMA HangsAbove ==
  ASSUME TreeAssumption, NEW column, IsColumn(column), NEW n \in DOMAIN column,
         Hangs(column, n), NEW m \in Above(column, n)
  PROVE  Hangs(column, m)
<1>1. PICK t \in Above(column, n) : column[t] = Root
  BY DEF Hangs
<1> DEFINE S == {k \in Above(column, n) : t \in Above(column, k)}
<1>2. /\ n \in S /\ S \in SUBSET DOMAIN column
  BY <1>1, AboveClosed
<1>3. ASSUME NEW k \in S, column[k] # Root PROVE column[k] \in S
  <2>1. column[k] \in Above(column, n) /\ k \in DOMAIN column
    BY <1>3, AboveClosed
  <2>2. Above(column, k) = {k} \cup Above(column, column[k])
    BY <1>3, <2>1, AboveStep
  <2>3. t \in Above(column, column[k])
    BY <1>1, <1>3, <2>2
  <2> QED
    BY <2>1, <2>3
<1>4. Above(column, n) \subseteq S
  <2> HIDE DEF S
  <2> QED
    BY <1>2, <1>3, AboveLeast
<1> QED
  BY <1>1, <1>4 DEF Hangs

\* A node that hangs from a root is not above its parent.
LEMMA NotAboveParent ==
  ASSUME TreeAssumption, NEW column, IsColumn(column), NEW n \in DOMAIN column,
         Hangs(column, n), column[n] # Root
  PROVE  n \notin Above(column, column[n])
<1> SUFFICES ASSUME n \in Above(column, column[n]) PROVE FALSE
  OBVIOUS
<1>1. PICK t \in Above(column, n) : column[t] = Root
  BY DEF Hangs
<1> DEFINE S == {k \in Above(column, n) : n \in Above(column, k)}
<1>2. n \in S /\ S \in SUBSET DOMAIN column
  BY AboveClosed
<1>3. ASSUME NEW k \in S, column[k] # Root PROVE column[k] \in S
  <2>1. column[k] \in Above(column, n) /\ k \in DOMAIN column
    BY <1>3, AboveClosed
  <2>2. Above(column, k) = {k} \cup Above(column, column[k])
    BY <1>3, <2>1, AboveStep
  <2>3. n \in Above(column, column[k])
    BY <1>3, <2>2
  <2> QED
    BY <2>1, <2>3
<1>4. Above(column, n) \subseteq S
  <2> HIDE DEF S
  <2> QED
    BY <1>2, <1>3, AboveLeast
<1>5. n \in Above(column, t) /\ t \in DOMAIN column
  BY <1>1, <1>4, AboveClosed
<1>6. n = t
  BY <1>1, <1>5, AboveStep
<1> QED
  BY <1>1, <1>6

\* Between a node and another above it is a child of that one.
LEMMA ChildBetween ==
  ASSUME TreeAssumption, NEW column, IsColumn(column), NEW m \in DOMAIN column,
         NEW n \in Above(column, m), n # m
  PROVE  \E k \in Above(column, m) : column[k] = n
<1> SUFFICES ASSUME \A k \in Above(column, m) : column[k] # n PROVE FALSE
  OBVIOUS
<1> DEFINE S == Above(column, m) \ {n}
<1>1. m \in S /\ S \in SUBSET DOMAIN column /\ \A k \in S : column[k] \in S \cup {Root}
  BY AboveClosed
<1>2. Above(column, m) \subseteq S
  <2> HIDE DEF S
  <2> QED
    BY <1>1, AboveLeast
<1> QED
  BY <1>2

\* Two columns that agree on what one of them leads to from m lead to the same.
LEMMA AboveAgrees ==
  ASSUME TreeAssumption, NEW column, NEW other, IsColumn(column), IsColumn(other),
         NEW m \in DOMAIN column, Above(column, m) \subseteq DOMAIN other,
         \A k \in Above(column, m) : other[k] = column[k]
  PROVE  /\ Above(other, m) = Above(column, m)
         /\ Hangs(other, m) <=> Hangs(column, m)
         /\ \A a \in Above(column, m) : Depth(other, m, a) = Depth(column, m, a)
<1>1. ASSUME NEW k \in Above(column, m) PROVE Above(other, k) = Above(column, k)
  <2>1. /\ k \in DOMAIN column /\ Above(column, k) \subseteq Above(column, m)
        /\ k \in Above(column, k)
        /\ \A j \in Above(column, k) : column[j] \in Above(column, k) \cup {Root}
    BY <1>1, AboveMonotone, AboveClosed
  <2>2. Above(column, k) \in SUBSET DOMAIN other /\ k \in DOMAIN other
    BY <2>1
  <2>3. \A j \in Above(column, k) : other[j] \in Above(column, k) \cup {Root}
    BY <2>1
  <2>4. Above(other, k) \subseteq Above(column, k)
    <3> DEFINE S == Above(column, k)
    <3>1. S \in SUBSET DOMAIN other /\ k \in S /\ \A j \in S : other[j] \in S \cup {Root}
      BY <2>1, <2>2, <2>3
    <3> HIDE DEF S
    <3>2. Above(other, k) \subseteq S
      BY <3>1, AboveLeast
    <3> QED
      BY <3>2 DEF S
  <2>5. /\ k \in Above(other, k) /\ Above(other, k) \subseteq DOMAIN other
        /\ \A j \in Above(other, k) : other[j] \in Above(other, k) \cup {Root}
    BY <2>2, AboveClosed
  <2>6. Above(column, k) \subseteq Above(other, k)
    <3> DEFINE S == Above(other, k)
    <3>1. S \in SUBSET DOMAIN column /\ k \in S
      BY <2>1, <2>4, <2>5, AboveClosed
    <3>2. \A j \in S : column[j] \in S \cup {Root}
      BY <2>1, <2>4, <2>5
    <3> HIDE DEF S
    <3>3. Above(column, k) \subseteq S
      BY <3>1, <3>2, AboveLeast
    <3> QED
      BY <3>3 DEF S
  <2> QED
    BY <2>4, <2>6
<1>2. Above(other, m) = Above(column, m)
  BY <1>1, AboveClosed
<1>3. Hangs(other, m) <=> Hangs(column, m)
  BY <1>2 DEF Hangs
<1>4. \A a \in Above(column, m) : Depth(other, m, a) = Depth(column, m, a)
  BY <1>1, <1>2 DEF Depth
<1> QED
  BY <1>2, <1>3, <1>4

\* Depths are one more than those of the parent.
LEMMA DepthStep ==
  ASSUME TreeAssumption, NEW column, IsColumn(column), NEW n \in DOMAIN column
  PROVE  /\ Depth(column, n, n) = 0
         /\ Hangs(column, n) /\ column[n] # Root =>
              \A a \in Above(column, column[n]) :
                /\ Depth(column, column[n], a) \in Nat
                /\ Depth(column, n, a) = Depth(column, column[n], a) + 1
<1>1. Depth(column, n, n) = 0
  BY FS_EmptySet DEF Depth
<1>2. ASSUME Hangs(column, n), column[n] # Root,
             NEW a \in Above(column, column[n])
      PROVE  /\ Depth(column, column[n], a) \in Nat
             /\ Depth(column, n, a) = Depth(column, column[n], a) + 1
  <2> DEFINE p == column[n]
             T == Above(column, p) \ Above(column, a)
  <2>1. p \in DOMAIN column /\ Above(column, n) = {n} \cup Above(column, p)
    BY <1>2, AboveStep
  <2>2. n \notin Above(column, p)
    BY <1>2, NotAboveParent
  <2>3. n \notin Above(column, a)
    BY <1>2, <2>1, <2>2, AboveMonotone
  <2>4. IsFiniteSet(T)
    <3>1. Above(column, p) \subseteq Nodes /\ IsFiniteSet(Nodes)
      BY <2>1, AboveClosed DEF IsColumn, TreeAssumption
    <3> QED
      BY <3>1, FS_Subset
  <2>5. Above(column, n) \ Above(column, a) = T \cup {n} /\ n \notin T
    BY <2>1, <2>2, <2>3
  <2>6. Cardinality(T) \in Nat /\ Cardinality(T \cup {n}) = Cardinality(T) + 1
    <3> HIDE DEF T
    <3> QED
      BY <2>4, <2>5, FS_CardinalityType, FS_AddElement
  <2> QED
    BY <2>5, <2>6 DEF Depth
<1> QED
  BY <1>1, <1>2

-----------------------------------------------------------------------------
(* A visit.                                                                 *)

\* Rows of other nodes say nothing of this one.
LEMMA ExactKept ==
  ASSUME NEW m, Exact(m), parent' = parent,
         \A a \in Nodes, d \in Nat : <<a, m, d>> \in closure' <=> <<a, m, d>> \in closure
  PROVE  Exact(m)'
BY DEF Exact, Depth

\* The rows taken from an exact parent make the node exact.
LEMMA RowsExact ==
  ASSUME TreeAssumption, NEW column, IsColumn(column), NEW n \in DOMAIN column,
         Hangs(column, n), NEW rows, NEW p, p = column[n],
         p # Root =>
           \A a \in Nodes, d \in Nat :
             <<a, p, d>> \in rows <=> a \in Above(column, p) /\ d = Depth(column, p, a),
         NEW a \in Nodes, NEW d \in Nat
  PROVE  ((a = n /\ d = 0) \/ (p # Root /\ d # 0 /\ <<a, p, d - 1>> \in rows))
         <=> (a \in Above(column, n) /\ d = Depth(column, n, a))
<1>1. CASE p = Root
  <2>1. Above(column, n) = {n} /\ Depth(column, n, n) = 0
    BY <1>1, AboveStep, DepthStep
  <2> QED
    BY <1>1, <2>1
<1>2. CASE p # Root
  <2>1. /\ Above(column, n) = {n} \cup Above(column, p) /\ n \notin Above(column, p)
        /\ Depth(column, n, n) = 0
    BY <1>2, AboveStep, NotAboveParent, DepthStep
  <2>2. CASE a = n
    <3>1. d # 0 => <<a, p, d - 1>> \notin rows
      <4>1. d # 0 => d - 1 \in Nat
        OBVIOUS
      <4> QED
        BY <1>2, <2>1, <2>2, <4>1
    <3> QED
      BY <1>2, <2>1, <2>2, <3>1
  <2>3. CASE a # n /\ a \in Above(column, p)
    <3>1. Depth(column, p, a) \in Nat /\ Depth(column, n, a) = Depth(column, p, a) + 1
      BY <1>2, <2>3, DepthStep
    <3>2. d # 0 => (<<a, p, d - 1>> \in rows <=> d - 1 = Depth(column, p, a))
      <4>1. d # 0 => d - 1 \in Nat
        OBVIOUS
      <4> QED
        BY <1>2, <2>3, <4>1
    <3>3. d # 0 /\ d - 1 = Depth(column, p, a) <=> d = Depth(column, n, a)
      BY <3>1
    <3> QED
      BY <1>2, <2>1, <2>3, <3>2, <3>3
  <2>4. CASE a # n /\ a \notin Above(column, p)
    <3>1. d # 0 => <<a, p, d - 1>> \notin rows
      <4>1. d # 0 => d - 1 \in Nat
        OBVIOUS
      <4> QED
        BY <1>2, <2>4, <4>1
    <3> QED
      BY <2>1, <2>4, <3>1
  <2> QED
    BY <2>2, <2>3, <2>4
<1> QED
  BY <1>1, <1>2

\* While a node is visited nothing else moves, and the node has the parent that
\* its rows are taken from.
LEMMA Visited ==
  ASSUME TreeAssumption, TreeInv, OneAtATime, NEW r \in Requests,
         move[r].at # "idle"
  PROVE  /\ move[r].todo \in Seq(Nodes \X (Nodes \cup {Root}))
         /\ move[r].todo # <<>> /\ 1 \in DOMAIN move[r].todo
         /\ move[r].todo[1][1] \in Live
         /\ parent[move[r].todo[1][1]] = move[r].todo[1][2]
         /\ \A q \in Requests \ {r} : move[q] = Idle
<1>1. move[r].todo \in Seq(Nodes \X (Nodes \cup {Root}))
  BY DEF TreeInv, TreeTypeOK
<1>2. TodoOK(r)
  BY DEF TreeInv
<1>3. move[r].todo # <<>>
  BY <1>2 DEF TodoOK
<1>4. 1 \in DOMAIN move[r].todo
  BY <1>1, <1>3
<1>5. move[r] # Idle
  BY DEF Idle
<1> QED
  BY <1>1, <1>2, <1>3, <1>4, <1>5 DEF TodoOK, OneAtATime

LEMMA TodoKept ==
  ASSUME NEW q, move'[q].todo = move[q].todo, parent' = parent,
         move'[q].at = "idle" <=> move[q].at = "idle"
  PROVE  /\ TodoOK(q) => TodoOK(q)'
         /\ TodoApart(q) => TodoApart(q)'
BY DEF TodoOK, TodoApart, Rooted, Live

LEMMA IdleOK ==
  ASSUME NEW q, move'[q] = Idle
  PROVE  TodoOK(q)' /\ TodoApart(q)' /\ VisitOK(q)'
<1>1. move'[q].at = "idle" /\ move'[q].todo = <<>>
  BY DEF Idle
<1>2. DOMAIN <<>> = {}
  OBVIOUS
<1> QED
  BY <1>1, <1>2 DEF TodoOK, TodoApart, VisitOK

LEMMA DeleteRowsStep ==
  ASSUME TreeAssumption, TreeInv, OneAtATime, NEW r \in Requests, DeleteRows(r)
  PROVE  TreeInv'
<1> DEFINE n == move[r].todo[1][1]
<1>1. /\ move[r].at = "delete"
      /\ closure' = {c \in closure : c[2] = n => c[1] = n}
      /\ move' = [move EXCEPT ![r].at = "create"]
      /\ UNCHANGED <<unborn, parent, files, removing>>
  BY DEF DeleteRows
<1>2. /\ TreeTypeOK /\ SelfRows /\ CleanExact
      /\ \A q \in Requests : TodoOK(q) /\ TodoApart(q) /\ VisitOK(q)
  BY DEF TreeInv
<1>3. /\ n \in Live /\ 1 \in DOMAIN move[r].todo
      /\ \A q \in Requests \ {r} : move[q] = Idle
  BY <1>1, Visited
<1>4. /\ move'[r].at = "create"
      /\ \A q \in Requests : move'[q].todo = move[q].todo
      /\ \A q \in Requests \ {r} : move'[q] = Idle
      /\ move' \in [Requests -> [at : {"idle", "delete", "create", "descend"},
                                 todo : Seq(Nodes \X (Nodes \cup {Root}))]]
  BY <1>1, <1>2, <1>3 DEF TreeTypeOK
<1> HIDE DEF n
<1>5. TreeTypeOK'
  BY <1>1, <1>2, <1>4 DEF TreeTypeOK, IsColumn, Live
<1>6. SelfRows'
  BY <1>1, <1>2 DEF SelfRows, Live
<1>7. \A q \in Requests : TodoOK(q)' /\ TodoApart(q)'
  BY <1>1, <1>2, <1>4, TodoKept, IdleOK
<1>8. \A q \in Requests : VisitOK(q)'
  <2>1. VisitOK(r)'
    <3>1. move'[r].todo[1][1] = n
      BY <1>4 DEF n
    <3> QED
      BY <1>1, <1>4, <3>1 DEF VisitOK
  <2> QED
    BY <1>4, <2>1, IdleOK
<1>9. CleanExact'
  <2> SUFFICES ASSUME NEW m \in Live, Rooted(m),
                      \A q \in Requests : \A i \in DOMAIN move[q].todo :
                        move[q].todo[i][1] \notin Above(parent, m)
               PROVE  Exact(m)'
    BY <1>1, <1>4 DEF CleanExact, Rooted, Live
  <2>1. Exact(m)
    BY <1>2 DEF CleanExact
  <2>2. m # n
    BY <1>2, <1>3, AboveClosed DEF n, TreeTypeOK, Live
  <2> QED
    BY <1>1, <2>1, <2>2, ExactKept
<1> QED
  BY <1>5, <1>6, <1>7, <1>8, <1>9 DEF TreeInv

\* The parent that a visit of a node below a root takes rows from has them.
LEMMA ParentExact ==
  ASSUME TreeAssumption, TreeInv, OneAtATime, NEW r \in Requests,
         move[r].at # "idle", NEW n, n = move[r].todo[1][1], Rooted(n), parent[n] # Root
  PROVE  /\ parent[n] \in Live /\ n \notin Above(parent, parent[n])
         /\ Exact(parent[n])
<1> DEFINE p == parent[n]
<1>1. /\ n \in Live /\ 1 \in DOMAIN move[r].todo /\ IsColumn(parent)
      /\ \A q \in Requests \ {r} : move[q] = Idle
      /\ Hangs(parent, n)
  BY Visited DEF TreeInv, TreeTypeOK, Rooted, Hangs
<1>2. /\ p \in Live /\ n \notin Above(parent, p) /\ p \in Above(parent, n)
      /\ Above(parent, p) \subseteq Above(parent, n)
  BY <1>1, AboveStep, NotAboveParent, AboveClosed, AboveMonotone DEF Live
<1>3. Rooted(p)
  BY <1>1, <1>2, HangsAbove DEF Rooted, Hangs, Live
<1>4. ASSUME NEW q \in Requests, NEW i \in DOMAIN move[q].todo
      PROVE  move[q].todo[i][1] \notin Above(parent, p)
  <2>1. q = r
    <3>1. DOMAIN <<>> = {}
      OBVIOUS
    <3> QED
      BY <1>1, <1>4, <3>1 DEF Idle
  <2>2. i # 1 => move[r].todo[i][1] \notin Above(parent, n)
    <3>1. TodoApart(r)
      BY DEF TreeInv
    <3> QED
      BY <1>1, <1>4, <2>1, <3>1 DEF TodoApart
  <2> QED
    BY <1>2, <2>1, <2>2
<1>5. Exact(p)
  BY <1>2, <1>3, <1>4 DEF TreeInv, CleanExact
<1> QED
  BY <1>2, <1>5

LEMMA RowsMember ==
  ASSUME TreeAssumption, TreeTypeOK, NEW n, NEW p
  PROVE  /\ \A a, k, d : <<a, k, d>> \in Rows(n, p) =>
              k = n /\ d \in Nat /\ d # 0 /\ <<a, p, d - 1>> \in closure
         /\ \A a \in Nodes, d \in Nat : d # 0 /\ <<a, p, d - 1>> \in closure => <<a, n, d>> \in Rows(n, p)
         /\ p = Root => Rows(n, p) = {}
         /\ n \in Live => Rows(n, p) \subseteq Live \X Live \X Nat
<1>1. closure \subseteq Live \X Live \X Nat /\ Root \notin Live
  BY DEF TreeTypeOK, TreeAssumption, IsColumn, Live
<1>2. ASSUME NEW c \in Rows(n, p)
      PROVE  /\ c = <<c[1], n, c[3]>> /\ c[1] \in Live /\ c[3] \in Nat /\ c[3] # 0
             /\ <<c[1], p, c[3] - 1>> \in closure /\ p \in Live
  <2>1. PICK b \in closure : b[2] = p /\ c = <<b[1], n, b[3] + 1>>
    BY <1>2 DEF Rows
  <2>2. b \in Live \X Live \X Nat
    BY <1>1, <2>1
  <2>3. b[3] + 1 # 0 /\ b[3] + 1 \in Nat /\ (b[3] + 1) - 1 = b[3]
    BY <2>2
  <2>4. b = <<b[1], p, b[3]>> /\ b[1] \in Live /\ p \in Live
    BY <2>1, <2>2
  <2> QED
    BY <2>1, <2>3, <2>4
<1>3. ASSUME NEW a, NEW d \in Nat, d # 0, <<a, p, d - 1>> \in closure
      PROVE  <<a, n, d>> \in Rows(n, p)
  <2> DEFINE b == <<a, p, d - 1>>
  <2>1. b \in closure /\ b[2] = p /\ b[1] = a /\ b[3] + 1 = d
    BY <1>3
  <2> HIDE DEF b
  <2>2. <<a, n, d>> = <<b[1], n, b[3] + 1>>
    BY <2>1
  <2> QED
    BY <2>1, <2>2 DEF Rows
<1>4. ASSUME n \in Live, NEW c \in Rows(n, p) PROVE c \in Live \X Live \X Nat
  <2>1. c = <<c[1], n, c[3]>> /\ c[1] \in Live /\ c[3] \in Nat
    BY <1>2, <1>4
  <2> QED
    BY <1>4, <2>1
<1>5. p = Root => Rows(n, p) = {}
  BY <1>1, <1>2
<1>6. \A a, k, d : <<a, k, d>> \in Rows(n, p) =>
        k = n /\ d \in Nat /\ d # 0 /\ <<a, p, d - 1>> \in closure
  <2> SUFFICES ASSUME NEW a, NEW k, NEW d, <<a, k, d>> \in Rows(n, p)
               PROVE  k = n /\ d \in Nat /\ d # 0 /\ <<a, p, d - 1>> \in closure
    OBVIOUS
  <2> DEFINE c == <<a, k, d>>
  <2>1. c[1] = a /\ c[2] = k /\ c[3] = d /\ c \in Rows(n, p)
    OBVIOUS
  <2> HIDE DEF c
  <2>2. /\ c = <<c[1], n, c[3]>> /\ c[3] \in Nat /\ c[3] # 0
        /\ <<c[1], p, c[3] - 1>> \in closure
    BY <1>2, <2>1
  <2>3. c[2] = n
    BY <2>2
  <2> QED
    BY <2>1, <2>2, <2>3
<1> QED
  BY <1>3, <1>4, <1>5, <1>6

LEMMA RowsOf ==
  ASSUME NEW n, NEW p, NEW c \in Rows(n, p)
  PROVE  c[2] = n
BY DEF Rows

LEMMA CreateRowsStep ==
  ASSUME TreeAssumption, TreeInv, OneAtATime, NEW r \in Requests, CreateRows(r)
  PROVE  TreeInv'
<1>0. PICK n, p : n = move[r].todo[1][1] /\ p = move[r].todo[1][2]
  OBVIOUS
<1> DEFINE rows == Rows(n, p)
<1>1. /\ move[r].at = "create"
      /\ UNCHANGED <<unborn, parent, files, removing>>
      /\ \/ /\ Accepted(rows)
            /\ closure' = closure \cup rows
            /\ move' = [move EXCEPT ![r].at = "descend"]
         \/ /\ ~Accepted(rows)
            /\ closure' = closure
            /\ move' = [move EXCEPT ![r] = Idle]
  BY <1>0 DEF CreateRows
<1>2. /\ TreeTypeOK /\ SelfRows /\ CleanExact
      /\ \A q \in Requests : TodoOK(q) /\ TodoApart(q) /\ VisitOK(q)
  BY DEF TreeInv
<1>3. /\ n \in Live /\ 1 \in DOMAIN move[r].todo /\ p = parent[n]
      /\ \A q \in Requests \ {r} : move[q] = Idle
      /\ IsColumn(parent) /\ Root \notin Live /\ Live \subseteq Nodes
      /\ closure \subseteq Live \X Live \X Nat
  BY <1>0, <1>1, <1>2, Visited DEF TreeTypeOK, TreeAssumption, IsColumn, Live
<1>4. /\ \A a, k, d : <<a, k, d>> \in rows =>
           k = n /\ d \in Nat /\ d # 0 /\ <<a, p, d - 1>> \in closure
      /\ \A a \in Nodes, d \in Nat : d # 0 /\ <<a, p, d - 1>> \in closure => <<a, n, d>> \in rows
      /\ p = Root => rows = {}
      /\ rows \subseteq Live \X Live \X Nat
  BY <1>2, <1>3, RowsMember
<1>5. \A c \in closure : c[2] = n => c[1] = n
  BY <1>0, <1>1, <1>2 DEF VisitOK
<1>6. Rooted(n) /\ p # Root => p \in Live /\ n \notin Above(parent, p) /\ Exact(p)
  BY <1>0, <1>1, <1>3, ParentExact
<1>7. Rooted(n) => Hangs(parent, n)
  BY DEF Rooted, Hangs
<1>8. <<n, n, 0>> \in closure
  BY <1>2, <1>3 DEF SelfRows
<1> HIDE DEF rows
<1>9. CASE Accepted(rows)
  <2>1. /\ closure' = closure \cup rows
        /\ move' = [move EXCEPT ![r].at = "descend"]
    BY <1>1, <1>9
  <2>2. /\ move'[r].at = "descend"
        /\ \A q \in Requests : move'[q].todo = move[q].todo
        /\ \A q \in Requests \ {r} : move'[q] = Idle
        /\ move' \in [Requests -> [at : {"idle", "delete", "create", "descend"},
                                   todo : Seq(Nodes \X (Nodes \cup {Root}))]]
    BY <1>2, <1>3, <2>1 DEF TreeTypeOK
  <2>3. TreeTypeOK'
    BY <1>1, <1>2, <1>4, <2>1, <2>2 DEF TreeTypeOK, IsColumn, Live
  <2>4. \A d : <<n, n, d>> \notin rows
    <3> SUFFICES ASSUME NEW c \in rows, c[1] = n, c[2] = n PROVE FALSE
      OBVIOUS
    <3> QED
      BY <1>8, <1>9 DEF Accepted
  <2>5. SelfRows'
    BY <1>1, <1>2, <1>4, <2>1, <2>4 DEF SelfRows, Live
  <2>6. \A q \in Requests : TodoOK(q)' /\ TodoApart(q)'
    BY <1>1, <1>2, <2>2, TodoKept, IdleOK
  <2>7. Rooted(n) => Exact(n)'
    <3> SUFFICES ASSUME Rooted(n), NEW a \in Nodes, NEW d \in Nat
                 PROVE  <<a, n, d>> \in closure' <=>
                          a \in Above(parent, n) /\ d = Depth(parent, n, a)
      BY <1>1 DEF Exact, Depth
    <3>1. ((a = n /\ d = 0) \/ (p # Root /\ d # 0 /\ <<a, p, d - 1>> \in closure))
          <=> (a \in Above(parent, n) /\ d = Depth(parent, n, a))
      <4>1. p # Root =>
              \A b \in Nodes, e \in Nat :
                <<b, p, e>> \in closure <=> b \in Above(parent, p) /\ e = Depth(parent, p, b)
        BY <1>6 DEF Exact
      <4> QED
        BY <1>3, <1>7, <4>1, RowsExact DEF Live
    <3>2. <<a, n, d>> \in closure <=> a = n /\ d = 0
      <4>1. <<a, n, d>> \in closure => a = n
        BY <1>5
      <4>2. <<n, n, d>> \in closure <=> d = 0
        BY <1>2, <1>3 DEF SelfRows
      <4> QED
        BY <4>1, <4>2
    <3>3. <<a, n, d>> \in rows <=> p # Root /\ d # 0 /\ <<a, p, d - 1>> \in closure
      <4> QED
        BY <1>4
    <3> QED
      BY <2>1, <3>1, <3>2, <3>3
  <2>8. \A q \in Requests : VisitOK(q)'
    <3>1. VisitOK(r)'
      <4>1. move'[r].todo[1][1] = n /\ (Rooted(n)' <=> Rooted(n))
        BY <1>0, <1>1, <2>2 DEF Rooted
      <4> QED
        BY <2>2, <2>7, <4>1 DEF VisitOK, Exact, Depth
    <3> QED
      BY <2>2, <3>1, IdleOK
  <2>9. CleanExact'
    <3> SUFFICES ASSUME NEW m \in Live, Rooted(m),
                        \A q \in Requests : \A i \in DOMAIN move[q].todo :
                          move[q].todo[i][1] \notin Above(parent, m)
                 PROVE  Exact(m)'
      BY <1>1, <2>2 DEF CleanExact, Rooted, Live
    <3>1. Exact(m)
      BY <1>2 DEF CleanExact
    <3>2. m # n
      BY <1>0, <1>3, AboveClosed DEF Live
    <3>3. \A a, d : <<a, m, d>> \notin rows
      <4> SUFFICES ASSUME NEW c \in rows, c[2] = m PROVE FALSE
        OBVIOUS
      <4> QED
        BY <3>2, RowsOf DEF rows
    <3> QED
      BY <1>1, <2>1, <3>1, <3>3, ExactKept
  <2> QED
    BY <2>3, <2>5, <2>6, <2>8, <2>9 DEF TreeInv
<1>10. CASE ~Accepted(rows)
  <2>1. /\ closure' = closure
        /\ move' = [move EXCEPT ![r] = Idle]
    BY <1>1, <1>10
  <2>2. /\ \A q \in Requests : move'[q] = Idle
        /\ \A q \in Requests : DOMAIN move'[q].todo = {}
    BY <1>2, <1>3, <2>1 DEF TreeTypeOK, Idle
  <2>3. move' \in [Requests -> [at : {"idle", "delete", "create", "descend"},
                                todo : Seq(Nodes \X (Nodes \cup {Root}))]]
    BY <1>2, <2>1 DEF TreeTypeOK, Idle
  <2>4. TreeTypeOK' /\ SelfRows'
    BY <1>1, <1>2, <2>1, <2>3 DEF TreeTypeOK, SelfRows, IsColumn, Live
  <2>5. \A q \in Requests : TodoOK(q)' /\ TodoApart(q)' /\ VisitOK(q)'
    BY <2>2, IdleOK
  <2>6. ~Rooted(n)
    <3> SUFFICES ASSUME Rooted(n) PROVE Accepted(rows)
      BY <1>10
    <3>1. ASSUME NEW c \in rows
          PROVE  /\ c[1] \in Live /\ c[2] = n /\ c[1] # n
      <4>1. /\ c \in Live \X Live \X Nat /\ c = <<c[1], c[2], c[3]>>
        BY <1>4, <3>1
      <4>2. c[2] = n /\ c[3] \in Nat /\ c[3] # 0 /\ <<c[1], p, c[3] - 1>> \in closure
        BY <1>4, <3>1, <4>1
      <4>3. p # Root
        BY <1>4, <3>1
      <4>4. c[1] \in Above(parent, p)
        <5>1. c[3] - 1 \in Nat /\ c[1] \in Nodes
          BY <1>3, <4>1, <4>2
        <5> QED
          BY <1>6, <4>2, <4>3, <5>1 DEF Exact
      <4> QED
        BY <1>6, <4>1, <4>2, <4>3, <4>4
    <3>2. \A c \in rows : ~\E b \in closure : b[1] = c[1] /\ b[2] = c[2]
      BY <1>5, <3>1
    <3> QED
      BY <1>3, <3>1, <3>2 DEF Accepted
  <2>7. CleanExact'
    <3> SUFFICES ASSUME NEW m \in Live, Rooted(m) PROVE Exact(m)
      BY <1>1, <2>1 DEF CleanExact, Rooted, Live, Exact, Depth
    <3>1. Hangs(parent, m)
      BY DEF Rooted, Hangs
    <3>2. ASSUME NEW q \in Requests, NEW i \in DOMAIN move[q].todo
          PROVE  move[q].todo[i][1] \notin Above(parent, m)
      <4>1. q = r
        BY <1>3, <3>2 DEF Idle
      <4>2. ~Rooted(move[r].todo[i][1])
        BY <1>0, <1>2, <1>3, <2>6, <3>2, <4>1 DEF TodoApart
      <4> QED
        BY <1>3, <3>1, <4>1, <4>2, HangsAbove DEF Rooted, Hangs, Live
    <3> QED
      BY <1>2, <3>2 DEF CleanExact
  <2> QED
    BY <2>4, <2>5, <2>7 DEF TreeInv
<1> QED
  BY <1>9, <1>10

\* A list without its first entry, behind k new ones.
LEMMA TodoList ==
  ASSUME NEW S, NEW todo \in Seq(S), todo # <<>>, NEW k \in Nat,
         NEW new, new \in [1 .. k -> S]
  PROVE  LET next == new \o Tail(todo)
         IN /\ next \in Seq(S)
            /\ \A i \in DOMAIN next :
                 \/ i \in 1 .. k /\ next[i] = new[i]
                 \/ /\ i \notin 1 .. k /\ (i - k) + 1 \in DOMAIN todo \ {1}
                    /\ next[i] = todo[(i - k) + 1]
            /\ \A i \in 1 .. k : i \in DOMAIN next /\ next[i] = new[i]
            /\ \A j \in DOMAIN todo \ {1} : \E i \in DOMAIN next : next[i] = todo[j]
<1> DEFINE tail == Tail(todo)
           next == new \o tail
<1>1. /\ tail \in Seq(S) /\ Len(tail) = Len(todo) - 1
      /\ DOMAIN todo = 1 .. Len(todo) /\ Len(todo) \in Nat
  BY HeadTailProperties, LenProperties
<1>2. \A i \in 1 .. Len(tail) : tail[i] = todo[i + 1]
  <2>1. \A i \in 1 .. Len(todo) - 1 : Tail(todo)[i] = todo[i + 1]
    OBVIOUS
  <2> QED
    BY <1>1, <2>1
<1>3. new \in Seq(S) /\ Len(new) = k /\ DOMAIN new = 1 .. k
  OBVIOUS
<1> HIDE DEF tail
<1>4. /\ next \in Seq(S) /\ Len(next) = k + Len(tail)
      /\ \A i \in 1 .. k + Len(tail) :
           next[i] = IF i <= k THEN new[i] ELSE tail[i - k]
  BY <1>1, <1>3, ConcatProperties
<1> HIDE DEF next
<1>5. PICK t \in Nat : Len(tail) = t /\ Len(todo) = t + 1
  BY <1>1, LenProperties
<1>6. DOMAIN next = 1 .. k + t /\ DOMAIN todo = 1 .. t + 1
  BY <1>1, <1>4, <1>5, LenProperties
<1>7. /\ \A i \in 1 .. t : tail[i] = todo[i + 1]
      /\ \A i \in 1 .. k + t : next[i] = IF i <= k THEN new[i] ELSE tail[i - k]
  BY <1>2, <1>4, <1>5
<1>8. ASSUME NEW i \in 1 .. k + t
      PROVE  \/ i \in 1 .. k /\ next[i] = new[i]
             \/ /\ i \notin 1 .. k /\ (i - k) + 1 \in (1 .. t + 1) \ {1}
                /\ next[i] = todo[(i - k) + 1]
  <2>1. CASE i <= k
    <3>1. i \in 1 .. k
      BY <2>1
    <3> QED
      BY <1>7, <2>1, <3>1
  <2>2. CASE ~(i <= k)
    <3>1. i - k \in 1 .. t /\ (i - k) + 1 \in (1 .. t + 1) \ {1} /\ i \notin 1 .. k
      BY <2>2
    <3>2. next[i] = tail[i - k]
      BY <1>7, <2>2
    <3> QED
      BY <1>7, <3>1, <3>2
  <2> QED
    BY <2>1, <2>2
<1>9. ASSUME NEW i \in 1 .. k PROVE i \in 1 .. k + t /\ next[i] = new[i]
  <2>1. i \in 1 .. k + t /\ i <= k
    OBVIOUS
  <2> QED
    BY <1>7, <2>1
<1>10. ASSUME NEW j \in (1 .. t + 1) \ {1} PROVE \E i \in 1 .. k + t : next[i] = todo[j]
  <2> DEFINE i == k + (j - 1)
  <2>1. i \in 1 .. k + t /\ ~(i <= k) /\ i - k = j - 1 /\ j - 1 \in 1 .. t
        /\ (j - 1) + 1 = j
    OBVIOUS
  <2> HIDE DEF i
  <2>2. next[i] = todo[j]
    BY <1>7, <2>1
  <2> QED
    BY <2>1, <2>2
<1> QED
  BY <1>4, <1>6, <1>8, <1>9, <1>10 DEF next, tail

\* The children that are visited next are all of them, each once.
LEMMA ChildrenOnce ==
  ASSUME NEW C, IsFiniteSet(C), NEW s \in [1 .. Cardinality(C) -> C], IsInjective(s)
  PROVE  \A m \in C : \E i \in 1 .. Cardinality(C) : s[i] = m
<1>1. Cardinality(C) \in Nat
  BY FS_CardinalityType
<1>2. Cardinality(1 .. Cardinality(C)) = Cardinality(C)
  BY <1>1, FS_Interval
<1>3. s \in Injection(1 .. Cardinality(C), C)
  BY DEF Injection
<1>4. s \in Surjection(1 .. Cardinality(C), C)
  BY <1>2, <1>3, FS_Injection
<1> QED
  BY <1>4 DEF Surjection

\* The children of a node that hangs from a root are apart, and apart from what the
\* node is apart from.
LEMMA ChildrenApart ==
  ASSUME TreeAssumption, IsColumn(parent), NEW n \in Live, Rooted(n),
         NEW k \in Children(n)
  PROVE  /\ k \in Live /\ Rooted(k) /\ n \in Above(parent, k)
         /\ \A l \in Children(n) : l # k => k \notin Above(parent, l)
         /\ \A e \in Live : n \notin Above(parent, e) /\ e \notin Above(parent, n)
                              => e \notin Above(parent, k) /\ k \notin Above(parent, e)
<1>1. /\ n \in DOMAIN parent /\ n # Root /\ Hangs(parent, n)
      /\ \A l \in Children(n) : l \in DOMAIN parent /\ parent[l] = n
  BY DEF Live, Children, IsColumn, TreeAssumption, Rooted, Hangs
<1>2. \A l \in Children(n) : Above(parent, l) = {l} \cup Above(parent, n)
  BY <1>1, AboveStep
<1>3. n \in Above(parent, n)
  BY <1>1, AboveClosed
<1>4. Hangs(parent, k)
  BY <1>1, <1>2 DEF Hangs
<1>5. k \notin Above(parent, n)
  BY <1>1, <1>4, NotAboveParent
<1>6. ASSUME NEW e \in Live, k \in Above(parent, e) PROVE n \in Above(parent, e)
  <2>1. e \in DOMAIN parent
    BY DEF Live
  <2>2. Above(parent, k) \subseteq Above(parent, e)
    BY <1>6, <2>1, AboveMonotone
  <2> QED
    BY <1>2, <1>3, <2>2
<1>7. ASSUME NEW e \in Live, n \notin Above(parent, e), e \notin Above(parent, n)
      PROVE  e \notin Above(parent, k) /\ k \notin Above(parent, e)
  <2>1. k \notin Above(parent, e)
    BY <1>6, <1>7
  <2>2. e # k
    BY <1>2, <1>3, <1>7
  <2> QED
    BY <1>2, <1>7, <2>1, <2>2
<1> QED
  BY <1>1, <1>2, <1>3, <1>4, <1>5, <1>7 DEF Live, Rooted, Hangs

LEMMA DescendStep ==
  ASSUME TreeAssumption, TreeInv, OneAtATime, NEW r \in Requests, Descend(r)
  PROVE  TreeInv'
<1> DEFINE todo == move[r].todo
           n == todo[1][1]
           C == Children(n)
           len == Cardinality(C)
<1>1. /\ move[r].at = "descend"
      /\ UNCHANGED <<unborn, parent, closure, files, removing>>
  BY DEF Descend
<1>2. PICK s \in [1 .. len -> C] :
        /\ IsInjective(s)
        /\ LET next == [i \in DOMAIN s |-> <<s[i], n>>] \o Tail(todo)
           IN move' = [move EXCEPT ![r] = IF next = <<>> THEN Idle
                                          ELSE [at |-> "delete", todo |-> next]]
  BY DEF Descend
<1> DEFINE new == [i \in 1 .. len |-> <<s[i], n>>]
           next == new \o Tail(todo)
<1>3. /\ TreeTypeOK /\ SelfRows /\ CleanExact /\ IsColumn(parent)
      /\ \A q \in Requests : TodoOK(q) /\ TodoApart(q) /\ VisitOK(q)
  BY DEF TreeInv, TreeTypeOK
<1>4. /\ n \in Live /\ 1 \in DOMAIN todo /\ todo # <<>>
      /\ todo \in Seq(Nodes \X (Nodes \cup {Root}))
      /\ \A q \in Requests \ {r} : move[q] = Idle
  BY <1>1, Visited
<1>5. Live \subseteq Nodes /\ C \subseteq Live /\ \A k \in C : parent[k] = n
  BY <1>3 DEF IsColumn, Live, Children
<1>6. IsFiniteSet(C) /\ len \in Nat
  BY <1>5, FS_Subset, FS_CardinalityType DEF TreeAssumption
<1>7. /\ new \in [1 .. len -> Nodes \X (Nodes \cup {Root})]
      /\ \A i \in 1 .. len : new[i][1] = s[i] /\ new[i][2] = n /\ s[i] \in C
  BY <1>4, <1>5
<1>8. \A i, j \in 1 .. len : i # j => s[i] # s[j]
  BY <1>2 DEF IsInjective
<1>9. \A k \in C : \E i \in 1 .. len : s[i] = k
  BY <1>2, <1>6, ChildrenOnce
<1>10. move' = [move EXCEPT ![r] = IF next = <<>> THEN Idle
                                   ELSE [at |-> "delete", todo |-> next]]
  BY <1>2
<1> DEFINE E == Nodes \X (Nodes \cup {Root})
<1> HIDE DEF new, next, todo, n, C, len, E
<1>11. /\ next \in Seq(E)
       /\ \A i \in DOMAIN next :
            \/ i \in 1 .. len /\ next[i] = new[i]
            \/ /\ i \notin 1 .. len /\ (i - len) + 1 \in DOMAIN todo \ {1}
               /\ next[i] = todo[(i - len) + 1]
       /\ \A i \in 1 .. len : i \in DOMAIN next /\ next[i] = new[i]
       /\ \A j \in DOMAIN todo \ {1} : \E i \in DOMAIN next : next[i] = todo[j]
  <2>1. todo \in Seq(E) /\ new \in [1 .. len -> E]
    BY <1>4, <1>7 DEF E
  <2> QED
    BY <1>4, <1>6, <2>1, TodoList DEF next
<1>12. /\ move'[r].todo = next
       /\ move'[r].at = "idle" <=> next = <<>>
       /\ move'[r].at \in {"idle", "delete"}
       /\ \A q \in Requests \ {r} : move'[q] = Idle
  BY <1>3, <1>4, <1>10 DEF TreeTypeOK, Idle
<1>13. move' \in [Requests -> [at : {"idle", "delete", "create", "descend"},
                               todo : Seq(Nodes \X (Nodes \cup {Root}))]]
  BY <1>3, <1>10, <1>11 DEF TreeTypeOK, Idle, E
<1>14. TreeTypeOK' /\ SelfRows'
  BY <1>1, <1>3, <1>13 DEF TreeTypeOK, SelfRows, IsColumn, Live
<1>15. \A j \in DOMAIN todo : todo[j][1] \in Live /\ parent[todo[j][1]] = todo[j][2]
  BY <1>3 DEF TodoOK, todo
<1>16. \A i \in DOMAIN next :
         \/ next[i][1] \in C /\ next[i][2] = n
         \/ \E j \in DOMAIN todo \ {1} : next[i] = todo[j]
  <2> SUFFICES ASSUME NEW i \in DOMAIN next
               PROVE  \/ next[i][1] \in C /\ next[i][2] = n
                      \/ \E j \in DOMAIN todo \ {1} : next[i] = todo[j]
    OBVIOUS
  <2>1. CASE i \in 1 .. len /\ next[i] = new[i]
    <3>1. new[i][1] \in C /\ new[i][2] = n
      BY <1>7, <2>1
    <3> QED
      BY <2>1, <3>1
  <2>2. CASE ~(i \in 1 .. len /\ next[i] = new[i])
    <3>1. (i - len) + 1 \in DOMAIN todo \ {1} /\ next[i] = todo[(i - len) + 1]
      BY <1>11, <2>2
    <3> QED
      BY <3>1
  <2> QED
    BY <2>1, <2>2
<1>17. TodoOK(r)'
  <2>1. \A i \in DOMAIN next : next[i][1] \in Live /\ parent[next[i][1]] = next[i][2]
    <3> SUFFICES ASSUME NEW i \in DOMAIN next
                 PROVE  next[i][1] \in Live /\ parent[next[i][1]] = next[i][2]
      OBVIOUS
    <3>1. CASE next[i][1] \in C /\ next[i][2] = n
      BY <1>5, <3>1
    <3>2. ASSUME NEW j \in DOMAIN todo, next[i] = todo[j]
          PROVE  next[i][1] \in Live /\ parent[next[i][1]] = next[i][2]
      BY <1>15, <3>2
    <3> QED
      BY <1>16, <3>1, <3>2
  <2> QED
    BY <1>1, <1>12, <2>1 DEF TodoOK, Live
<1>18. ASSUME ~Rooted(n) PROVE \A i \in DOMAIN next : ~Rooted(next[i][1])
  <2>1. \A j \in DOMAIN todo : ~Rooted(todo[j][1])
    BY <1>3, <1>4, <1>18 DEF TodoApart, todo, n
  <2>2. \A k \in C : ~Rooted(k)
    <3> SUFFICES ASSUME NEW k \in C, Rooted(k) PROVE Rooted(n)
      BY <1>18
    <3>1. k \in DOMAIN parent /\ Hangs(parent, k) /\ parent[k] = n /\ n # Root
      BY <1>3, <1>4, <1>5 DEF Rooted, Hangs, Live, TreeAssumption, IsColumn
    <3>2. n \in Above(parent, k)
      BY <1>3, <3>1, AboveClosed
    <3> QED
      BY <1>3, <3>1, <3>2, HangsAbove DEF Rooted, Hangs
  <2> QED
    BY <1>16, <2>1, <2>2
<1>19. ASSUME Rooted(n)
       PROVE  \A i \in DOMAIN next :
                /\ Rooted(next[i][1])
                /\ \A j \in DOMAIN next : i # j => next[i][1] \notin Above(parent, next[j][1])
  <2>1. \A i \in DOMAIN todo :
          /\ Rooted(todo[i][1])
          /\ \A j \in DOMAIN todo : i # j => todo[i][1] \notin Above(parent, todo[j][1])
    BY <1>3, <1>4, <1>19 DEF TodoApart, todo, n
  <2>2. \A k \in C :
          /\ Rooted(k)
          /\ \A l \in C : l # k => k \notin Above(parent, l)
          /\ \A e \in Live : n \notin Above(parent, e) /\ e \notin Above(parent, n)
                               => e \notin Above(parent, k) /\ k \notin Above(parent, e)
    BY <1>3, <1>4, <1>19, ChildrenApart DEF C
  <2>3. \A j \in DOMAIN todo \ {1} :
          /\ todo[j][1] \in Live
          /\ n \notin Above(parent, todo[j][1]) /\ todo[j][1] \notin Above(parent, n)
    BY <1>4, <1>15, <2>1 DEF n
  <2>4. ASSUME NEW i \in DOMAIN next PROVE Rooted(next[i][1])
    BY <1>16, <2>1, <2>2, <2>4
  <2>5. ASSUME NEW i \in DOMAIN next, NEW j \in DOMAIN next, i # j
        PROVE  next[i][1] \notin Above(parent, next[j][1])
    <3>1. CASE i \in 1 .. len /\ j \in 1 .. len
      BY <1>7, <1>8, <1>11, <2>2, <2>5, <3>1
    <3>2. CASE i \in 1 .. len /\ j \notin 1 .. len
      BY <1>7, <1>11, <2>2, <2>3, <2>5, <3>2
    <3>3. CASE i \notin 1 .. len /\ j \in 1 .. len
      BY <1>7, <1>11, <2>2, <2>3, <2>5, <3>3
    <3>4. CASE i \notin 1 .. len /\ j \notin 1 .. len
      <4>1. i \in Int /\ j \in Int
        BY <1>11, LenProperties
      <4>2. (i - len) + 1 # (j - len) + 1
        BY <1>6, <2>5, <4>1
      <4> QED
        BY <1>11, <2>1, <2>5, <3>4, <4>2
    <3> QED
      BY <3>1, <3>2, <3>3, <3>4
  <2> QED
    BY <2>4, <2>5
<1>20. TodoApart(r)'
  BY <1>1, <1>12, <1>18, <1>19 DEF TodoApart, Rooted
<1>21. \A q \in Requests : TodoOK(q)' /\ TodoApart(q)' /\ VisitOK(q)'
  <2>1. VisitOK(r)'
    BY <1>12 DEF VisitOK
  <2> QED
    BY <1>12, <1>17, <1>20, <2>1, IdleOK
<1>22. CleanExact'
  <2> SUFFICES ASSUME NEW m \in Live, Rooted(m),
                      \A q \in Requests : \A i \in DOMAIN move'[q].todo :
                        move'[q].todo[i][1] \notin Above(parent, m)
               PROVE  Exact(m)
    BY <1>1 DEF CleanExact, Rooted, Live, Exact, Depth
  <2>1. \A i \in DOMAIN next : next[i][1] \notin Above(parent, m)
    BY <1>12
  <2>2. \A k \in C : k \notin Above(parent, m)
    BY <1>7, <1>9, <1>11, <2>1
  <2>3. \A j \in DOMAIN todo \ {1} : todo[j][1] \notin Above(parent, m)
    BY <1>11, <2>1
  <2>4. CASE n \in Above(parent, m)
    <3>1. n = m
      <4>1. m \in DOMAIN parent /\ Above(parent, m) \subseteq DOMAIN parent
        BY <1>3, AboveClosed DEF Live
      <4>2. n # m => \E k \in Above(parent, m) : parent[k] = n
        BY <1>3, <2>4, <4>1, ChildBetween
      <4> QED
        BY <2>2, <4>1, <4>2 DEF C, Children, Live
    <3> QED
      BY <1>1, <1>3, <3>1 DEF VisitOK, n, todo
  <2>5. CASE n \notin Above(parent, m)
    <3>1. \A q \in Requests : \A i \in DOMAIN move[q].todo :
            move[q].todo[i][1] \notin Above(parent, m)
      <4>1. \A i \in DOMAIN move[r].todo : move[r].todo[i][1] \notin Above(parent, m)
        BY <2>3, <2>5 DEF n, todo
      <4> QED
        BY <1>4, <4>1 DEF Idle
    <3> QED
      BY <1>3, <3>1 DEF CleanExact
  <2> QED
    BY <2>4, <2>5
<1> QED
  BY <1>14, <1>21, <1>22 DEF TreeInv

-----------------------------------------------------------------------------
(* The other steps happen between two moves, when every node that hangs    *)
(* from a root has its rows.                                               *)

LEMMA QuietExact ==
  ASSUME TreeInv, Quiet, NEW m \in Live, Rooted(m)
  PROVE  Exact(m)
<1>1. \A q \in Requests : \A i \in DOMAIN move[q].todo :
        move[q].todo[i][1] \notin Above(parent, m)
  BY DEF Quiet, Idle
<1> QED
  BY <1>1 DEF TreeInv, CleanExact

\* A node that a step leaves where it was, with what is above it, keeps its rows.
LEMMA ExactMoved ==
  ASSUME TreeAssumption, IsColumn(parent), IsColumn(parent)', NEW m \in Live,
         Above(parent, m) \subseteq Live', \A k \in Above(parent, m) : parent'[k] = parent[k]
  PROVE  /\ Above(parent', m) = Above(parent, m)
         /\ Hangs(parent', m) <=> Hangs(parent, m)
         /\ \A a \in Above(parent, m) : Depth(parent', m, a) = Depth(parent, m, a)
         /\ Exact(m) /\ (\A a \in Nodes, d \in Nat :
                           <<a, m, d>> \in closure' <=> <<a, m, d>> \in closure)
              => Exact(m)'
<1> DEFINE new == parent'
<1>1. /\ IsColumn(new) /\ m \in DOMAIN parent /\ Above(parent, m) \subseteq DOMAIN new
      /\ \A k \in Above(parent, m) : new[k] = parent[k]
  BY DEF Live, IsColumn
<1> HIDE DEF new
<1>2. /\ Above(new, m) = Above(parent, m)
      /\ Hangs(new, m) <=> Hangs(parent, m)
      /\ \A a \in Above(parent, m) : Depth(new, m, a) = Depth(parent, m, a)
  BY <1>1, AboveAgrees
<1>3. ASSUME Exact(m), \A a \in Nodes, d \in Nat :
                         <<a, m, d>> \in closure' <=> <<a, m, d>> \in closure
      PROVE  Exact(m)'
  <2>1. \A a \in Nodes, d \in Nat :
          <<a, m, d>> \in closure' <=> a \in Above(new, m) /\ d = Depth(new, m, a)
    BY <1>2, <1>3 DEF Exact
  <2> QED
    BY <2>1 DEF Exact, Depth, new
<1> QED
  BY <1>2, <1>3 DEF new

LEMMA SaveParentStep ==
  ASSUME TreeAssumption, TreeInv, OneAtATime', NEW r \in Requests,
         NEW n \in Nodes, NEW p \in Nodes \cup {Root}, SaveParent(r, n, p)
  PROVE  TreeInv'
<1>1. /\ move[r].at = "idle"
      /\ n \in Live /\ p \in Live \cup {Root}
      /\ parent' = [parent EXCEPT ![n] = p]
      /\ move' = [move EXCEPT ![r] = [at |-> "delete", todo |-> << <<n, p>> >>]]
      /\ UNCHANGED <<unborn, closure, files, removing>>
  BY DEF SaveParent
<1>2. /\ TreeTypeOK /\ SelfRows
      /\ \A q \in Requests : TodoOK(q)
  BY DEF TreeInv
<1>3. /\ move'[r] = [at |-> "delete", todo |-> << <<n, p>> >>]
      /\ \A q \in Requests \ {r} : move'[q] = move[q]
  BY <1>1, <1>2 DEF TreeTypeOK
<1>4. /\ move'[r].at = "delete"
      /\ move'[r].todo = << <<n, p>> >> /\ DOMAIN move'[r].todo = {1}
      /\ move'[r].todo[1][1] = n /\ move'[r].todo[1][2] = p
  <2>1. DOMAIN << <<n, p>> >> = {1}
    OBVIOUS
  <2> QED
    BY <1>3, <2>1
<1>5. \A q \in Requests \ {r} : move'[q] = Idle /\ move[q] = Idle
  BY <1>3, <1>4 DEF OneAtATime, Idle
<1>6. Quiet
  <2>1. move[r] = [at |-> move[r].at, todo |-> move[r].todo]
    BY <1>2 DEF TreeTypeOK
  <2>2. move[r].todo = <<>>
    BY <1>1, <1>2 DEF TodoOK
  <2> QED
    BY <1>1, <1>5, <2>1, <2>2 DEF Quiet, Idle
<1>7. /\ DOMAIN parent' = Live /\ Live' = Live /\ parent'[n] = p
      /\ \A k \in Live \ {n} : parent'[k] = parent[k]
      /\ IsColumn(parent) /\ Live \subseteq Nodes
  BY <1>1, <1>2 DEF Live, TreeTypeOK, IsColumn
<1>8. IsColumn(parent)'
  BY <1>1, <1>7 DEF Live, IsColumn
<1>9. move' \in [Requests -> [at : {"idle", "delete", "create", "descend"},
                              todo : Seq(Nodes \X (Nodes \cup {Root}))]]
  <2>1. << <<n, p>> >> \in Seq(Nodes \X (Nodes \cup {Root}))
    OBVIOUS
  <2> QED
    BY <1>1, <1>2, <2>1 DEF TreeTypeOK
<1>10. TreeTypeOK'
  BY <1>1, <1>2, <1>7, <1>8, <1>9 DEF TreeTypeOK
<1>11. SelfRows'
  BY <1>1, <1>2, <1>7 DEF SelfRows
<1>12. \A q \in Requests : TodoOK(q)' /\ TodoApart(q)' /\ VisitOK(q)'
  <2>1. TodoOK(r)'
    BY <1>1, <1>4, <1>7 DEF TodoOK
  <2>2. TodoApart(r)'
    BY <1>4 DEF TodoApart
  <2>3. VisitOK(r)'
    BY <1>4 DEF VisitOK
  <2> QED
    BY <1>5, <2>1, <2>2, <2>3, IdleOK
<1>13. CleanExact'
  <2> DEFINE new == parent'
  <2> SUFFICES ASSUME NEW m \in Live, Hangs(new, m), n \notin Above(new, m)
               PROVE  Exact(m)'
    BY <1>4, <1>7 DEF CleanExact, Rooted, Hangs
  <2>1. /\ IsColumn(new) /\ m \in DOMAIN new
    BY <1>7, <1>8 DEF IsColumn
  <2>2. \A k \in DOMAIN new \ {n} : parent[k] = new[k]
    BY <1>7
  <2>3. DOMAIN new = DOMAIN parent
    BY <1>7 DEF Live
  <2> HIDE DEF new
  <2>4. Above(new, m) \subseteq DOMAIN new
    BY <2>1, AboveClosed
  <2>5. Above(parent, m) = Above(new, m) /\ Hangs(parent, m)
    BY <1>7, <2>1, <2>2, <2>3, <2>4, AboveAgrees
  <2>6. Exact(m)
    BY <1>6, <2>5, QuietExact DEF Rooted, Hangs
  <2>7. \A k \in Above(parent, m) : parent'[k] = parent[k]
    BY <2>2, <2>4, <2>5 DEF new
  <2> QED
    BY <1>1, <1>7, <1>8, <2>3, <2>4, <2>5, <2>6, <2>7, ExactMoved DEF Live
<1> QED
  BY <1>10, <1>11, <1>12, <1>13 DEF TreeInv

LEMMA QuietKept ==
  ASSUME Quiet, move' = move
  PROVE  \A q \in Requests : TodoOK(q)' /\ TodoApart(q)' /\ VisitOK(q)'
BY IdleOK DEF Quiet

LEMMA CreateStep ==
  ASSUME TreeAssumption, TreeInv, Quiet, NEW n \in Nodes, NEW p \in Nodes \cup {Root},
         Create(n, p)
  PROVE  TreeInv'
<1>1. /\ n \in unborn /\ p \in Live \cup {Root}
      /\ unborn' = unborn \ {n}
      /\ parent' = [m \in Live \cup {n} |-> IF m = n THEN p ELSE parent[m]]
      /\ closure' = closure \cup {<<n, n, 0>>} \cup Rows(n, p)
      /\ move' = move
  BY DEF Create
<1>2. /\ TreeTypeOK /\ SelfRows
  BY DEF TreeInv
<1>3. /\ n \notin Live /\ Live \subseteq Nodes /\ IsColumn(parent)
      /\ closure \subseteq Live \X Live \X Nat
  BY <1>1, <1>2 DEF TreeTypeOK, IsColumn, Live
<1>4. /\ Live' = Live \cup {n} /\ DOMAIN parent' = Live \cup {n} /\ parent'[n] = p
      /\ \A m \in Live : parent'[m] = parent[m]
  BY <1>1, <1>3 DEF Live
<1>5. IsColumn(parent)'
  BY <1>1, <1>3, <1>4 DEF Live, IsColumn
<1>6. /\ \A a, k, d : <<a, k, d>> \in Rows(n, p) =>
           k = n /\ d \in Nat /\ d # 0 /\ <<a, p, d - 1>> \in closure
      /\ \A a \in Nodes, d \in Nat :
           d # 0 /\ <<a, p, d - 1>> \in closure => <<a, n, d>> \in Rows(n, p)
      /\ p = Root => Rows(n, p) = {}
  BY <1>2, RowsMember
<1>7. Rows(n, p) \subseteq Live' \X Live' \X Nat
  <2> SUFFICES ASSUME NEW c \in Rows(n, p)
               PROVE  c \in Live' \X Live' \X Nat
    OBVIOUS
  <2>1. PICK b \in closure : c = <<b[1], n, b[3] + 1>>
    BY DEF Rows
  <2> QED
    BY <1>3, <1>4, <2>1
<1>8. TreeTypeOK'
  <2>1. closure' \subseteq Live' \X Live' \X Nat
    BY <1>1, <1>3, <1>4, <1>7
  <2> QED
    BY <1>1, <1>2, <1>4, <1>5, <2>1 DEF TreeTypeOK
<1>9. ASSUME NEW m \in Live, NEW a, NEW d
      PROVE  <<a, m, d>> \in closure' <=> <<a, m, d>> \in closure
  <2>1. m # n
    BY <1>3
  <2>2. <<a, m, d>> \notin Rows(n, p)
    <3> SUFFICES ASSUME NEW c \in Rows(n, p), c[2] = m PROVE FALSE
      OBVIOUS
    <3> QED
      BY <2>1, RowsOf
  <2>3. <<a, m, d>> # <<n, n, 0>>
    BY <2>1
  <2> QED
    BY <1>1, <2>2, <2>3
<1>10. ASSUME NEW a, NEW d \in Nat
       PROVE  <<a, n, d>> \in closure' <=>
                ((a = n /\ d = 0) \/ <<a, n, d>> \in Rows(n, p))
  <2>1. <<a, n, d>> \notin closure
    BY <1>3
  <2>2. <<a, n, d>> = <<n, n, 0>> <=> a = n /\ d = 0
    OBVIOUS
  <2> QED
    BY <1>1, <2>1, <2>2
<1>11. SelfRows'
  <2>1. \A m \in Live, d \in Nat : <<m, m, d>> \in closure' <=> d = 0
    BY <1>2, <1>9 DEF SelfRows
  <2>2. ASSUME NEW d \in Nat, <<n, n, d>> \in Rows(n, p) PROVE FALSE
    <3>1. d # 0 /\ <<n, p, d - 1>> \in closure /\ p # Root
      BY <1>6, <2>2, Zenon
    <3> QED
      BY <1>3, <3>1
  <2>3. \A d \in Nat : <<n, n, d>> \in closure' <=> d = 0
    BY <1>10, <2>2
  <2> QED
    BY <1>4, <2>1, <2>3 DEF SelfRows
<1>12. ASSUME NEW m \in Live
       PROVE  /\ Above(parent', m) = Above(parent, m)
              /\ Hangs(parent', m) <=> Hangs(parent, m)
              /\ \A a \in Above(parent, m) : Depth(parent', m, a) = Depth(parent, m, a)
              /\ Exact(m) => Exact(m)'
  <2>1. Above(parent, m) \subseteq Live
    BY <1>3, AboveClosed DEF Live
  <2> QED
    BY <1>3, <1>4, <1>5, <1>9, <2>1, ExactMoved
<1>13. CleanExact'
  <2> DEFINE new == parent'
  <2> SUFFICES ASSUME NEW m \in Live \cup {n}, Hangs(new, m) PROVE Exact(m)'
    BY <1>4 DEF CleanExact, Rooted, Hangs
  <2>1. CASE m \in Live
    BY <1>12, <2>1, QuietExact DEF Rooted, Hangs
  <2>2. CASE m = n
    <3>1. IsColumn(new) /\ n \in DOMAIN new /\ new[n] = p
      BY <1>4, <1>5 DEF IsColumn
    <3>2. p # Root =>
            /\ p \in Live
            /\ \A a \in Nodes, d \in Nat :
                 <<a, p, d>> \in closure <=> a \in Above(new, p) /\ d = Depth(new, p, a)
      <4> SUFFICES ASSUME p # Root
                   PROVE  /\ p \in Live
                          /\ \A a \in Nodes, d \in Nat :
                               <<a, p, d>> \in closure <=>
                                 a \in Above(new, p) /\ d = Depth(new, p, a)
        OBVIOUS
      <4>1. p \in Live
        BY <1>1
      <4>2. Hangs(new, p)
        <5> HIDE DEF new
        <5>1. p \in Above(new, n)
          BY <3>1, AboveClosed
        <5> QED
          BY <2>2, <3>1, <5>1, HangsAbove
      <4>3. Exact(p)
        BY <1>12, <4>1, <4>2, QuietExact DEF Rooted, Hangs
      <4> QED
        BY <1>12, <4>1, <4>3 DEF Exact
    <3> HIDE DEF new
    <3>3. ASSUME NEW a \in Nodes, NEW d \in Nat
          PROVE  <<a, n, d>> \in closure' <=> a \in Above(new, n) /\ d = Depth(new, n, a)
      <4>1. ((a = n /\ d = 0) \/ (p # Root /\ d # 0 /\ <<a, p, d - 1>> \in closure))
            <=> (a \in Above(new, n) /\ d = Depth(new, n, a))
        BY <2>2, <3>1, <3>2, RowsExact
      <4>2. <<a, n, d>> \in Rows(n, p) <=> p # Root /\ d # 0 /\ <<a, p, d - 1>> \in closure
        BY <1>6
      <4> QED
        BY <1>10, <4>1, <4>2
    <3>4. Exact(n)'
      BY <3>3 DEF Exact, Depth, new
    <3> QED
      BY <2>2, <3>4
  <2> QED
    BY <2>1, <2>2
<1> QED
  BY <1>1, <1>8, <1>11, <1>13, QuietKept DEF TreeInv

LEMMA DestroyStep ==
  ASSUME TreeAssumption, TreeInv, Quiet, NEW n \in Nodes, Destroy(n)
  PROVE  TreeInv'
<1>1. /\ n \in Live
      /\ parent' = [m \in Live \ Subtree(n) |-> parent[m]]
      /\ closure' = {c \in closure : {c[1], c[2]} \cap Subtree(n) = {}}
      /\ unborn' = unborn /\ move' = move
  BY DEF Destroy
<1>2. /\ TreeTypeOK /\ SelfRows /\ IsColumn(parent) /\ Live \subseteq Nodes
      /\ closure \subseteq Live \X Live \X Nat
  BY DEF TreeInv, TreeTypeOK, IsColumn, Live
<1>3. /\ Live' = Live \ Subtree(n) /\ DOMAIN parent' = Live \ Subtree(n)
      /\ \A m \in Live \ Subtree(n) : parent'[m] = parent[m]
  BY <1>1 DEF Live
<1>4. ASSUME NEW m \in Live \ Subtree(n)
      PROVE  /\ Above(parent, m) \subseteq Live \ Subtree(n)
             /\ m \in Above(parent, m)
  <2>1. m \in DOMAIN parent /\ n \notin Above(parent, m)
    BY <1>4 DEF Live, Subtree
  <2>2. \A a \in Above(parent, m) : a \in Live /\ Above(parent, a) \subseteq Above(parent, m)
    BY <1>2, <2>1, AboveMonotone DEF Live
  <2>3. \A a \in Above(parent, m) : a \notin Subtree(n)
    BY <2>1, <2>2 DEF Subtree
  <2> QED
    BY <1>2, <2>1, <2>2, <2>3, AboveClosed
<1>5. IsColumn(parent)'
  <2>1. \A m \in Live \ Subtree(n) : parent[m] \in (Live \ Subtree(n)) \cup {Root}
    BY <1>2, <1>4, AboveClosed DEF Live
  <2> QED
    BY <1>2, <1>3, <2>1 DEF IsColumn
<1>6. ASSUME NEW a, NEW k, NEW d
      PROVE  <<a, k, d>> \in closure' <=>
               <<a, k, d>> \in closure /\ a \notin Subtree(n) /\ k \notin Subtree(n)
  BY <1>1
<1>7. TreeTypeOK'
  <2>1. closure' \subseteq Live' \X Live' \X Nat
    <3> SUFFICES ASSUME NEW c \in closure' PROVE c \in Live' \X Live' \X Nat
      OBVIOUS
    <3>1. c \in Live \X Live \X Nat /\ c[1] \notin Subtree(n) /\ c[2] \notin Subtree(n)
      BY <1>1, <1>2
    <3> QED
      BY <1>3, <3>1
  <2> QED
    BY <1>1, <1>2, <1>3, <1>5, <2>1 DEF TreeTypeOK
<1>8. SelfRows'
  BY <1>2, <1>3, <1>6 DEF SelfRows
<1>9. CleanExact'
  <2> SUFFICES ASSUME NEW m \in Live \ Subtree(n), Hangs(parent', m) PROVE Exact(m)'
    BY <1>3 DEF CleanExact, Rooted, Hangs
  <2>1. /\ Hangs(parent', m) <=> Hangs(parent, m)
        /\ Exact(m) /\ (\A a \in Nodes, d \in Nat :
                          <<a, m, d>> \in closure' <=> <<a, m, d>> \in closure)
             => Exact(m)'
    BY <1>2, <1>3, <1>4, <1>5, ExactMoved
  <2>2. Exact(m)
    BY <2>1, QuietExact DEF Rooted, Hangs
  <2>3. \A a \in Nodes, d \in Nat : <<a, m, d>> \in closure' <=> <<a, m, d>> \in closure
    BY <1>4, <1>6, <2>2 DEF Exact
  <2> QED
    BY <2>1, <2>2, <2>3
<1> QED
  BY <1>1, <1>7, <1>8, <1>9, QuietKept DEF TreeInv

-----------------------------------------------------------------------------
LEMMA TreeInvUnchanged ==
  ASSUME TreeInv, UNCHANGED <<unborn, parent, closure, move>>
  PROVE  TreeInv'
<1>1. TreeTypeOK' /\ SelfRows'
  BY DEF TreeInv, TreeTypeOK, SelfRows, IsColumn, Live
<1>2. \A q \in Requests : TodoOK(q)' /\ TodoApart(q)'
  BY TodoKept DEF TreeInv
<1>3. \A m : Exact(m)' <=> Exact(m)
  BY DEF Exact, Depth
<1>4. \A q \in Requests : VisitOK(q)'
  BY <1>3 DEF TreeInv, VisitOK, Rooted
<1>5. CleanExact'
  BY <1>3 DEF TreeInv, CleanExact, Rooted, Live
<1> QED
  BY <1>1, <1>2, <1>4, <1>5 DEF TreeInv

\* With one move at a time the table has the rows of every node that hangs from a
\* root and has nothing to visit above it, at every step of a move.
THEOREM TreeInvCorrect == Spec /\ []OneAtATime => []TreeInv
<1> USE TreeAssumption
<1>1. Init => TreeInv
  <2> SUFFICES ASSUME Init PROVE TreeInv
    OBVIOUS
  <2>1. Live = {} /\ DOMAIN parent = {} /\ closure = {}
    BY DEF Init, Live
  <2>2. TreeTypeOK
    <3>1. Idle \in [at : {"idle", "delete", "create", "descend"},
                    todo : Seq(Nodes \X (Nodes \cup {Root}))]
      BY DEF Idle
    <3> QED
      BY <2>1, <3>1 DEF Init, TreeTypeOK, IsColumn
  <2>3. \A r \in Requests : TodoOK(r) /\ TodoApart(r) /\ VisitOK(r)
    BY DEF Init, Idle, TodoOK, TodoApart, VisitOK
  <2> QED
    BY <2>1, <2>2, <2>3 DEF TreeInv, SelfRows, CleanExact
<1>2. TreeInv /\ OneAtATime /\ OneAtATime' /\ [Next]_vars => TreeInv'
  <2> SUFFICES ASSUME TreeInv, OneAtATime, OneAtATime', [Next]_vars PROVE TreeInv'
    OBVIOUS
  <2>1. ASSUME NEW n \in Nodes, NEW p \in Nodes \cup {Root}, Quiet, Create(n, p)
        PROVE  TreeInv'
    BY <2>1, CreateStep
  <2>2. ASSUME NEW r \in Requests, NEW n \in Nodes, NEW p \in Nodes \cup {Root},
               SaveParent(r, n, p)
        PROVE  TreeInv'
    BY <2>2, SaveParentStep
  <2>3. ASSUME NEW r \in Requests, MoveStep(r) PROVE TreeInv'
    BY <2>3, DeleteRowsStep, CreateRowsStep, DescendStep DEF MoveStep
  <2>4. ASSUME NEW n \in Nodes, Quiet, Destroy(n) PROVE TreeInv'
    BY <2>4, DestroyStep
  <2>5. CASE RemoveFiles
    BY <2>5, TreeInvUnchanged DEF RemoveFiles
  <2>6. CASE UNCHANGED vars
    BY <2>6, TreeInvUnchanged DEF vars
  <2> QED
    BY <2>1, <2>2, <2>3, <2>4, <2>5, <2>6 DEF Next
<1> QED
  BY <1>1, <1>2, PTL DEF Spec

\* Between two moves the closure table is exact below a root, whatever moves and
\* deletions came before.
THEOREM ClosureCorrect == Spec /\ []OneAtATime => []ClosureExact
<1>1. TreeAssumption /\ TreeInv => ClosureExact
  <2> SUFFICES ASSUME TreeAssumption, TreeInv, Quiet, NEW n \in Live, Rooted(n)
               PROVE  {<<c[1], c[3]>> : c \in {c \in closure : c[2] = n}} = Ancestors(n)
    BY DEF ClosureExact
  <2>1. Exact(n)
    BY QuietExact
  <2>2. /\ closure \subseteq Nodes \X Nodes \X Nat
        /\ Above(parent, n) \subseteq Nodes
    BY AboveClosed DEF TreeInv, TreeTypeOK, IsColumn, Live
  <2>3. ASSUME NEW c \in closure, c[2] = n PROVE <<c[1], c[3]>> \in Ancestors(n)
    <3>1. c[1] \in Nodes /\ c[3] \in Nat /\ c = <<c[1], n, c[3]>>
      BY <2>2, <2>3
    <3>2. c[1] \in Above(parent, n) /\ c[3] = Depth(parent, n, c[1])
      BY <2>1, <2>3, <3>1 DEF Exact
    <3> QED
      BY <3>2 DEF Ancestors, Depth
  <2>4. ASSUME NEW a \in Above(parent, n)
        PROVE  \E c \in closure : c[2] = n /\ <<c[1], c[3]>> = <<a, Depth(parent, n, a)>>
    <3>1. Depth(parent, n, a) \in Nat
      BY <2>2, FS_Subset, FS_CardinalityType DEF Depth, TreeAssumption
    <3>2. <<a, n, Depth(parent, n, a)>> \in closure
      BY <2>1, <2>2, <3>1 DEF Exact
    <3> QED
      BY <3>2
  <2>5. Ancestors(n) = {<<a, Depth(parent, n, a)>> : a \in Above(parent, n)}
    BY DEF Ancestors, Depth
  <2> QED
    BY <2>3, <2>4, <2>5
<1> QED
  BY <1>1, TreeInvCorrect, TreeAssumption, PTL

\* A deletion in a forest removes the files of the datasets that it deletes, all of
\* them and no other.
THEOREM DestroyCorrect == Spec /\ []OneAtATime => DestroyIsExact
<1>1. TreeAssumption /\ TreeInv /\ [Next]_vars =>
        [\A n \in Nodes : Destroy(n) /\ Forest =>
           removing' = (Live \ DOMAIN parent') \cap Datasets]_vars
  <2> SUFFICES ASSUME TreeAssumption, TreeInv, Next, NEW n \in Nodes, Destroy(n), Forest
               PROVE  removing' = (Live \ DOMAIN parent') \cap Datasets
    OBVIOUS
  <2>1. /\ n \in Live
        /\ removing' = removing \cup (Descendants(n) \cap Datasets)
        /\ DOMAIN parent' = Live \ Subtree(n)
    BY DEF Destroy
  <2>2. n \notin DOMAIN parent' /\ IsColumn(parent)
    BY <2>1, AboveClosed DEF TreeInv, TreeTypeOK, Subtree, Live
  <2>3. Quiet /\ removing = {}
    <3>1. DOMAIN parent' # Live
      BY <2>1, <2>2
    <3>2. ASSUME NEW k \in Nodes, NEW p \in Nodes \cup {Root} PROVE ~Create(k, p)
      BY <2>1, <2>2 DEF Create
    <3>3. ASSUME NEW r \in Requests, NEW k \in Nodes, NEW p \in Nodes \cup {Root}
          PROVE  ~SaveParent(r, k, p)
      BY <3>1 DEF SaveParent, Live
    <3>4. ASSUME NEW r \in Requests PROVE ~MoveStep(r)
      BY <3>1 DEF MoveStep, DeleteRows, CreateRows, Descend, Live
    <3>5. ~RemoveFiles
      BY <3>1 DEF RemoveFiles, Live
    <3> QED
      BY <3>2, <3>3, <3>4, <3>5 DEF Next
  <2>4. Descendants(n) = Subtree(n)
    <3>1. closure \subseteq Live \X Live \X Nat /\ Live \subseteq Nodes
      BY DEF TreeInv, TreeTypeOK, IsColumn, Live
    <3>2. \A m \in Live : Exact(m)
      BY <2>3, QuietExact DEF Forest
    <3>3. ASSUME NEW c \in closure, c[1] = n PROVE c[2] \in Subtree(n)
      <4>1. c[2] \in Live /\ c[3] \in Nat /\ c = <<n, c[2], c[3]>>
        BY <3>1, <3>3
      <4>2. n \in Above(parent, c[2])
        BY <3>2, <3>3, <4>1 DEF Exact
      <4> QED
        BY <4>1, <4>2 DEF Subtree
    <3>4. ASSUME NEW m \in Subtree(n) PROVE \E c \in closure : c[1] = n /\ c[2] = m
      <4>1. m \in Live /\ n \in Above(parent, m)
        BY DEF Subtree
      <4>2. Depth(parent, m, n) \in Nat
        <5>1. Above(parent, m) \subseteq Nodes
          BY <2>2, <3>1, <4>1, AboveClosed DEF Live
        <5> QED
          BY <5>1, FS_Subset, FS_CardinalityType DEF Depth, TreeAssumption
      <4>3. <<n, m, Depth(parent, m, n)>> \in closure
        BY <3>2, <4>1, <4>2 DEF Exact
      <4> QED
        BY <4>3
    <3> QED
      BY <3>3, <3>4 DEF Descendants
  <2>5. Live \ DOMAIN parent' = Subtree(n)
    BY <2>1 DEF Subtree
  <2> QED
    BY <2>1, <2>3, <2>4, <2>5
<1> QED
  BY <1>1, TreeInvCorrect, TreeAssumption, PTL DEF Spec, DestroyIsExact

=============================================================================
