-------------------------- MODULE Inventory_proofs ---------------------------
(* Proofs about Inventory, for any number of requests, images, keys, sizes and
   retries. *)

EXTENDS Inventory, FiniteSetTheorems, WellFoundedInduction, TLAPS

RowsTypeOK ==
  /\ rows \subseteq Images /\ IsFiniteSet(rows)
  /\ primary \subseteq rows
  /\ ready \subseteq Images
  /\ key \in [Images -> Keys \cup {NoKey}]
  /\ position \in [Images -> Nat]

RequestsTypeOK ==
  /\ pc \in [Requests -> Open \cup Ended \cup {"idle"}]
  /\ DOMAIN local = Requests
  /\ overlap \in {"yes", "no"}

TasksTypeOK ==
  /\ variants \in [1 .. Sizes -> Keys \cup {NoKey}]
  /\ task \in [Images -> TaskAlive \cup {"none", "done", "failed", "killed"}]
  /\ size \in [Images -> 1 .. Sizes]

InventoryTypeOK == RowsTypeOK /\ RequestsTypeOK /\ TasksTypeOK

\* What a request holds in its variables is what its next statement needs.
LocalOf(r) ==
  /\ pc[r] = "idle" => local[r].kind = "none"
  /\ pc[r] \in {"demote", "place", "insert"} =>
       /\ local[r].kind = "confirm"
       /\ local[r].key \in Keys /\ local[r].primary \in {"yes", "no"}
  /\ pc[r] = "insert" => local[r].position \in Nat
  /\ pc[r] = "apply" => local[r].kind \in {"patch", "reorder"}
  /\ pc[r] = "apply" /\ local[r].kind = "patch" =>
       /\ local[r].target \in Images /\ local[r].position \in Nat
       /\ local[r].wish \in {"yes", "no", "keep"}
  /\ pc[r] = "apply" /\ local[r].kind = "reorder" =>
       DOMAIN local[r].order \subseteq Nat \ {0}
  /\ pc[r] \in {"object", "row", "promote", "mark"} =>
       /\ local[r].kind = "delete" /\ local[r].target \in Images
       /\ local[r].primary \in {"yes", "no"}
  /\ pc[r] = "save" => local[r].kind \in {"edit", "refresh"}
  /\ pc[r] \in {"rows", "objects"} => local[r].kind = "destroy"

LocalInv == \A r \in Requests : LocalOf(r)

\* A request inserts its image once: before, the image never had a key or a task.
FreshInv ==
  /\ \A r \in Requests : pc[r] \in {"idle", "demote", "place", "insert"} =>
       r \notin rows /\ key[r] = NoKey /\ task[r] = "none"
  /\ \A r \in Requests : pc[r] = "delay" => task[r] = "none"
  /\ \A i \in rows : key[i] \in Keys

\* What is about to be deleted from the storage is named by an image: the one the
\* request deletes, or one that went with its item and never returns.  So is what
\* was deleted.
KeyInv ==
  /\ \A r \in Requests : pc[r] = "object" =>
       local[r].key = key[local[r].target] /\ local[r].key \in Keys
  /\ \A r \in Requests : pc[r] \in {"rows", "objects"} =>
       \A k \in local[r].keys :
         k \in Keys /\ \E i \in Images : key[i] = k /\ (pc[r] = "objects" => i \notin rows)
  /\ \A k \in Keys \ originals : \E i \in Images : key[i] = k

\* A task that is done with a size has left an object for it.
VariantInv ==
  /\ \A i \in Images : task[i] \in {"write", "save"} => key[i] \in Keys
  /\ \A i \in Images : task[i] = "write" =>
       \A n \in 1 .. Sizes : n < size[i] => variants[n] # NoKey
  /\ \A i \in Images : task[i] = "save" =>
       \A n \in 1 .. Sizes : variants[n] # NoKey

\* The two halves of VariantsReadyWhenWritten.
ReadyInv == ready # {} => \A n \in 1 .. Sizes : variants[n] # NoKey

UnreadyInv ==
  \A i \in rows \ ready :
    \/ i \in Requests /\ pc[i] \in {"delay", "lost"}
    \/ task[i] \in TaskAlive \cup {"failed", "killed"}

-----------------------------------------------------------------------------
(* While requests come one after the other.                                *)

\* One is open; nothing but a deletion of the item takes the item away from it.
OneOpen ==
  /\ \A q, r \in Requests : pc[q] \in Open /\ pc[r] \in Open => q = r
  /\ \A r \in Requests : pc[r] \in Open \ {"objects"} => item # "deleted"

\* What the open request read of the primary image is still so.
ReadPrimary(r) ==
  LET l == local[r] IN
  /\ pc[r] = "demote" => l.primary = "yes"
  /\ pc[r] \in {"place", "insert"} =>
       IF l.primary = "yes" THEN primary = {} ELSE rows # {}
  /\ pc[r] = "apply" /\ l.kind = "patch" =>
       IF l.wish = "keep" THEN l.primary = "yes" <=> l.target \in primary
       ELSE l.primary = l.wish
  /\ pc[r] \in {"object", "row"} => (l.primary = "yes" <=> l.target \in primary)
  /\ pc[r] = "promote" => primary = {} /\ l.primary = "yes"
  /\ pc[r] = "mark" => primary = {} /\ l.primary = "yes" /\ l.target \in rows

ReadInv == \A r \in Requests : ReadPrimary(r)

\* The position a confirmation found is after all the others.
LastPosition ==
  \A r \in Requests : pc[r] = "insert" =>
    \A i \in rows : position[i] < local[r].position

NoneRefused == \A r \in Requests : local[r].kind = "confirm" => pc[r] # "refused"

OnePrimary == \A i, j \in primary : i = j

\* The primary image may be missing: a request died, or a PATCH asked for none.
Excused ==
  \E r \in Requests :
    pc[r] = "lost" \/ (local[r].kind = "patch" /\ local[r].wish = "no")

\* The open request is about to mark another.
AboutToMark ==
  \E r \in Requests :
    /\ pc[r] \in {"demote", "place", "insert", "object", "row", "promote", "mark"}
    /\ local[r].primary = "yes"

HasPrimary == rows # {} => primary # {} \/ Excused \/ AboutToMark

SerialInv ==
  overlap = "no" =>
    /\ OneOpen /\ LastPosition /\ NoneRefused /\ OnePrimary /\ HasPrimary
    /\ ReadInv

InventoryInv ==
  /\ InventoryTypeOK /\ LocalInv /\ FreshInv /\ KeyInv /\ VariantInv /\ SerialInv
  /\ OriginalKept /\ ReadyInv /\ UnreadyInv

-----------------------------------------------------------------------------
(* What a request's steps do to its variables.                             *)

\* A request that begins: the item is there, and no other request is open unless
\* the history says so from now on.
Begun(r) ==
  /\ pc[r] = "idle" /\ item # "deleted"
  /\ DOMAIN local' = Requests
  /\ \A q \in Requests \ {r} : pc'[q] = pc[q] /\ local'[q] = local[q]
  /\ pc' = [pc EXCEPT ![r] = pc'[r]]
  /\ overlap' \in {"yes", "no"}
  /\ overlap' = "no" =>
       overlap = "no" /\ \A q \in Requests : pc[q] \notin Open
  /\ UNCHANGED <<item, age, rows, key, position, primary, ready, originals, variants,
                 task, size, tries, sweep>>

LEMMA LeaveIs ==
  ASSUME InventoryTypeOK, NEW r \in Requests, NEW label, Leave(r, label)
  PROVE  /\ pc' = [pc EXCEPT ![r] = label]
         /\ DOMAIN local' = Requests
         /\ \A q \in Requests : /\ local'[q].kind = local[q].kind
                                /\ local'[q].target = local[q].target
                                /\ local'[q].wish = local[q].wish
         /\ \A q \in Requests \ {r} : local'[q] = local[q]
         /\ label \notin Ended => local' = local
         /\ label \in Open \cup Ended => pc' \in [Requests -> Open \cup Ended \cup {"idle"}]
BY DEF Leave, Goto, Nothing, InventoryTypeOK, RequestsTypeOK

LEMMA BeginConfirmIs ==
  ASSUME InventoryTypeOK, NEW r \in Requests, BeginConfirm(r)
  PROVE  /\ Begun(r)
         /\ pc'[r] = IF local'[r].primary = "yes" THEN "demote" ELSE "place"
         /\ local'[r].kind = "confirm" /\ local'[r].key \in Keys
         /\ local'[r].primary \in {"yes", "no"}
         /\ local'[r].primary = "no" => rows # {}
BY DEF BeginConfirm, Begin, Begun, Goto, Nothing, InventoryTypeOK, RequestsTypeOK, RowsTypeOK,
       status, images, objects, tasks, YesNo

LEMMA BeginPatchIs ==
  ASSUME InventoryTypeOK, NEW r \in Requests, BeginPatch(r)
  PROVE  /\ Begun(r)
         /\ pc'[r] = "apply" /\ local'[r].kind = "patch"
         /\ local'[r].target \in rows
         /\ local'[r].wish \in {"yes", "no", "keep"}
         /\ local'[r].position \in Nat
         /\ IF local'[r].wish = "keep"
            THEN local'[r].primary = "yes" <=> local'[r].target \in primary
            ELSE local'[r].primary = local'[r].wish
<1>1. PICK i \in rows, wish \in {"yes", "no", "keep"}, p \in Positions \cup
             {position[j] : j \in rows} :
        Begin(r, "apply",
              [Nothing EXCEPT !.kind = "patch", !.target = i, !.wish = wish,
                 !.position = p,
                 !.primary = IF wish = "keep" THEN YesNo(i \in primary) ELSE wish])
  BY DEF BeginPatch
<1>2. p \in Nat
  BY InventoryAssumption DEF InventoryTypeOK, RowsTypeOK
<1>3. DOMAIN local = Requests /\ pc \in [Requests -> Open \cup Ended \cup {"idle"}]
  BY DEF InventoryTypeOK, RequestsTypeOK
<1>4. /\ local'[r].target = i /\ local'[r].wish = wish /\ local'[r].position = p
      /\ local'[r].kind = "patch"
      /\ local'[r].primary = IF wish = "keep" THEN YesNo(i \in primary) ELSE wish
  BY <1>1, <1>3 DEF Begin, Nothing
<1>5. Begun(r) /\ pc'[r] = "apply"
  BY <1>1, <1>3 DEF Begin, Begun, Goto, InventoryTypeOK, RequestsTypeOK, status, images,
         objects, tasks
<1>6. YesNo(i \in primary) = "yes" <=> i \in primary
  BY DEF YesNo
<1> QED BY <1>2, <1>4, <1>5, <1>6

LEMMA BeginReorderIs ==
  ASSUME InventoryTypeOK, NEW r \in Requests, BeginReorder(r)
  PROVE  /\ Begun(r)
         /\ pc'[r] = "apply" /\ local'[r].kind = "reorder"
         /\ DOMAIN local'[r].order \subseteq Nat \ {0}
BY DEF BeginReorder, Begin, Begun, Goto, Nothing, InventoryTypeOK, RequestsTypeOK, RowsTypeOK,
       status, images, objects, tasks, Orders

LEMMA BeginDeleteIs ==
  ASSUME InventoryTypeOK, NEW r \in Requests, BeginDelete(r)
  PROVE  /\ Begun(r)
         /\ pc'[r] = "object" /\ local'[r].kind = "delete"
         /\ local'[r].target \in rows /\ local'[r].key = key[local'[r].target]
         /\ local'[r].primary \in {"yes", "no"}
         /\ local'[r].primary = "yes" <=> local'[r].target \in primary
BY DEF BeginDelete, Begin, Begun, Goto, Nothing, InventoryTypeOK, RequestsTypeOK, RowsTypeOK,
       status, images, objects, tasks, YesNo

LEMMA BeginEditIs ==
  ASSUME InventoryTypeOK, NEW r \in Requests, BeginEdit(r)
  PROVE  /\ Begun(r)
         /\ pc'[r] = "save" /\ local'[r].kind = "edit"
BY DEF BeginEdit, Begin, Begun, Goto, Nothing, InventoryTypeOK, RequestsTypeOK, RowsTypeOK,
       status, images, objects, tasks

LEMMA BeginRefreshIs ==
  ASSUME InventoryTypeOK, NEW r \in Requests, BeginRefresh(r)
  PROVE  /\ Begun(r)
         /\ pc'[r] = "save" /\ local'[r].kind = "refresh"
BY DEF BeginRefresh, Begin, Begun, Goto, Nothing, InventoryTypeOK, RequestsTypeOK, RowsTypeOK,
       status, images, objects, tasks

LEMMA BeginDestroyIs ==
  ASSUME InventoryTypeOK, NEW r \in Requests, BeginDestroy(r)
  PROVE  /\ Begun(r)
         /\ pc'[r] = "rows" /\ local'[r].kind = "destroy"
         /\ local'[r].keys = {key[i] : i \in rows}
BY DEF BeginDestroy, Begin, Begun, Goto, Nothing, InventoryTypeOK, RequestsTypeOK, RowsTypeOK,
       status, images, objects, tasks

-----------------------------------------------------------------------------
(* The steps.                                                              *)

LEMMA RequestsTypeStep ==
  ASSUME InventoryTypeOK, LocalInv, [Next]_vars
  PROVE  RequestsTypeOK'
<1> USE DEF InventoryTypeOK, RequestsTypeOK, Open, Ended
<1>1. ASSUME NEW r \in Requests, BeginConfirm(r) PROVE RequestsTypeOK'
  BY <1>1, BeginConfirmIs DEF Begun
<1>2. ASSUME NEW r \in Requests, BeginPatch(r) PROVE RequestsTypeOK'
  BY <1>2, BeginPatchIs DEF Begun
<1>3. ASSUME NEW r \in Requests, BeginReorder(r) PROVE RequestsTypeOK'
  BY <1>3, BeginReorderIs DEF Begun
<1>4. ASSUME NEW r \in Requests, BeginDelete(r) PROVE RequestsTypeOK'
  BY <1>4, BeginDeleteIs DEF Begun
<1>5. ASSUME NEW r \in Requests, BeginEdit(r) PROVE RequestsTypeOK'
  BY <1>5, BeginEditIs DEF Begun
<1>6. ASSUME NEW r \in Requests, BeginRefresh(r) PROVE RequestsTypeOK'
  BY <1>6, BeginRefreshIs DEF Begun
<1>7. ASSUME NEW r \in Requests, BeginDestroy(r) PROVE RequestsTypeOK'
  BY <1>7, BeginDestroyIs DEF Begun
<1>8. ASSUME NEW r \in Requests, Demote(r) PROVE RequestsTypeOK'
  BY <1>8, LeaveIs DEF Demote, Goto, status, images, objects, tasks
<1>9. ASSUME NEW r \in Requests, Place(r) PROVE RequestsTypeOK'
  BY <1>9, LeaveIs DEF Place, Goto, status, images, objects, tasks
<1>10. ASSUME NEW r \in Requests, Insert(r) PROVE RequestsTypeOK'
  BY <1>10, LeaveIs DEF Insert, Goto, status, images, objects, tasks
<1>11. ASSUME NEW r \in Requests, Delay(r) PROVE RequestsTypeOK'
  BY <1>11, LeaveIs DEF Delay, Goto, status, images, objects, tasks
<1>12. ASSUME NEW r \in Requests, ApplyPatch(r) PROVE RequestsTypeOK'
  BY <1>12, LeaveIs DEF ApplyPatch, Goto, status, images, objects, tasks
<1>13. ASSUME NEW r \in Requests, ApplyReorder(r) PROVE RequestsTypeOK'
  BY <1>13, LeaveIs DEF ApplyReorder, Goto, status, images, objects, tasks
<1>14. ASSUME NEW r \in Requests, DeleteObject(r) PROVE RequestsTypeOK'
  BY <1>14, LeaveIs DEF DeleteObject, Goto, status, images, objects, tasks
<1>15. ASSUME NEW r \in Requests, DeleteRow(r) PROVE RequestsTypeOK'
  BY <1>15, LeaveIs DEF DeleteRow, Goto, status, images, objects, tasks
<1>16. ASSUME NEW r \in Requests, Promote(r) PROVE RequestsTypeOK'
  BY <1>16, LeaveIs DEF Promote, Goto, status, images, objects, tasks
<1>17. ASSUME NEW r \in Requests, Mark(r) PROVE RequestsTypeOK'
  BY <1>17, LeaveIs DEF Mark, Goto, status, images, objects, tasks
<1>18. ASSUME NEW r \in Requests, SaveEdit(r) PROVE RequestsTypeOK'
  BY <1>18, LeaveIs DEF SaveEdit, Goto, status, images, objects, tasks
<1>19. ASSUME NEW r \in Requests, SaveRefresh(r) PROVE RequestsTypeOK'
  BY <1>19, LeaveIs DEF SaveRefresh, Goto, status, images, objects, tasks
<1>20. ASSUME NEW r \in Requests, DestroyRows(r) PROVE RequestsTypeOK'
  BY <1>20, LeaveIs DEF DestroyRows, Goto, status, images, objects, tasks
<1>21. ASSUME NEW r \in Requests, DestroyObjects(r) PROVE RequestsTypeOK'
  BY <1>21, LeaveIs DEF DestroyObjects, Goto, status, images, objects, tasks
<1>22. ASSUME NEW r \in Requests, Lose(r) PROVE RequestsTypeOK'
  BY <1>22, LeaveIs DEF Lose, Goto, status, images, objects, tasks
<1>23. ASSUME NEW i \in Images, Load(i) PROVE RequestsTypeOK'
  BY <1>23 DEF Load, TaskTo, status, images, objects, tasks
<1>24. ASSUME NEW i \in Images, WriteVariant(i) PROVE RequestsTypeOK'
  BY <1>24 DEF WriteVariant, TaskTo, status, images, objects, tasks
<1>25. ASSUME NEW i \in Images, SaveReady(i) PROVE RequestsTypeOK'
  BY <1>25 DEF SaveReady, TaskTo, status, images, objects, tasks
<1>26. ASSUME NEW i \in Images, Raise(i) PROVE RequestsTypeOK'
  BY <1>26 DEF Raise, TaskTo, status, images, objects, tasks
<1>27. ASSUME NEW i \in Images, Retry(i) PROVE RequestsTypeOK'
  BY <1>27 DEF Retry, TaskTo, status, images, objects, tasks
<1>28. ASSUME NEW i \in Images, Crash(i) PROVE RequestsTypeOK'
  BY <1>28 DEF Crash, TaskTo, status, images, objects, tasks
<1>29. CASE SweepSelect
  BY <1>29 DEF SweepSelect, status, images, objects, tasks
<1>30. CASE SweepHide
  BY <1>30 DEF SweepHide, status, images, objects, tasks
<1>31. CASE UNCHANGED vars
  BY <1>31 DEF vars, status, images, objects, tasks
<1> QED BY <1>1, <1>2, <1>3, <1>4, <1>5, <1>6, <1>7, <1>8, <1>9, <1>10, <1>11, <1>12,
       <1>13, <1>14, <1>15, <1>16, <1>17, <1>18, <1>19, <1>20, <1>21, <1>22, <1>23,
       <1>24, <1>25, <1>26, <1>27, <1>28, <1>29, <1>30, <1>31
       DEF Next, ImageRequest, ItemRequest, TaskStep

\* The positions that a reordering leaves.
Reordered(order) ==
  [i \in Images |-> IF \E n \in DOMAIN order : order[n] = i
                    THEN (CHOOSE n \in DOMAIN order : order[n] = i) - 1
                    ELSE position[i]]

LEMMA ReorderedIs ==
  ASSUME position \in [Images -> Nat], NEW order, DOMAIN order \subseteq Nat \ {0}
  PROVE  Reordered(order) \in [Images -> Nat]
<1>1. ASSUME NEW i \in Images, \E n \in DOMAIN order : order[n] = i
      PROVE  (CHOOSE n \in DOMAIN order : order[n] = i) - 1 \in Nat
  BY <1>1
<1> QED BY <1>1 DEF Reordered

LEMMA RowsTypeStep ==
  ASSUME InventoryTypeOK, LocalInv, [Next]_vars
  PROVE  RowsTypeOK'
<1> USE DEF InventoryTypeOK, RequestsTypeOK, RowsTypeOK, LocalInv, LocalOf, Images
<1>1. ASSUME NEW r \in Requests, BeginConfirm(r) PROVE RowsTypeOK'
  BY <1>1, BeginConfirmIs DEF Begun
<1>2. ASSUME NEW r \in Requests, BeginPatch(r) PROVE RowsTypeOK'
  BY <1>2, BeginPatchIs DEF Begun
<1>3. ASSUME NEW r \in Requests, BeginReorder(r) PROVE RowsTypeOK'
  BY <1>3, BeginReorderIs DEF Begun
<1>4. ASSUME NEW r \in Requests, BeginDelete(r) PROVE RowsTypeOK'
  BY <1>4, BeginDeleteIs DEF Begun
<1>5. ASSUME NEW r \in Requests, BeginEdit(r) PROVE RowsTypeOK'
  BY <1>5, BeginEditIs DEF Begun
<1>6. ASSUME NEW r \in Requests, BeginRefresh(r) PROVE RowsTypeOK'
  BY <1>6, BeginRefreshIs DEF Begun
<1>7. ASSUME NEW r \in Requests, BeginDestroy(r) PROVE RowsTypeOK'
  BY <1>7, BeginDestroyIs DEF Begun
<1>8. ASSUME NEW r \in Requests, Demote(r) PROVE RowsTypeOK'
  BY <1>8, LeaveIs DEF Demote, Goto, status, images, objects, tasks
<1>9. ASSUME NEW r \in Requests, Place(r) PROVE RowsTypeOK'
  BY <1>9, LeaveIs DEF Place, Goto, status, images, objects, tasks
<1>10. ASSUME NEW r \in Requests, Insert(r) PROVE RowsTypeOK'
  <2>1. IsFiniteSet(rows \cup {r})
    BY FS_AddElement DEF InventoryTypeOK, RowsTypeOK
  <2>2. local[r].key \in Keys /\ local[r].position \in Nat /\ r \in Images
    BY <1>10 DEF Insert, LocalInv, LocalOf, Images
  <2>3. CASE UNCHANGED images
    BY <2>3 DEF images, InventoryTypeOK, RowsTypeOK
  <2>4. CASE rows' = rows \cup {r}
    BY <1>10, <2>1, <2>2, <2>4 DEF Insert, InventoryTypeOK, RowsTypeOK, images
  <2> QED BY <1>10, <2>3, <2>4 DEF Insert
<1>11. ASSUME NEW r \in Requests, Delay(r) PROVE RowsTypeOK'
  BY <1>11, LeaveIs DEF Delay, Goto, status, images, objects, tasks
<1>12. ASSUME NEW r \in Requests, ApplyPatch(r) PROVE RowsTypeOK'
  <2>1. local[r].target \in Images /\ local[r].position \in Nat
    BY <1>12 DEF ApplyPatch, LocalInv, LocalOf
  <2>2. CASE UNCHANGED images
    BY <2>2 DEF images, InventoryTypeOK, RowsTypeOK
  <2>3. CASE /\ local[r].target \in rows
             /\ primary' = PatchPrimary(local[r])
             /\ position' = [position EXCEPT ![local[r].target] = local[r].position]
             /\ UNCHANGED <<rows, key, ready>>
    <3>1. position' \in [Images -> Nat]
      BY <2>1, <2>3 DEF InventoryTypeOK, RowsTypeOK
    <3>2. primary' \subseteq rows
      BY <2>3 DEF PatchPrimary, InventoryTypeOK, RowsTypeOK
    <3> QED BY <2>3, <3>1, <3>2 DEF InventoryTypeOK, RowsTypeOK
  <2> QED BY <1>12, <2>2, <2>3 DEF ApplyPatch
<1>13. ASSUME NEW r \in Requests, ApplyReorder(r) PROVE RowsTypeOK'
  <2>1. position' \in [Images -> Nat]
    <3>1. position \in [Images -> Nat]
      BY DEF RowsTypeOK
    <3>2. CASE UNCHANGED position
      BY <3>1, <3>2
    <3>3. CASE position' = Reordered(local[r].order)
      <4>1. DOMAIN local[r].order \subseteq Nat \ {0}
        BY <1>13 DEF ApplyReorder, LocalInv, LocalOf
      <4> QED BY <3>1, <3>3, <4>1, ReorderedIs
    <3> QED BY <1>13, <3>2, <3>3 DEF ApplyReorder, Reordered
  <2> QED BY <1>13, <2>1 DEF ApplyReorder
<1>14. ASSUME NEW r \in Requests, DeleteObject(r) PROVE RowsTypeOK'
  BY <1>14, LeaveIs DEF DeleteObject, Goto, status, images, objects, tasks
<1>15. ASSUME NEW r \in Requests, DeleteRow(r) PROVE RowsTypeOK'
  <2>1. IsFiniteSet(rows \ {local[r].target})
    BY FS_RemoveElement DEF InventoryTypeOK, RowsTypeOK
  <2> QED BY <1>15, <2>1 DEF DeleteRow, InventoryTypeOK, RowsTypeOK
<1>16. ASSUME NEW r \in Requests, Promote(r) PROVE RowsTypeOK'
  BY <1>16, LeaveIs DEF Promote, Goto, status, images, objects, tasks
<1>17. ASSUME NEW r \in Requests, Mark(r) PROVE RowsTypeOK'
  BY <1>17, LeaveIs DEF Mark, Goto, status, images, objects, tasks
<1>18. ASSUME NEW r \in Requests, SaveEdit(r) PROVE RowsTypeOK'
  BY <1>18, LeaveIs DEF SaveEdit, Goto, status, images, objects, tasks
<1>19. ASSUME NEW r \in Requests, SaveRefresh(r) PROVE RowsTypeOK'
  BY <1>19, LeaveIs DEF SaveRefresh, Goto, status, images, objects, tasks
<1>20. ASSUME NEW r \in Requests, DestroyRows(r) PROVE RowsTypeOK'
  <2> QED BY <1>20, FS_EmptySet DEF DestroyRows, InventoryTypeOK, RowsTypeOK
<1>21. ASSUME NEW r \in Requests, DestroyObjects(r) PROVE RowsTypeOK'
  BY <1>21, LeaveIs DEF DestroyObjects, Goto, status, images, objects, tasks
<1>22. ASSUME NEW r \in Requests, Lose(r) PROVE RowsTypeOK'
  BY <1>22, LeaveIs DEF Lose, Goto, status, images, objects, tasks
<1>23. ASSUME NEW i \in Images, Load(i) PROVE RowsTypeOK'
  BY <1>23 DEF Load, TaskTo, status, images, objects, tasks
<1>24. ASSUME NEW i \in Images, WriteVariant(i) PROVE RowsTypeOK'
  BY <1>24 DEF WriteVariant, TaskTo, status, images, objects, tasks
<1>25. ASSUME NEW i \in Images, SaveReady(i) PROVE RowsTypeOK'
  BY <1>25 DEF SaveReady, TaskTo, status, images, objects, tasks
<1>26. ASSUME NEW i \in Images, Raise(i) PROVE RowsTypeOK'
  BY <1>26 DEF Raise, TaskTo, status, images, objects, tasks
<1>27. ASSUME NEW i \in Images, Retry(i) PROVE RowsTypeOK'
  BY <1>27 DEF Retry, TaskTo, status, images, objects, tasks
<1>28. ASSUME NEW i \in Images, Crash(i) PROVE RowsTypeOK'
  BY <1>28 DEF Crash, TaskTo, status, images, objects, tasks
<1>29. CASE SweepSelect
  BY <1>29 DEF SweepSelect, status, images, objects, tasks
<1>30. CASE SweepHide
  BY <1>30 DEF SweepHide, status, images, objects, tasks
<1>31. CASE UNCHANGED vars
  BY <1>31 DEF vars, status, images, objects, tasks
<1> QED BY <1>1, <1>2, <1>3, <1>4, <1>5, <1>6, <1>7, <1>8, <1>9, <1>10, <1>11, <1>12,
       <1>13, <1>14, <1>15, <1>16, <1>17, <1>18, <1>19, <1>20, <1>21, <1>22, <1>23,
       <1>24, <1>25, <1>26, <1>27, <1>28, <1>29, <1>30, <1>31
       DEF Next, ImageRequest, ItemRequest, TaskStep

LEMMA TasksTypeStep ==
  ASSUME InventoryTypeOK, VariantInv, [Next]_vars
  PROVE  TasksTypeOK'
<1> USE DEF InventoryTypeOK, RowsTypeOK, TasksTypeOK, TaskAlive, Images, VariantInv
<1>1. ASSUME NEW r \in Requests, BeginConfirm(r) PROVE TasksTypeOK'
  BY <1>1, BeginConfirmIs DEF Begun
<1>2. ASSUME NEW r \in Requests, BeginPatch(r) PROVE TasksTypeOK'
  BY <1>2, BeginPatchIs DEF Begun
<1>3. ASSUME NEW r \in Requests, BeginReorder(r) PROVE TasksTypeOK'
  BY <1>3, BeginReorderIs DEF Begun
<1>4. ASSUME NEW r \in Requests, BeginDelete(r) PROVE TasksTypeOK'
  BY <1>4, BeginDeleteIs DEF Begun
<1>5. ASSUME NEW r \in Requests, BeginEdit(r) PROVE TasksTypeOK'
  BY <1>5, BeginEditIs DEF Begun
<1>6. ASSUME NEW r \in Requests, BeginRefresh(r) PROVE TasksTypeOK'
  BY <1>6, BeginRefreshIs DEF Begun
<1>7. ASSUME NEW r \in Requests, BeginDestroy(r) PROVE TasksTypeOK'
  BY <1>7, BeginDestroyIs DEF Begun
<1>8. ASSUME NEW r \in Requests, Demote(r) PROVE TasksTypeOK'
  BY <1>8, LeaveIs DEF Demote, Goto, status, images, objects, tasks
<1>9. ASSUME NEW r \in Requests, Place(r) PROVE TasksTypeOK'
  BY <1>9, LeaveIs DEF Place, Goto, status, images, objects, tasks
<1>10. ASSUME NEW r \in Requests, Insert(r) PROVE TasksTypeOK'
  BY <1>10, LeaveIs DEF Insert, Goto, status, images, objects, tasks
<1>11. ASSUME NEW r \in Requests, Delay(r) PROVE TasksTypeOK'
  BY <1>11, LeaveIs DEF Delay, Goto, status, images, objects, tasks
<1>12. ASSUME NEW r \in Requests, ApplyPatch(r) PROVE TasksTypeOK'
  BY <1>12, LeaveIs DEF ApplyPatch, Goto, status, images, objects, tasks
<1>13. ASSUME NEW r \in Requests, ApplyReorder(r) PROVE TasksTypeOK'
  BY <1>13, LeaveIs DEF ApplyReorder, Goto, status, images, objects, tasks
<1>14. ASSUME NEW r \in Requests, DeleteObject(r) PROVE TasksTypeOK'
  BY <1>14, LeaveIs DEF DeleteObject, Goto, status, images, objects, tasks
<1>15. ASSUME NEW r \in Requests, DeleteRow(r) PROVE TasksTypeOK'
  BY <1>15, LeaveIs DEF DeleteRow, Goto, status, images, objects, tasks
<1>16. ASSUME NEW r \in Requests, Promote(r) PROVE TasksTypeOK'
  BY <1>16, LeaveIs DEF Promote, Goto, status, images, objects, tasks
<1>17. ASSUME NEW r \in Requests, Mark(r) PROVE TasksTypeOK'
  BY <1>17, LeaveIs DEF Mark, Goto, status, images, objects, tasks
<1>18. ASSUME NEW r \in Requests, SaveEdit(r) PROVE TasksTypeOK'
  BY <1>18, LeaveIs DEF SaveEdit, Goto, status, images, objects, tasks
<1>19. ASSUME NEW r \in Requests, SaveRefresh(r) PROVE TasksTypeOK'
  BY <1>19, LeaveIs DEF SaveRefresh, Goto, status, images, objects, tasks
<1>20. ASSUME NEW r \in Requests, DestroyRows(r) PROVE TasksTypeOK'
  BY <1>20, LeaveIs DEF DestroyRows, Goto, status, images, objects, tasks
<1>21. ASSUME NEW r \in Requests, DestroyObjects(r) PROVE TasksTypeOK'
  BY <1>21, LeaveIs DEF DestroyObjects, Goto, status, images, objects, tasks
<1>22. ASSUME NEW r \in Requests, Lose(r) PROVE TasksTypeOK'
  BY <1>22, LeaveIs DEF Lose, Goto, status, images, objects, tasks
<1>23. ASSUME NEW i \in Images, Load(i) PROVE TasksTypeOK'
  <2>1. size' \in [Images -> 1 .. Sizes]
    BY <1>23, InventoryAssumption DEF Load, InventoryTypeOK, TasksTypeOK
  <2>2. task' \in [Images -> TaskAlive \cup {"none", "done", "failed", "killed"}]
    BY <1>23 DEF Load, TaskTo, InventoryTypeOK, TasksTypeOK, TaskAlive
  <2> QED BY <1>23, <2>1, <2>2 DEF Load, InventoryTypeOK, TasksTypeOK, objects
<1>24. ASSUME NEW i \in Images, WriteVariant(i) PROVE TasksTypeOK'
  <2>1. size' \in [Images -> 1 .. Sizes]
    BY <1>24, InventoryAssumption DEF WriteVariant, InventoryTypeOK, TasksTypeOK
  <2>2. task' \in [Images -> TaskAlive \cup {"none", "done", "failed", "killed"}]
    BY <1>24 DEF WriteVariant, TaskTo, InventoryTypeOK, TasksTypeOK, TaskAlive
  <2>3. variants' \in [1 .. Sizes -> Keys \cup {NoKey}]
    BY <1>24 DEF WriteVariant, InventoryTypeOK, TasksTypeOK, RowsTypeOK
  <2> QED BY <2>1, <2>2, <2>3 DEF TasksTypeOK
<1>25. ASSUME NEW i \in Images, SaveReady(i) PROVE TasksTypeOK'
  BY <1>25 DEF SaveReady, TaskTo, status, images, objects, tasks
<1>26. ASSUME NEW i \in Images, Raise(i) PROVE TasksTypeOK'
  BY <1>26 DEF Raise, TaskTo, status, images, objects, tasks
<1>27. ASSUME NEW i \in Images, Retry(i) PROVE TasksTypeOK'
  BY <1>27 DEF Retry, TaskTo, status, images, objects, tasks
<1>28. ASSUME NEW i \in Images, Crash(i) PROVE TasksTypeOK'
  BY <1>28 DEF Crash, TaskTo, status, images, objects, tasks
<1>29. CASE SweepSelect
  BY <1>29 DEF SweepSelect, status, images, objects, tasks
<1>30. CASE SweepHide
  BY <1>30 DEF SweepHide, status, images, objects, tasks
<1>31. CASE UNCHANGED vars
  BY <1>31 DEF vars, status, images, objects, tasks
<1> QED BY <1>1, <1>2, <1>3, <1>4, <1>5, <1>6, <1>7, <1>8, <1>9, <1>10, <1>11, <1>12,
       <1>13, <1>14, <1>15, <1>16, <1>17, <1>18, <1>19, <1>20, <1>21, <1>22, <1>23,
       <1>24, <1>25, <1>26, <1>27, <1>28, <1>29, <1>30, <1>31
       DEF Next, ImageRequest, ItemRequest, TaskStep

LEMMA NextPositionIsLast ==
  ASSUME NEW taken \in SUBSET Nat, IsFiniteSet(taken)
  PROVE  /\ NextPosition(taken) \in Nat
         /\ \A p \in taken : p < NextPosition(taken)
<1>1. CASE taken = {}
  BY <1>1 DEF NextPosition
<1>2. CASE taken # {}
  <2> DEFINE Above(p) == {q \in taken : q > p}
             family == {Above(p) : p \in taken}
  <2>1. IsWellFoundedOn(StrictSubsetOrdering(taken), FiniteSubsetsOf(taken))
    BY FS_StrictSubsetOrderingWellFounded
  <2>2. family # {} /\ family \subseteq FiniteSubsetsOf(taken)
    <3>1. ASSUME NEW p \in taken PROVE Above(p) \in FiniteSubsetsOf(taken)
      <4>1. Above(p) \in SUBSET taken
        OBVIOUS
      <4>2. IsFiniteSet(Above(p))
        BY <4>1, FS_Subset
      <4> QED BY <4>1, <4>2 DEF FiniteSubsetsOf
    <3> QED BY <1>2, <3>1
  <2>3. PICK A \in family : \A B \in family : <<B, A>> \notin StrictSubsetOrdering(taken)
    <3> HIDE DEF family
    <3> QED BY <2>1, <2>2, WFMin
  <2>4. PICK p \in taken : A = Above(p)
    BY DEF family
  <2>5. ASSUME NEW q \in taken PROVE q <= p
    <3>0. p \in Nat /\ q \in Nat
      OBVIOUS
    <3>1. CASE q > p
      <4>0. ASSUME NEW m \in Above(q) PROVE m \in Above(p)
        <5>1. m \in taken /\ m > q /\ m \in Nat
          OBVIOUS
        <5> QED BY <5>1, <3>0, <3>1
      <4>1. Above(q) \subseteq Above(p) /\ q \in Above(p) /\ q \notin Above(q)
        <5>1. Above(q) \subseteq Above(p)
          BY <4>0
        <5>2. q \in Above(p) /\ q \notin Above(q)
          BY <3>1, <3>0
        <5> QED BY <5>1, <5>2
      <4>2. <<Above(q), Above(p)>> \in StrictSubsetOrdering(taken)
        BY <4>1 DEF StrictSubsetOrdering
      <4>3. Above(q) \in family
        OBVIOUS
      <4> QED BY <2>3, <2>4, <4>2, <4>3
    <3> QED BY <3>0, <3>1
  <2> DEFINE last == CHOOSE l \in taken : \A q \in taken : q <= l
  <2>6. last \in taken /\ \A q \in taken : q <= last
    BY <2>5
  <2>7. NextPosition(taken) = 1 + last
    BY <1>2 DEF NextPosition
  <2> HIDE DEF last
  <2> QED BY <2>6, <2>7
<1> QED BY <1>1, <1>2

LEMMA PlaceIs ==
  ASSUME InventoryTypeOK, NEW r \in Requests, Place(r)
  PROVE  /\ local'[r].position \in Nat
         /\ \A i \in rows : position[i] < local'[r].position
         /\ pc[r] = "place" /\ pc' = [pc EXCEPT ![r] = "insert"]
         /\ DOMAIN local' = Requests
         /\ \A q \in Requests \ {r} : local'[q] = local[q]
         /\ local'[r].kind = local[r].kind /\ local'[r].key = local[r].key
         /\ local'[r].primary = local[r].primary /\ local'[r].wish = local[r].wish
         /\ local'[r].target = local[r].target
         /\ UNCHANGED <<item, rows, key, position, primary, overlap>>
<1> DEFINE taken == {position[i] : i \in rows}
<1>1. taken \in SUBSET Nat
  BY DEF InventoryTypeOK, RowsTypeOK
<1>2. [i \in rows |-> position[i]] \in Surjection(rows, taken)
  BY DEF Surjection
<1>3. IsFiniteSet(taken)
  BY <1>2, FS_Surjection DEF InventoryTypeOK, RowsTypeOK
<1>4. NextPosition(taken) \in Nat /\ \A i \in rows : position[i] < NextPosition(taken)
  BY <1>1, <1>3, NextPositionIsLast
<1>5. local' = [local EXCEPT ![r].position = NextPosition(taken)]
  BY DEF Place
<1> HIDE DEF taken
<1>6. /\ local'[r].position = NextPosition(taken)
      /\ DOMAIN local' = Requests
      /\ \A q \in Requests \ {r} : local'[q] = local[q]
      /\ local'[r].kind = local[r].kind /\ local'[r].key = local[r].key
      /\ local'[r].primary = local[r].primary /\ local'[r].wish = local[r].wish
      /\ local'[r].target = local[r].target
  BY <1>5 DEF InventoryTypeOK, RequestsTypeOK
<1>7. pc[r] = "place" /\ pc' = [pc EXCEPT ![r] = "insert"]
  BY DEF Place, Goto
<1>8. UNCHANGED <<item, rows, key, position, primary, overlap>>
  BY DEF Place, status, images
<1> QED BY <1>4, <1>6, <1>7, <1>8

LEMMA LocalInvStep ==
  ASSUME InventoryTypeOK, LocalInv, [Next]_vars
  PROVE  LocalInv'
<1> USE DEF InventoryTypeOK, RequestsTypeOK, RowsTypeOK, LocalInv, LocalOf, Open, Ended
<1>1. ASSUME NEW r \in Requests, BeginConfirm(r) PROVE LocalInv'
  BY <1>1, BeginConfirmIs DEF Begun
<1>2. ASSUME NEW r \in Requests, BeginPatch(r) PROVE LocalInv'
  BY <1>2, BeginPatchIs DEF Begun
<1>3. ASSUME NEW r \in Requests, BeginReorder(r) PROVE LocalInv'
  BY <1>3, BeginReorderIs DEF Begun
<1>4. ASSUME NEW r \in Requests, BeginDelete(r) PROVE LocalInv'
  BY <1>4, BeginDeleteIs DEF Begun
<1>5. ASSUME NEW r \in Requests, BeginEdit(r) PROVE LocalInv'
  BY <1>5, BeginEditIs DEF Begun
<1>6. ASSUME NEW r \in Requests, BeginRefresh(r) PROVE LocalInv'
  BY <1>6, BeginRefreshIs DEF Begun
<1>7. ASSUME NEW r \in Requests, BeginDestroy(r) PROVE LocalInv'
  BY <1>7, BeginDestroyIs DEF Begun
<1>8. ASSUME NEW r \in Requests, Demote(r) PROVE LocalInv'
  BY <1>8, LeaveIs DEF Demote, Goto, status, images, objects, tasks
<1>9. ASSUME NEW r \in Requests, Place(r) PROVE LocalInv'
  BY <1>9, PlaceIs
<1>10. ASSUME NEW r \in Requests, Insert(r) PROVE LocalInv'
  BY <1>10, LeaveIs DEF Insert, Goto, status, images, objects, tasks
<1>11. ASSUME NEW r \in Requests, Delay(r) PROVE LocalInv'
  BY <1>11, LeaveIs DEF Delay, Goto, status, images, objects, tasks
<1>12. ASSUME NEW r \in Requests, ApplyPatch(r) PROVE LocalInv'
  BY <1>12, LeaveIs DEF ApplyPatch, Goto, status, images, objects, tasks
<1>13. ASSUME NEW r \in Requests, ApplyReorder(r) PROVE LocalInv'
  BY <1>13, LeaveIs DEF ApplyReorder, Goto, status, images, objects, tasks
<1>14. ASSUME NEW r \in Requests, DeleteObject(r) PROVE LocalInv'
  BY <1>14, LeaveIs DEF DeleteObject, Goto, status, images, objects, tasks
<1>15. ASSUME NEW r \in Requests, DeleteRow(r) PROVE LocalInv'
  BY <1>15, LeaveIs DEF DeleteRow, Goto, status, images, objects, tasks
<1>16. ASSUME NEW r \in Requests, Promote(r) PROVE LocalInv'
  <2>1. CASE rows = {}
    <3>1. pc[r] = "promote" /\ Leave(r, "done")
      BY <1>16, <2>1 DEF Promote
    <3>2. UNCHANGED <<status, images, objects, tasks, overlap>>
      BY <1>16 DEF Promote
    <3> QED BY <2>1, <3>1, <3>2, LeaveIs DEF status, images, objects, tasks
  <2>2. CASE rows # {}
    <3>1. PICK i \in rows : local' = [local EXCEPT ![r].target = i]
      BY <1>16, <2>2 DEF Promote
    <3>2. /\ DOMAIN local' = Requests
          /\ \A q \in Requests \ {r} : local'[q] = local[q]
          /\ local'[r].kind = local[r].kind /\ local'[r].target = i
          /\ local'[r].primary = local[r].primary /\ local'[r].wish = local[r].wish
      BY <3>1 DEF InventoryTypeOK, RequestsTypeOK
    <3>3. pc[r] = "promote" /\ pc' = [pc EXCEPT ![r] = "mark"]
      BY <1>16, <2>2 DEF Promote, Goto
    <3>4. UNCHANGED <<status, images, objects, tasks, overlap>>
      BY <1>16 DEF Promote
    <3> QED BY <3>2, <3>3, <3>4 DEF status, images, objects, tasks
  <2> QED BY <2>1, <2>2
<1>17. ASSUME NEW r \in Requests, Mark(r) PROVE LocalInv'
  BY <1>17, LeaveIs DEF Mark, Goto, status, images, objects, tasks
<1>18. ASSUME NEW r \in Requests, SaveEdit(r) PROVE LocalInv'
  BY <1>18, LeaveIs DEF SaveEdit, Goto, status, images, objects, tasks
<1>19. ASSUME NEW r \in Requests, SaveRefresh(r) PROVE LocalInv'
  BY <1>19, LeaveIs DEF SaveRefresh, Goto, status, images, objects, tasks
<1>20. ASSUME NEW r \in Requests, DestroyRows(r) PROVE LocalInv'
  BY <1>20, LeaveIs DEF DestroyRows, Goto, status, images, objects, tasks
<1>21. ASSUME NEW r \in Requests, DestroyObjects(r) PROVE LocalInv'
  BY <1>21, LeaveIs DEF DestroyObjects, Goto, status, images, objects, tasks
<1>22. ASSUME NEW r \in Requests, Lose(r) PROVE LocalInv'
  BY <1>22, LeaveIs DEF Lose, Goto, status, images, objects, tasks
<1>23. ASSUME NEW i \in Images, Load(i) PROVE LocalInv'
  BY <1>23 DEF Load, TaskTo, status, images, objects, tasks
<1>24. ASSUME NEW i \in Images, WriteVariant(i) PROVE LocalInv'
  BY <1>24 DEF WriteVariant, TaskTo, status, images, objects, tasks
<1>25. ASSUME NEW i \in Images, SaveReady(i) PROVE LocalInv'
  BY <1>25 DEF SaveReady, TaskTo, status, images, objects, tasks
<1>26. ASSUME NEW i \in Images, Raise(i) PROVE LocalInv'
  BY <1>26 DEF Raise, TaskTo, status, images, objects, tasks
<1>27. ASSUME NEW i \in Images, Retry(i) PROVE LocalInv'
  BY <1>27 DEF Retry, TaskTo, status, images, objects, tasks
<1>28. ASSUME NEW i \in Images, Crash(i) PROVE LocalInv'
  BY <1>28 DEF Crash, TaskTo, status, images, objects, tasks
<1>29. CASE SweepSelect
  BY <1>29 DEF SweepSelect, status, images, objects, tasks
<1>30. CASE SweepHide
  BY <1>30 DEF SweepHide, status, images, objects, tasks
<1>31. CASE UNCHANGED vars
  BY <1>31 DEF vars, status, images, objects, tasks
<1> QED BY <1>1, <1>2, <1>3, <1>4, <1>5, <1>6, <1>7, <1>8, <1>9, <1>10, <1>11, <1>12,
       <1>13, <1>14, <1>15, <1>16, <1>17, <1>18, <1>19, <1>20, <1>21, <1>22, <1>23,
       <1>24, <1>25, <1>26, <1>27, <1>28, <1>29, <1>30, <1>31
       DEF Next, ImageRequest, ItemRequest, TaskStep

LEMMA FreshInvStep ==
  ASSUME InventoryTypeOK, LocalInv, FreshInv, [Next]_vars
  PROVE  FreshInv'
<1> USE DEF InventoryTypeOK, RequestsTypeOK, RowsTypeOK, TasksTypeOK, LocalInv, LocalOf,
   FreshInv, Open, Ended, Images, TaskAlive
<1>1. ASSUME NEW r \in Requests, BeginConfirm(r) PROVE FreshInv'
  BY <1>1, BeginConfirmIs DEF Begun
<1>2. ASSUME NEW r \in Requests, BeginPatch(r) PROVE FreshInv'
  BY <1>2, BeginPatchIs DEF Begun
<1>3. ASSUME NEW r \in Requests, BeginReorder(r) PROVE FreshInv'
  BY <1>3, BeginReorderIs DEF Begun
<1>4. ASSUME NEW r \in Requests, BeginDelete(r) PROVE FreshInv'
  BY <1>4, BeginDeleteIs DEF Begun
<1>5. ASSUME NEW r \in Requests, BeginEdit(r) PROVE FreshInv'
  BY <1>5, BeginEditIs DEF Begun
<1>6. ASSUME NEW r \in Requests, BeginRefresh(r) PROVE FreshInv'
  BY <1>6, BeginRefreshIs DEF Begun
<1>7. ASSUME NEW r \in Requests, BeginDestroy(r) PROVE FreshInv'
  BY <1>7, BeginDestroyIs DEF Begun
<1>8. ASSUME NEW r \in Requests, Demote(r) PROVE FreshInv'
  BY <1>8, LeaveIs DEF Demote, Goto, status, images, objects, tasks
<1>9. ASSUME NEW r \in Requests, Place(r) PROVE FreshInv'
  BY <1>9, LeaveIs DEF Place, Goto, status, images, objects, tasks
<1>10. ASSUME NEW r \in Requests, Insert(r) PROVE FreshInv'
  BY <1>10, LeaveIs DEF Insert, Goto, status, images, objects, tasks
<1>11. ASSUME NEW r \in Requests, Delay(r) PROVE FreshInv'
  BY <1>11, LeaveIs DEF Delay, Goto, status, images, objects, tasks
<1>12. ASSUME NEW r \in Requests, ApplyPatch(r) PROVE FreshInv'
  BY <1>12, LeaveIs DEF ApplyPatch, Goto, status, images, objects, tasks
<1>13. ASSUME NEW r \in Requests, ApplyReorder(r) PROVE FreshInv'
  BY <1>13, LeaveIs DEF ApplyReorder, Goto, status, images, objects, tasks
<1>14. ASSUME NEW r \in Requests, DeleteObject(r) PROVE FreshInv'
  BY <1>14, LeaveIs DEF DeleteObject, Goto, status, images, objects, tasks
<1>15. ASSUME NEW r \in Requests, DeleteRow(r) PROVE FreshInv'
  BY <1>15, LeaveIs DEF DeleteRow, Goto, status, images, objects, tasks
<1>16. ASSUME NEW r \in Requests, Promote(r) PROVE FreshInv'
  BY <1>16, LeaveIs DEF Promote, Goto, status, images, objects, tasks
<1>17. ASSUME NEW r \in Requests, Mark(r) PROVE FreshInv'
  BY <1>17, LeaveIs DEF Mark, Goto, status, images, objects, tasks
<1>18. ASSUME NEW r \in Requests, SaveEdit(r) PROVE FreshInv'
  BY <1>18, LeaveIs DEF SaveEdit, Goto, status, images, objects, tasks
<1>19. ASSUME NEW r \in Requests, SaveRefresh(r) PROVE FreshInv'
  BY <1>19, LeaveIs DEF SaveRefresh, Goto, status, images, objects, tasks
<1>20. ASSUME NEW r \in Requests, DestroyRows(r) PROVE FreshInv'
  BY <1>20, LeaveIs DEF DestroyRows, Goto, status, images, objects, tasks
<1>21. ASSUME NEW r \in Requests, DestroyObjects(r) PROVE FreshInv'
  BY <1>21, LeaveIs DEF DestroyObjects, Goto, status, images, objects, tasks
<1>22. ASSUME NEW r \in Requests, Lose(r) PROVE FreshInv'
  BY <1>22, LeaveIs DEF Lose, Goto, status, images, objects, tasks
<1>23. ASSUME NEW i \in Images, Load(i) PROVE FreshInv'
  BY <1>23 DEF Load, TaskTo, status, images, objects, tasks
<1>24. ASSUME NEW i \in Images, WriteVariant(i) PROVE FreshInv'
  BY <1>24 DEF WriteVariant, TaskTo, status, images, objects, tasks
<1>25. ASSUME NEW i \in Images, SaveReady(i) PROVE FreshInv'
  BY <1>25 DEF SaveReady, TaskTo, status, images, objects, tasks
<1>26. ASSUME NEW i \in Images, Raise(i) PROVE FreshInv'
  BY <1>26 DEF Raise, TaskTo, status, images, objects, tasks
<1>27. ASSUME NEW i \in Images, Retry(i) PROVE FreshInv'
  BY <1>27 DEF Retry, TaskTo, status, images, objects, tasks
<1>28. ASSUME NEW i \in Images, Crash(i) PROVE FreshInv'
  BY <1>28 DEF Crash, TaskTo, status, images, objects, tasks
<1>29. CASE SweepSelect
  BY <1>29 DEF SweepSelect, status, images, objects, tasks
<1>30. CASE SweepHide
  BY <1>30 DEF SweepHide, status, images, objects, tasks
<1>31. CASE UNCHANGED vars
  BY <1>31 DEF vars, status, images, objects, tasks
<1> QED BY <1>1, <1>2, <1>3, <1>4, <1>5, <1>6, <1>7, <1>8, <1>9, <1>10, <1>11, <1>12,
       <1>13, <1>14, <1>15, <1>16, <1>17, <1>18, <1>19, <1>20, <1>21, <1>22, <1>23,
       <1>24, <1>25, <1>26, <1>27, <1>28, <1>29, <1>30, <1>31
       DEF Next, ImageRequest, ItemRequest, TaskStep

LEMMA KeyInvStep ==
  ASSUME InventoryTypeOK, LocalInv, FreshInv, KeyInv, [Next]_vars
  PROVE  KeyInv'
<1> USE DEF InventoryTypeOK, RequestsTypeOK, RowsTypeOK, FreshInv, LocalInv, LocalOf,
   KeyInv, Open, Ended, Images
<1>1. ASSUME NEW r \in Requests, BeginConfirm(r) PROVE KeyInv'
  BY <1>1, BeginConfirmIs DEF Begun
<1>2. ASSUME NEW r \in Requests, BeginPatch(r) PROVE KeyInv'
  BY <1>2, BeginPatchIs DEF Begun
<1>3. ASSUME NEW r \in Requests, BeginReorder(r) PROVE KeyInv'
  BY <1>3, BeginReorderIs DEF Begun
<1>4. ASSUME NEW r \in Requests, BeginDelete(r) PROVE KeyInv'
  BY <1>4, BeginDeleteIs DEF Begun
<1>5. ASSUME NEW r \in Requests, BeginEdit(r) PROVE KeyInv'
  BY <1>5, BeginEditIs DEF Begun
<1>6. ASSUME NEW r \in Requests, BeginRefresh(r) PROVE KeyInv'
  BY <1>6, BeginRefreshIs DEF Begun
<1>7. ASSUME NEW r \in Requests, BeginDestroy(r) PROVE KeyInv'
  BY <1>7, BeginDestroyIs DEF Begun
<1>8. ASSUME NEW r \in Requests, Demote(r) PROVE KeyInv'
  BY <1>8, LeaveIs DEF Demote, Goto, status, images, objects, tasks
<1>9. ASSUME NEW r \in Requests, Place(r) PROVE KeyInv'
  BY <1>9, LeaveIs DEF Place, Goto, status, images, objects, tasks
<1>10. ASSUME NEW r \in Requests, Insert(r) PROVE KeyInv'
  <2>1. r \in Images /\ r \notin rows /\ key[r] = NoKey /\ task[r] = "none"
    BY <1>10 DEF Insert, FreshInv, Images
  <2>2. local[r].key \in Keys /\ NoKey \notin Keys
    BY <1>10, InventoryAssumption DEF Insert, LocalInv, LocalOf
  <2>3. CASE Leave(r, "refused") /\ UNCHANGED images
    BY <1>10, <2>3, LeaveIs DEF Insert, status, images, objects, tasks
  <2>4. CASE /\ rows' = rows \cup {r}
             /\ key' = [key EXCEPT ![r] = local[r].key]
             /\ Leave(r, "delay")
             /\ UNCHANGED ready
    BY <1>10, <2>1, <2>2, <2>4, LeaveIs DEF Insert, status, objects, tasks
  <2> QED BY <1>10, <2>3, <2>4 DEF Insert
<1>11. ASSUME NEW r \in Requests, Delay(r) PROVE KeyInv'
  BY <1>11, LeaveIs DEF Delay, Goto, status, images, objects, tasks
<1>12. ASSUME NEW r \in Requests, ApplyPatch(r) PROVE KeyInv'
  BY <1>12, LeaveIs DEF ApplyPatch, Goto, status, images, objects, tasks
<1>13. ASSUME NEW r \in Requests, ApplyReorder(r) PROVE KeyInv'
  BY <1>13, LeaveIs DEF ApplyReorder, Goto, status, images, objects, tasks
<1>14. ASSUME NEW r \in Requests, DeleteObject(r) PROVE KeyInv'
  BY <1>14, LeaveIs DEF DeleteObject, Goto, status, images, objects, tasks
<1>15. ASSUME NEW r \in Requests, DeleteRow(r) PROVE KeyInv'
  BY <1>15, LeaveIs DEF DeleteRow, Goto, status, images, objects, tasks
<1>16. ASSUME NEW r \in Requests, Promote(r) PROVE KeyInv'
  BY <1>16, LeaveIs DEF Promote, Goto, status, images, objects, tasks
<1>17. ASSUME NEW r \in Requests, Mark(r) PROVE KeyInv'
  BY <1>17, LeaveIs DEF Mark, Goto, status, images, objects, tasks
<1>18. ASSUME NEW r \in Requests, SaveEdit(r) PROVE KeyInv'
  BY <1>18, LeaveIs DEF SaveEdit, Goto, status, images, objects, tasks
<1>19. ASSUME NEW r \in Requests, SaveRefresh(r) PROVE KeyInv'
  BY <1>19, LeaveIs DEF SaveRefresh, Goto, status, images, objects, tasks
<1>20. ASSUME NEW r \in Requests, DestroyRows(r) PROVE KeyInv'
  BY <1>20, LeaveIs DEF DestroyRows, Goto, status, images, objects, tasks
<1>21. ASSUME NEW r \in Requests, DestroyObjects(r) PROVE KeyInv'
  BY <1>21, LeaveIs DEF DestroyObjects, Goto, status, images, objects, tasks
<1>22. ASSUME NEW r \in Requests, Lose(r) PROVE KeyInv'
  BY <1>22, LeaveIs DEF Lose, Goto, status, images, objects, tasks
<1>23. ASSUME NEW i \in Images, Load(i) PROVE KeyInv'
  BY <1>23 DEF Load, TaskTo, status, images, objects, tasks
<1>24. ASSUME NEW i \in Images, WriteVariant(i) PROVE KeyInv'
  BY <1>24 DEF WriteVariant, TaskTo, status, images, objects, tasks
<1>25. ASSUME NEW i \in Images, SaveReady(i) PROVE KeyInv'
  BY <1>25 DEF SaveReady, TaskTo, status, images, objects, tasks
<1>26. ASSUME NEW i \in Images, Raise(i) PROVE KeyInv'
  BY <1>26 DEF Raise, TaskTo, status, images, objects, tasks
<1>27. ASSUME NEW i \in Images, Retry(i) PROVE KeyInv'
  BY <1>27 DEF Retry, TaskTo, status, images, objects, tasks
<1>28. ASSUME NEW i \in Images, Crash(i) PROVE KeyInv'
  BY <1>28 DEF Crash, TaskTo, status, images, objects, tasks
<1>29. CASE SweepSelect
  BY <1>29 DEF SweepSelect, status, images, objects, tasks
<1>30. CASE SweepHide
  BY <1>30 DEF SweepHide, status, images, objects, tasks
<1>31. CASE UNCHANGED vars
  BY <1>31 DEF vars, status, images, objects, tasks
<1> QED BY <1>1, <1>2, <1>3, <1>4, <1>5, <1>6, <1>7, <1>8, <1>9, <1>10, <1>11, <1>12,
       <1>13, <1>14, <1>15, <1>16, <1>17, <1>18, <1>19, <1>20, <1>21, <1>22, <1>23,
       <1>24, <1>25, <1>26, <1>27, <1>28, <1>29, <1>30, <1>31
       DEF Next, ImageRequest, ItemRequest, TaskStep

LEMMA OriginalKeptStep ==
  ASSUME InventoryTypeOK, LocalInv, FreshInv, KeyInv, OriginalKept, [Next]_vars
  PROVE  OriginalKept'
<1> USE DEF InventoryTypeOK, RequestsTypeOK, RowsTypeOK, FreshInv, LocalInv, LocalOf,
   KeyInv, Open, Ended, Images, OriginalKept
<1>1. ASSUME NEW r \in Requests, BeginConfirm(r) PROVE OriginalKept'
  BY <1>1, BeginConfirmIs DEF Begun
<1>2. ASSUME NEW r \in Requests, BeginPatch(r) PROVE OriginalKept'
  BY <1>2, BeginPatchIs DEF Begun
<1>3. ASSUME NEW r \in Requests, BeginReorder(r) PROVE OriginalKept'
  BY <1>3, BeginReorderIs DEF Begun
<1>4. ASSUME NEW r \in Requests, BeginDelete(r) PROVE OriginalKept'
  BY <1>4, BeginDeleteIs DEF Begun
<1>5. ASSUME NEW r \in Requests, BeginEdit(r) PROVE OriginalKept'
  BY <1>5, BeginEditIs DEF Begun
<1>6. ASSUME NEW r \in Requests, BeginRefresh(r) PROVE OriginalKept'
  BY <1>6, BeginRefreshIs DEF Begun
<1>7. ASSUME NEW r \in Requests, BeginDestroy(r) PROVE OriginalKept'
  BY <1>7, BeginDestroyIs DEF Begun
<1>8. ASSUME NEW r \in Requests, Demote(r) PROVE OriginalKept'
  BY <1>8, LeaveIs DEF Demote, Goto, status, images, objects, tasks
<1>9. ASSUME NEW r \in Requests, Place(r) PROVE OriginalKept'
  BY <1>9, LeaveIs DEF Place, Goto, status, images, objects, tasks
<1>10. ASSUME NEW r \in Requests, Insert(r) PROVE OriginalKept'
  <2>1. r \in Images /\ r \notin rows /\ key[r] = NoKey /\ task[r] = "none"
    BY <1>10 DEF Insert, FreshInv, Images
  <2>2. local[r].key \in Keys /\ NoKey \notin Keys
    BY <1>10, InventoryAssumption DEF Insert, LocalInv, LocalOf
  <2>3. CASE Leave(r, "refused") /\ UNCHANGED images
    BY <1>10, <2>3, LeaveIs DEF Insert, status, images, objects, tasks
  <2>4. CASE /\ rows' = rows \cup {r}
             /\ key' = [key EXCEPT ![r] = local[r].key]
             /\ Leave(r, "delay")
             /\ UNCHANGED ready
    BY <1>10, <2>1, <2>2, <2>4, LeaveIs DEF Insert, status, objects, tasks
  <2> QED BY <1>10, <2>3, <2>4 DEF Insert
<1>11. ASSUME NEW r \in Requests, Delay(r) PROVE OriginalKept'
  BY <1>11, LeaveIs DEF Delay, Goto, status, images, objects, tasks
<1>12. ASSUME NEW r \in Requests, ApplyPatch(r) PROVE OriginalKept'
  BY <1>12, LeaveIs DEF ApplyPatch, Goto, status, images, objects, tasks
<1>13. ASSUME NEW r \in Requests, ApplyReorder(r) PROVE OriginalKept'
  BY <1>13, LeaveIs DEF ApplyReorder, Goto, status, images, objects, tasks
<1>14. ASSUME NEW r \in Requests, DeleteObject(r) PROVE OriginalKept'
  BY <1>14, LeaveIs DEF DeleteObject, Goto, status, images, objects, tasks
<1>15. ASSUME NEW r \in Requests, DeleteRow(r) PROVE OriginalKept'
  BY <1>15, LeaveIs DEF DeleteRow, Goto, status, images, objects, tasks
<1>16. ASSUME NEW r \in Requests, Promote(r) PROVE OriginalKept'
  BY <1>16, LeaveIs DEF Promote, Goto, status, images, objects, tasks
<1>17. ASSUME NEW r \in Requests, Mark(r) PROVE OriginalKept'
  BY <1>17, LeaveIs DEF Mark, Goto, status, images, objects, tasks
<1>18. ASSUME NEW r \in Requests, SaveEdit(r) PROVE OriginalKept'
  BY <1>18, LeaveIs DEF SaveEdit, Goto, status, images, objects, tasks
<1>19. ASSUME NEW r \in Requests, SaveRefresh(r) PROVE OriginalKept'
  BY <1>19, LeaveIs DEF SaveRefresh, Goto, status, images, objects, tasks
<1>20. ASSUME NEW r \in Requests, DestroyRows(r) PROVE OriginalKept'
  BY <1>20, LeaveIs DEF DestroyRows, Goto, status, images, objects, tasks
<1>21. ASSUME NEW r \in Requests, DestroyObjects(r) PROVE OriginalKept'
  BY <1>21, LeaveIs DEF DestroyObjects, Goto, status, images, objects, tasks
<1>22. ASSUME NEW r \in Requests, Lose(r) PROVE OriginalKept'
  BY <1>22, LeaveIs DEF Lose, Goto, status, images, objects, tasks
<1>23. ASSUME NEW i \in Images, Load(i) PROVE OriginalKept'
  BY <1>23 DEF Load, TaskTo, status, images, objects, tasks
<1>24. ASSUME NEW i \in Images, WriteVariant(i) PROVE OriginalKept'
  BY <1>24 DEF WriteVariant, TaskTo, status, images, objects, tasks
<1>25. ASSUME NEW i \in Images, SaveReady(i) PROVE OriginalKept'
  BY <1>25 DEF SaveReady, TaskTo, status, images, objects, tasks
<1>26. ASSUME NEW i \in Images, Raise(i) PROVE OriginalKept'
  BY <1>26 DEF Raise, TaskTo, status, images, objects, tasks
<1>27. ASSUME NEW i \in Images, Retry(i) PROVE OriginalKept'
  BY <1>27 DEF Retry, TaskTo, status, images, objects, tasks
<1>28. ASSUME NEW i \in Images, Crash(i) PROVE OriginalKept'
  BY <1>28 DEF Crash, TaskTo, status, images, objects, tasks
<1>29. CASE SweepSelect
  BY <1>29 DEF SweepSelect, status, images, objects, tasks
<1>30. CASE SweepHide
  BY <1>30 DEF SweepHide, status, images, objects, tasks
<1>31. CASE UNCHANGED vars
  BY <1>31 DEF vars, status, images, objects, tasks
<1> QED BY <1>1, <1>2, <1>3, <1>4, <1>5, <1>6, <1>7, <1>8, <1>9, <1>10, <1>11, <1>12,
       <1>13, <1>14, <1>15, <1>16, <1>17, <1>18, <1>19, <1>20, <1>21, <1>22, <1>23,
       <1>24, <1>25, <1>26, <1>27, <1>28, <1>29, <1>30, <1>31
       DEF Next, ImageRequest, ItemRequest, TaskStep

LEMMA VariantInvStep ==
  ASSUME InventoryTypeOK, LocalInv, FreshInv, VariantInv, [Next]_vars
  PROVE  VariantInv'
<1> USE DEF InventoryTypeOK, RequestsTypeOK, RowsTypeOK, TasksTypeOK, FreshInv,
   VariantInv, Open, Ended, Images, TaskAlive
<1>1. ASSUME NEW r \in Requests, BeginConfirm(r) PROVE VariantInv'
  <2> HIDE DEF InventoryTypeOK
  <2>1. Begun(r)
    BY <1>1, BeginConfirmIs
  <2>2. UNCHANGED <<key, ready, variants, task, size>>
    BY <2>1 DEF Begun
  <2> QED BY <2>2
<1>2. ASSUME NEW r \in Requests, BeginPatch(r) PROVE VariantInv'
  <2> HIDE DEF InventoryTypeOK
  <2>1. Begun(r)
    BY <1>2, BeginPatchIs
  <2>2. UNCHANGED <<key, ready, variants, task, size>>
    BY <2>1 DEF Begun
  <2> QED BY <2>2
<1>3. ASSUME NEW r \in Requests, BeginReorder(r) PROVE VariantInv'
  <2> HIDE DEF InventoryTypeOK
  <2>1. Begun(r)
    BY <1>3, BeginReorderIs
  <2>2. UNCHANGED <<key, ready, variants, task, size>>
    BY <2>1 DEF Begun
  <2> QED BY <2>2
<1>4. ASSUME NEW r \in Requests, BeginDelete(r) PROVE VariantInv'
  <2> HIDE DEF InventoryTypeOK
  <2>1. Begun(r)
    BY <1>4, BeginDeleteIs
  <2>2. UNCHANGED <<key, ready, variants, task, size>>
    BY <2>1 DEF Begun
  <2> QED BY <2>2
<1>5. ASSUME NEW r \in Requests, BeginEdit(r) PROVE VariantInv'
  <2> HIDE DEF InventoryTypeOK
  <2>1. Begun(r)
    BY <1>5, BeginEditIs
  <2>2. UNCHANGED <<key, ready, variants, task, size>>
    BY <2>1 DEF Begun
  <2> QED BY <2>2
<1>6. ASSUME NEW r \in Requests, BeginRefresh(r) PROVE VariantInv'
  <2> HIDE DEF InventoryTypeOK
  <2>1. Begun(r)
    BY <1>6, BeginRefreshIs
  <2>2. UNCHANGED <<key, ready, variants, task, size>>
    BY <2>1 DEF Begun
  <2> QED BY <2>2
<1>7. ASSUME NEW r \in Requests, BeginDestroy(r) PROVE VariantInv'
  <2> HIDE DEF InventoryTypeOK
  <2>1. Begun(r)
    BY <1>7, BeginDestroyIs
  <2>2. UNCHANGED <<key, ready, variants, task, size>>
    BY <2>1 DEF Begun
  <2> QED BY <2>2
<1>8. ASSUME NEW r \in Requests, Demote(r) PROVE VariantInv'
  BY <1>8, LeaveIs DEF Demote, Goto, status, images, objects, tasks
<1>9. ASSUME NEW r \in Requests, Place(r) PROVE VariantInv'
  BY <1>9, LeaveIs DEF Place, Goto, status, images, objects, tasks
<1>10. ASSUME NEW r \in Requests, Insert(r) PROVE VariantInv'
  <2>1. r \in Images /\ r \notin rows /\ key[r] = NoKey /\ task[r] = "none"
    BY <1>10 DEF Insert, FreshInv, Images
  <2>2. local[r].key \in Keys /\ NoKey \notin Keys
    BY <1>10, InventoryAssumption DEF Insert, LocalInv, LocalOf
  <2>3. CASE Leave(r, "refused") /\ UNCHANGED images
    BY <1>10, <2>3, LeaveIs DEF Insert, status, images, objects, tasks
  <2>4. CASE /\ rows' = rows \cup {r}
             /\ key' = [key EXCEPT ![r] = local[r].key]
             /\ Leave(r, "delay")
             /\ UNCHANGED ready
    BY <1>10, <2>1, <2>2, <2>4, LeaveIs DEF Insert, status, objects, tasks
  <2> QED BY <1>10, <2>3, <2>4 DEF Insert
<1>11. ASSUME NEW r \in Requests, Delay(r) PROVE VariantInv'
  BY <1>11, LeaveIs DEF Delay, Goto, status, images, objects, tasks
<1>12. ASSUME NEW r \in Requests, ApplyPatch(r) PROVE VariantInv'
  BY <1>12, LeaveIs DEF ApplyPatch, Goto, status, images, objects, tasks
<1>13. ASSUME NEW r \in Requests, ApplyReorder(r) PROVE VariantInv'
  BY <1>13, LeaveIs DEF ApplyReorder, Goto, status, images, objects, tasks
<1>14. ASSUME NEW r \in Requests, DeleteObject(r) PROVE VariantInv'
  BY <1>14, LeaveIs DEF DeleteObject, Goto, status, images, objects, tasks
<1>15. ASSUME NEW r \in Requests, DeleteRow(r) PROVE VariantInv'
  BY <1>15, LeaveIs DEF DeleteRow, Goto, status, images, objects, tasks
<1>16. ASSUME NEW r \in Requests, Promote(r) PROVE VariantInv'
  BY <1>16, LeaveIs DEF Promote, Goto, status, images, objects, tasks
<1>17. ASSUME NEW r \in Requests, Mark(r) PROVE VariantInv'
  BY <1>17, LeaveIs DEF Mark, Goto, status, images, objects, tasks
<1>18. ASSUME NEW r \in Requests, SaveEdit(r) PROVE VariantInv'
  BY <1>18, LeaveIs DEF SaveEdit, Goto, status, images, objects, tasks
<1>19. ASSUME NEW r \in Requests, SaveRefresh(r) PROVE VariantInv'
  BY <1>19, LeaveIs DEF SaveRefresh, Goto, status, images, objects, tasks
<1>20. ASSUME NEW r \in Requests, DestroyRows(r) PROVE VariantInv'
  BY <1>20, LeaveIs DEF DestroyRows, Goto, status, images, objects, tasks
<1>21. ASSUME NEW r \in Requests, DestroyObjects(r) PROVE VariantInv'
  BY <1>21, LeaveIs DEF DestroyObjects, Goto, status, images, objects, tasks
<1>22. ASSUME NEW r \in Requests, Lose(r) PROVE VariantInv'
  BY <1>22, LeaveIs DEF Lose, Goto, status, images, objects, tasks
<1>23. ASSUME NEW i \in Images, Load(i) PROVE VariantInv'
  BY <1>23, InventoryAssumption DEF Load, TaskTo, status, images, objects, tasks
<1>24. ASSUME NEW i \in Images, WriteVariant(i) PROVE VariantInv'
  BY <1>24, InventoryAssumption DEF WriteVariant, TaskTo, status, images, objects, tasks
<1>25. ASSUME NEW i \in Images, SaveReady(i) PROVE VariantInv'
  BY <1>25, InventoryAssumption DEF SaveReady, TaskTo, status, images, objects, tasks
<1>26. ASSUME NEW i \in Images, Raise(i) PROVE VariantInv'
  BY <1>26, InventoryAssumption DEF Raise, TaskTo, status, images, objects, tasks
<1>27. ASSUME NEW i \in Images, Retry(i) PROVE VariantInv'
  BY <1>27, InventoryAssumption DEF Retry, TaskTo, status, images, objects, tasks
<1>28. ASSUME NEW i \in Images, Crash(i) PROVE VariantInv'
  BY <1>28, InventoryAssumption DEF Crash, TaskTo, status, images, objects, tasks
<1>29. CASE SweepSelect
  BY <1>29 DEF SweepSelect, status, images, objects, tasks
<1>30. CASE SweepHide
  BY <1>30 DEF SweepHide, status, images, objects, tasks
<1>31. CASE UNCHANGED vars
  BY <1>31 DEF vars, status, images, objects, tasks
<1> QED BY <1>1, <1>2, <1>3, <1>4, <1>5, <1>6, <1>7, <1>8, <1>9, <1>10, <1>11, <1>12,
       <1>13, <1>14, <1>15, <1>16, <1>17, <1>18, <1>19, <1>20, <1>21, <1>22, <1>23,
       <1>24, <1>25, <1>26, <1>27, <1>28, <1>29, <1>30, <1>31
       DEF Next, ImageRequest, ItemRequest, TaskStep

LEMMA ReadyInvStep ==
  ASSUME InventoryTypeOK, FreshInv, VariantInv, ReadyInv, [Next]_vars
  PROVE  ReadyInv'
<1> USE DEF InventoryTypeOK, RequestsTypeOK, RowsTypeOK, TasksTypeOK, FreshInv,
   VariantInv, ReadyInv, Images
<1>1. ASSUME NEW r \in Requests, BeginConfirm(r) PROVE ReadyInv'
  <2> HIDE DEF InventoryTypeOK
  <2>1. Begun(r)
    BY <1>1, BeginConfirmIs
  <2>2. UNCHANGED <<key, ready, variants, task, size>>
    BY <2>1 DEF Begun
  <2> QED BY <2>2
<1>2. ASSUME NEW r \in Requests, BeginPatch(r) PROVE ReadyInv'
  <2> HIDE DEF InventoryTypeOK
  <2>1. Begun(r)
    BY <1>2, BeginPatchIs
  <2>2. UNCHANGED <<key, ready, variants, task, size>>
    BY <2>1 DEF Begun
  <2> QED BY <2>2
<1>3. ASSUME NEW r \in Requests, BeginReorder(r) PROVE ReadyInv'
  <2> HIDE DEF InventoryTypeOK
  <2>1. Begun(r)
    BY <1>3, BeginReorderIs
  <2>2. UNCHANGED <<key, ready, variants, task, size>>
    BY <2>1 DEF Begun
  <2> QED BY <2>2
<1>4. ASSUME NEW r \in Requests, BeginDelete(r) PROVE ReadyInv'
  <2> HIDE DEF InventoryTypeOK
  <2>1. Begun(r)
    BY <1>4, BeginDeleteIs
  <2>2. UNCHANGED <<key, ready, variants, task, size>>
    BY <2>1 DEF Begun
  <2> QED BY <2>2
<1>5. ASSUME NEW r \in Requests, BeginEdit(r) PROVE ReadyInv'
  <2> HIDE DEF InventoryTypeOK
  <2>1. Begun(r)
    BY <1>5, BeginEditIs
  <2>2. UNCHANGED <<key, ready, variants, task, size>>
    BY <2>1 DEF Begun
  <2> QED BY <2>2
<1>6. ASSUME NEW r \in Requests, BeginRefresh(r) PROVE ReadyInv'
  <2> HIDE DEF InventoryTypeOK
  <2>1. Begun(r)
    BY <1>6, BeginRefreshIs
  <2>2. UNCHANGED <<key, ready, variants, task, size>>
    BY <2>1 DEF Begun
  <2> QED BY <2>2
<1>7. ASSUME NEW r \in Requests, BeginDestroy(r) PROVE ReadyInv'
  <2> HIDE DEF InventoryTypeOK
  <2>1. Begun(r)
    BY <1>7, BeginDestroyIs
  <2>2. UNCHANGED <<key, ready, variants, task, size>>
    BY <2>1 DEF Begun
  <2> QED BY <2>2
<1>8. ASSUME NEW r \in Requests, Demote(r) PROVE ReadyInv'
  BY <1>8, LeaveIs DEF Demote, Goto, status, images, objects, tasks
<1>9. ASSUME NEW r \in Requests, Place(r) PROVE ReadyInv'
  BY <1>9, LeaveIs DEF Place, Goto, status, images, objects, tasks
<1>10. ASSUME NEW r \in Requests, Insert(r) PROVE ReadyInv'
  BY <1>10, LeaveIs DEF Insert, Goto, status, images, objects, tasks
<1>11. ASSUME NEW r \in Requests, Delay(r) PROVE ReadyInv'
  BY <1>11, LeaveIs DEF Delay, Goto, status, images, objects, tasks
<1>12. ASSUME NEW r \in Requests, ApplyPatch(r) PROVE ReadyInv'
  BY <1>12, LeaveIs DEF ApplyPatch, Goto, status, images, objects, tasks
<1>13. ASSUME NEW r \in Requests, ApplyReorder(r) PROVE ReadyInv'
  BY <1>13, LeaveIs DEF ApplyReorder, Goto, status, images, objects, tasks
<1>14. ASSUME NEW r \in Requests, DeleteObject(r) PROVE ReadyInv'
  BY <1>14, LeaveIs DEF DeleteObject, Goto, status, images, objects, tasks
<1>15. ASSUME NEW r \in Requests, DeleteRow(r) PROVE ReadyInv'
  BY <1>15, LeaveIs DEF DeleteRow, Goto, status, images, objects, tasks
<1>16. ASSUME NEW r \in Requests, Promote(r) PROVE ReadyInv'
  BY <1>16, LeaveIs DEF Promote, Goto, status, images, objects, tasks
<1>17. ASSUME NEW r \in Requests, Mark(r) PROVE ReadyInv'
  BY <1>17, LeaveIs DEF Mark, Goto, status, images, objects, tasks
<1>18. ASSUME NEW r \in Requests, SaveEdit(r) PROVE ReadyInv'
  BY <1>18, LeaveIs DEF SaveEdit, Goto, status, images, objects, tasks
<1>19. ASSUME NEW r \in Requests, SaveRefresh(r) PROVE ReadyInv'
  BY <1>19, LeaveIs DEF SaveRefresh, Goto, status, images, objects, tasks
<1>20. ASSUME NEW r \in Requests, DestroyRows(r) PROVE ReadyInv'
  BY <1>20, LeaveIs DEF DestroyRows, Goto, status, images, objects, tasks
<1>21. ASSUME NEW r \in Requests, DestroyObjects(r) PROVE ReadyInv'
  BY <1>21, LeaveIs DEF DestroyObjects, Goto, status, images, objects, tasks
<1>22. ASSUME NEW r \in Requests, Lose(r) PROVE ReadyInv'
  BY <1>22, LeaveIs DEF Lose, Goto, status, images, objects, tasks
<1>23. ASSUME NEW i \in Images, Load(i) PROVE ReadyInv'
  BY <1>23, InventoryAssumption DEF Load, TaskTo, status, images, objects, tasks
<1>24. ASSUME NEW i \in Images, WriteVariant(i) PROVE ReadyInv'
  BY <1>24, InventoryAssumption DEF WriteVariant, TaskTo, status, images, objects, tasks
<1>25. ASSUME NEW i \in Images, SaveReady(i) PROVE ReadyInv'
  BY <1>25, InventoryAssumption DEF SaveReady, TaskTo, status, images, objects, tasks
<1>26. ASSUME NEW i \in Images, Raise(i) PROVE ReadyInv'
  BY <1>26, InventoryAssumption DEF Raise, TaskTo, status, images, objects, tasks
<1>27. ASSUME NEW i \in Images, Retry(i) PROVE ReadyInv'
  BY <1>27, InventoryAssumption DEF Retry, TaskTo, status, images, objects, tasks
<1>28. ASSUME NEW i \in Images, Crash(i) PROVE ReadyInv'
  BY <1>28, InventoryAssumption DEF Crash, TaskTo, status, images, objects, tasks
<1>29. CASE SweepSelect
  BY <1>29 DEF SweepSelect, status, images, objects, tasks
<1>30. CASE SweepHide
  BY <1>30 DEF SweepHide, status, images, objects, tasks
<1>31. CASE UNCHANGED vars
  BY <1>31 DEF vars, status, images, objects, tasks
<1> QED BY <1>1, <1>2, <1>3, <1>4, <1>5, <1>6, <1>7, <1>8, <1>9, <1>10, <1>11, <1>12,
       <1>13, <1>14, <1>15, <1>16, <1>17, <1>18, <1>19, <1>20, <1>21, <1>22, <1>23,
       <1>24, <1>25, <1>26, <1>27, <1>28, <1>29, <1>30, <1>31
       DEF Next, ImageRequest, ItemRequest, TaskStep

LEMMA UnreadyInvStep ==
  ASSUME InventoryTypeOK, LocalInv, FreshInv, UnreadyInv, [Next]_vars
  PROVE  UnreadyInv'
<1> USE DEF InventoryTypeOK, RequestsTypeOK, RowsTypeOK, TasksTypeOK, FreshInv,
   UnreadyInv, Images, TaskAlive
<1>1. ASSUME NEW r \in Requests, BeginConfirm(r) PROVE UnreadyInv'
  BY <1>1, BeginConfirmIs DEF Begun
<1>2. ASSUME NEW r \in Requests, BeginPatch(r) PROVE UnreadyInv'
  BY <1>2, BeginPatchIs DEF Begun
<1>3. ASSUME NEW r \in Requests, BeginReorder(r) PROVE UnreadyInv'
  BY <1>3, BeginReorderIs DEF Begun
<1>4. ASSUME NEW r \in Requests, BeginDelete(r) PROVE UnreadyInv'
  BY <1>4, BeginDeleteIs DEF Begun
<1>5. ASSUME NEW r \in Requests, BeginEdit(r) PROVE UnreadyInv'
  BY <1>5, BeginEditIs DEF Begun
<1>6. ASSUME NEW r \in Requests, BeginRefresh(r) PROVE UnreadyInv'
  BY <1>6, BeginRefreshIs DEF Begun
<1>7. ASSUME NEW r \in Requests, BeginDestroy(r) PROVE UnreadyInv'
  BY <1>7, BeginDestroyIs DEF Begun
<1>8. ASSUME NEW r \in Requests, Demote(r) PROVE UnreadyInv'
  BY <1>8, LeaveIs DEF Demote, Goto, status, images, objects, tasks
<1>9. ASSUME NEW r \in Requests, Place(r) PROVE UnreadyInv'
  BY <1>9, LeaveIs DEF Place, Goto, status, images, objects, tasks
<1>10. ASSUME NEW r \in Requests, Insert(r) PROVE UnreadyInv'
  <2>1. r \in Images /\ r \notin rows /\ key[r] = NoKey /\ task[r] = "none"
    BY <1>10 DEF Insert, FreshInv, Images
  <2>2. local[r].key \in Keys /\ NoKey \notin Keys
    BY <1>10, InventoryAssumption DEF Insert, LocalInv, LocalOf
  <2>3. CASE Leave(r, "refused") /\ UNCHANGED images
    BY SMTT(30), <1>10, <2>3, LeaveIs DEF Insert, status, images, objects, tasks
  <2>4. CASE /\ rows' = rows \cup {r}
             /\ key' = [key EXCEPT ![r] = local[r].key]
             /\ Leave(r, "delay")
             /\ UNCHANGED ready
    BY <1>10, <2>1, <2>2, <2>4, LeaveIs DEF Insert, status, objects, tasks
  <2> QED BY <1>10, <2>3, <2>4 DEF Insert
<1>11. ASSUME NEW r \in Requests, Delay(r) PROVE UnreadyInv'
  BY <1>11, LeaveIs DEF Delay, Goto, status, images, objects, tasks
<1>12. ASSUME NEW r \in Requests, ApplyPatch(r) PROVE UnreadyInv'
  <2>1. rows' = rows /\ ready' = ready /\ task' = task
    BY <1>12 DEF ApplyPatch, images, tasks, objects
  <2>2. \A q \in Requests : pc[q] \in {"delay", "lost"} => pc'[q] = pc[q]
    BY <1>12, LeaveIs DEF ApplyPatch, Goto, InventoryTypeOK, RequestsTypeOK
  <2> QED BY <2>1, <2>2 DEF UnreadyInv
<1>13. ASSUME NEW r \in Requests, ApplyReorder(r) PROVE UnreadyInv'
  <2>1. rows' = rows /\ ready' = ready /\ task' = task
    BY <1>13 DEF ApplyReorder, images, tasks, objects
  <2>2. \A q \in Requests : pc[q] \in {"delay", "lost"} => pc'[q] = pc[q]
    BY <1>13, LeaveIs DEF ApplyReorder, Goto, InventoryTypeOK, RequestsTypeOK
  <2> QED BY <2>1, <2>2 DEF UnreadyInv
<1>14. ASSUME NEW r \in Requests, DeleteObject(r) PROVE UnreadyInv'
  <2>1. rows' = rows /\ ready' = ready /\ task' = task
    BY <1>14 DEF DeleteObject, images, tasks, objects
  <2>2. \A q \in Requests : pc[q] \in {"delay", "lost"} => pc'[q] = pc[q]
    BY <1>14, LeaveIs DEF DeleteObject, Goto, InventoryTypeOK, RequestsTypeOK
  <2> QED BY <2>1, <2>2 DEF UnreadyInv
<1>15. ASSUME NEW r \in Requests, DeleteRow(r) PROVE UnreadyInv'
  BY <1>15, LeaveIs DEF DeleteRow, Goto, status, images, objects, tasks
<1>16. ASSUME NEW r \in Requests, Promote(r) PROVE UnreadyInv'
  <2>1. rows' = rows /\ ready' = ready /\ task' = task
    BY <1>16 DEF Promote, images, tasks, objects
  <2>2. \A q \in Requests : pc[q] \in {"delay", "lost"} => pc'[q] = pc[q]
    BY <1>16, LeaveIs DEF Promote, Goto, InventoryTypeOK, RequestsTypeOK
  <2> QED BY <2>1, <2>2 DEF UnreadyInv
<1>17. ASSUME NEW r \in Requests, Mark(r) PROVE UnreadyInv'
  BY <1>17, LeaveIs DEF Mark, Goto, status, images, objects, tasks
<1>18. ASSUME NEW r \in Requests, SaveEdit(r) PROVE UnreadyInv'
  <2>1. rows' = rows /\ ready' = ready /\ task' = task
    BY <1>18 DEF SaveEdit, images, tasks, objects
  <2>2. \A q \in Requests : pc[q] \in {"delay", "lost"} => pc'[q] = pc[q]
    BY <1>18, LeaveIs DEF SaveEdit, Goto, InventoryTypeOK, RequestsTypeOK
  <2> QED BY <2>1, <2>2 DEF UnreadyInv
<1>19. ASSUME NEW r \in Requests, SaveRefresh(r) PROVE UnreadyInv'
  BY <1>19, LeaveIs DEF SaveRefresh, Goto, status, images, objects, tasks
<1>20. ASSUME NEW r \in Requests, DestroyRows(r) PROVE UnreadyInv'
  BY <1>20, LeaveIs DEF DestroyRows, Goto, status, images, objects, tasks
<1>21. ASSUME NEW r \in Requests, DestroyObjects(r) PROVE UnreadyInv'
  <2>1. rows' = rows /\ ready' = ready /\ task' = task
    BY <1>21 DEF DestroyObjects, images, tasks, objects
  <2>2. \A q \in Requests : pc[q] \in {"delay", "lost"} => pc'[q] = pc[q]
    BY <1>21, LeaveIs DEF DestroyObjects, Goto, InventoryTypeOK, RequestsTypeOK
  <2> QED BY <2>1, <2>2 DEF UnreadyInv
<1>22. ASSUME NEW r \in Requests, Lose(r) PROVE UnreadyInv'
  BY <1>22, LeaveIs DEF Lose, Goto, status, images, objects, tasks
<1>23. ASSUME NEW i \in Images, Load(i) PROVE UnreadyInv'
  BY <1>23 DEF Load, TaskTo, status, images, objects, tasks
<1>24. ASSUME NEW i \in Images, WriteVariant(i) PROVE UnreadyInv'
  BY <1>24 DEF WriteVariant, TaskTo, status, images, objects, tasks
<1>25. ASSUME NEW i \in Images, SaveReady(i) PROVE UnreadyInv'
  BY <1>25 DEF SaveReady, TaskTo, status, images, objects, tasks
<1>26. ASSUME NEW i \in Images, Raise(i) PROVE UnreadyInv'
  BY <1>26 DEF Raise, TaskTo, status, images, objects, tasks
<1>27. ASSUME NEW i \in Images, Retry(i) PROVE UnreadyInv'
  BY <1>27 DEF Retry, TaskTo, status, images, objects, tasks
<1>28. ASSUME NEW i \in Images, Crash(i) PROVE UnreadyInv'
  BY <1>28 DEF Crash, TaskTo, status, images, objects, tasks
<1>29. CASE SweepSelect
  BY <1>29 DEF SweepSelect, status, images, objects, tasks
<1>30. CASE SweepHide
  BY <1>30 DEF SweepHide, status, images, objects, tasks
<1>31. CASE UNCHANGED vars
  BY <1>31 DEF vars, status, images, objects, tasks
<1> QED BY <1>1, <1>2, <1>3, <1>4, <1>5, <1>6, <1>7, <1>8, <1>9, <1>10, <1>11, <1>12,
       <1>13, <1>14, <1>15, <1>16, <1>17, <1>18, <1>19, <1>20, <1>21, <1>22, <1>23,
       <1>24, <1>25, <1>26, <1>27, <1>28, <1>29, <1>30, <1>31
       DEF Next, ImageRequest, ItemRequest, TaskStep

LEMMA OneOpenStep ==
  ASSUME InventoryTypeOK, LocalInv, FreshInv, SerialInv, overlap' = "no", [Next]_vars
  PROVE  OneOpen'
<1> USE DEF InventoryTypeOK, RequestsTypeOK, RowsTypeOK, LocalInv, LocalOf, SerialInv,
   Open, Ended, OneOpen
<1>1. ASSUME NEW r \in Requests, BeginConfirm(r) PROVE OneOpen'
  BY <1>1, BeginConfirmIs DEF Begun
<1>2. ASSUME NEW r \in Requests, BeginPatch(r) PROVE OneOpen'
  BY <1>2, BeginPatchIs DEF Begun
<1>3. ASSUME NEW r \in Requests, BeginReorder(r) PROVE OneOpen'
  BY <1>3, BeginReorderIs DEF Begun
<1>4. ASSUME NEW r \in Requests, BeginDelete(r) PROVE OneOpen'
  BY <1>4, BeginDeleteIs DEF Begun
<1>5. ASSUME NEW r \in Requests, BeginEdit(r) PROVE OneOpen'
  BY <1>5, BeginEditIs DEF Begun
<1>6. ASSUME NEW r \in Requests, BeginRefresh(r) PROVE OneOpen'
  BY <1>6, BeginRefreshIs DEF Begun
<1>7. ASSUME NEW r \in Requests, BeginDestroy(r) PROVE OneOpen'
  BY <1>7, BeginDestroyIs DEF Begun
<1>8. ASSUME NEW r \in Requests, Demote(r) PROVE OneOpen'
  BY <1>8, LeaveIs DEF Demote, Goto, status, images, objects, tasks
<1>9. ASSUME NEW r \in Requests, Place(r) PROVE OneOpen'
  BY <1>9, PlaceIs
<1>10. ASSUME NEW r \in Requests, Insert(r) PROVE OneOpen'
  BY <1>10, LeaveIs DEF Insert, Goto, status, images, objects, tasks
<1>11. ASSUME NEW r \in Requests, Delay(r) PROVE OneOpen'
  BY <1>11, LeaveIs DEF Delay, Goto, status, images, objects, tasks
<1>12. ASSUME NEW r \in Requests, ApplyPatch(r) PROVE OneOpen'
  BY <1>12, LeaveIs DEF ApplyPatch, Goto, status, images, objects, tasks
<1>13. ASSUME NEW r \in Requests, ApplyReorder(r) PROVE OneOpen'
  BY <1>13, LeaveIs DEF ApplyReorder, Goto, status, images, objects, tasks
<1>14. ASSUME NEW r \in Requests, DeleteObject(r) PROVE OneOpen'
  BY <1>14, LeaveIs DEF DeleteObject, Goto, status, images, objects, tasks
<1>15. ASSUME NEW r \in Requests, DeleteRow(r) PROVE OneOpen'
  BY <1>15, LeaveIs DEF DeleteRow, Goto, status, images, objects, tasks
<1>16. ASSUME NEW r \in Requests, Promote(r) PROVE OneOpen'
  <2>1. CASE rows = {}
    <3>1. pc[r] = "promote" /\ Leave(r, "done")
      BY <1>16, <2>1 DEF Promote
    <3>2. UNCHANGED <<status, images, objects, tasks, overlap>>
      BY <1>16 DEF Promote
    <3> QED BY <2>1, <3>1, <3>2, LeaveIs DEF status, images, objects, tasks
  <2>2. CASE rows # {}
    <3>1. PICK i \in rows : local' = [local EXCEPT ![r].target = i]
      BY <1>16, <2>2 DEF Promote
    <3>2. /\ DOMAIN local' = Requests
          /\ \A q \in Requests \ {r} : local'[q] = local[q]
          /\ local'[r].kind = local[r].kind /\ local'[r].target = i
          /\ local'[r].primary = local[r].primary /\ local'[r].wish = local[r].wish
      BY <3>1 DEF InventoryTypeOK, RequestsTypeOK
    <3>3. pc[r] = "promote" /\ pc' = [pc EXCEPT ![r] = "mark"]
      BY <1>16, <2>2 DEF Promote, Goto
    <3>4. UNCHANGED <<status, images, objects, tasks, overlap>>
      BY <1>16 DEF Promote
    <3> QED BY <3>2, <3>3, <3>4 DEF status, images, objects, tasks
  <2> QED BY <2>1, <2>2
<1>17. ASSUME NEW r \in Requests, Mark(r) PROVE OneOpen'
  BY <1>17, LeaveIs DEF Mark, Goto, status, images, objects, tasks
<1>18. ASSUME NEW r \in Requests, SaveEdit(r) PROVE OneOpen'
  BY <1>18, LeaveIs DEF SaveEdit, Goto, status, images, objects, tasks
<1>19. ASSUME NEW r \in Requests, SaveRefresh(r) PROVE OneOpen'
  BY <1>19, LeaveIs DEF SaveRefresh, Goto, status, images, objects, tasks
<1>20. ASSUME NEW r \in Requests, DestroyRows(r) PROVE OneOpen'
  BY <1>20, LeaveIs DEF DestroyRows, Goto, status, images, objects, tasks
<1>21. ASSUME NEW r \in Requests, DestroyObjects(r) PROVE OneOpen'
  BY <1>21, LeaveIs DEF DestroyObjects, Goto, status, images, objects, tasks
<1>22. ASSUME NEW r \in Requests, Lose(r) PROVE OneOpen'
  BY <1>22, LeaveIs DEF Lose, Goto, status, images, objects, tasks
<1>23. ASSUME NEW i \in Images, Load(i) PROVE OneOpen'
  BY <1>23 DEF Load, TaskTo, status, images, objects, tasks
<1>24. ASSUME NEW i \in Images, WriteVariant(i) PROVE OneOpen'
  BY <1>24 DEF WriteVariant, TaskTo, status, images, objects, tasks
<1>25. ASSUME NEW i \in Images, SaveReady(i) PROVE OneOpen'
  BY <1>25 DEF SaveReady, TaskTo, status, images, objects, tasks
<1>26. ASSUME NEW i \in Images, Raise(i) PROVE OneOpen'
  BY <1>26 DEF Raise, TaskTo, status, images, objects, tasks
<1>27. ASSUME NEW i \in Images, Retry(i) PROVE OneOpen'
  BY <1>27 DEF Retry, TaskTo, status, images, objects, tasks
<1>28. ASSUME NEW i \in Images, Crash(i) PROVE OneOpen'
  BY <1>28 DEF Crash, TaskTo, status, images, objects, tasks
<1>29. CASE SweepSelect
  BY <1>29 DEF SweepSelect, status, images, objects, tasks
<1>30. CASE SweepHide
  BY <1>30 DEF SweepHide, status, images, objects, tasks
<1>31. CASE UNCHANGED vars
  BY <1>31 DEF vars, status, images, objects, tasks
<1> QED BY <1>1, <1>2, <1>3, <1>4, <1>5, <1>6, <1>7, <1>8, <1>9, <1>10, <1>11, <1>12,
       <1>13, <1>14, <1>15, <1>16, <1>17, <1>18, <1>19, <1>20, <1>21, <1>22, <1>23,
       <1>24, <1>25, <1>26, <1>27, <1>28, <1>29, <1>30, <1>31
       DEF Next, ImageRequest, ItemRequest, TaskStep

LEMMA LastPositionStep ==
  ASSUME InventoryTypeOK, LocalInv, FreshInv, SerialInv, overlap' = "no", [Next]_vars
  PROVE  LastPosition'
<1> USE DEF InventoryTypeOK, RequestsTypeOK, RowsTypeOK, LocalInv, LocalOf, SerialInv,
   Open, Ended, OneOpen, LastPosition
<1>1. ASSUME NEW r \in Requests, BeginConfirm(r) PROVE LastPosition'
  BY <1>1, BeginConfirmIs DEF Begun
<1>2. ASSUME NEW r \in Requests, BeginPatch(r) PROVE LastPosition'
  BY <1>2, BeginPatchIs DEF Begun
<1>3. ASSUME NEW r \in Requests, BeginReorder(r) PROVE LastPosition'
  BY <1>3, BeginReorderIs DEF Begun
<1>4. ASSUME NEW r \in Requests, BeginDelete(r) PROVE LastPosition'
  BY <1>4, BeginDeleteIs DEF Begun
<1>5. ASSUME NEW r \in Requests, BeginEdit(r) PROVE LastPosition'
  BY <1>5, BeginEditIs DEF Begun
<1>6. ASSUME NEW r \in Requests, BeginRefresh(r) PROVE LastPosition'
  BY <1>6, BeginRefreshIs DEF Begun
<1>7. ASSUME NEW r \in Requests, BeginDestroy(r) PROVE LastPosition'
  BY <1>7, BeginDestroyIs DEF Begun
<1>8. ASSUME NEW r \in Requests, Demote(r) PROVE LastPosition'
  BY <1>8, LeaveIs DEF Demote, Goto, status, images, objects, tasks
<1>9. ASSUME NEW r \in Requests, Place(r) PROVE LastPosition'
  BY <1>9, PlaceIs
<1>10. ASSUME NEW r \in Requests, Insert(r) PROVE LastPosition'
  BY <1>10, LeaveIs DEF Insert, Goto, status, images, objects, tasks
<1>11. ASSUME NEW r \in Requests, Delay(r) PROVE LastPosition'
  BY <1>11, LeaveIs DEF Delay, Goto, status, images, objects, tasks
<1>12. ASSUME NEW r \in Requests, ApplyPatch(r) PROVE LastPosition'
  BY <1>12, LeaveIs DEF ApplyPatch, Goto, status, images, objects, tasks
<1>13. ASSUME NEW r \in Requests, ApplyReorder(r) PROVE LastPosition'
  BY <1>13, LeaveIs DEF ApplyReorder, Goto, status, images, objects, tasks
<1>14. ASSUME NEW r \in Requests, DeleteObject(r) PROVE LastPosition'
  BY <1>14, LeaveIs DEF DeleteObject, Goto, status, images, objects, tasks
<1>15. ASSUME NEW r \in Requests, DeleteRow(r) PROVE LastPosition'
  BY <1>15, LeaveIs DEF DeleteRow, Goto, status, images, objects, tasks
<1>16. ASSUME NEW r \in Requests, Promote(r) PROVE LastPosition'
  <2>1. CASE rows = {}
    <3>1. pc[r] = "promote" /\ Leave(r, "done")
      BY <1>16, <2>1 DEF Promote
    <3>2. UNCHANGED <<status, images, objects, tasks, overlap>>
      BY <1>16 DEF Promote
    <3> QED BY <2>1, <3>1, <3>2, LeaveIs DEF status, images, objects, tasks
  <2>2. CASE rows # {}
    <3>1. PICK i \in rows : local' = [local EXCEPT ![r].target = i]
      BY <1>16, <2>2 DEF Promote
    <3>2. /\ DOMAIN local' = Requests
          /\ \A q \in Requests \ {r} : local'[q] = local[q]
          /\ local'[r].kind = local[r].kind /\ local'[r].target = i
          /\ local'[r].primary = local[r].primary /\ local'[r].wish = local[r].wish
      BY <3>1 DEF InventoryTypeOK, RequestsTypeOK
    <3>3. pc[r] = "promote" /\ pc' = [pc EXCEPT ![r] = "mark"]
      BY <1>16, <2>2 DEF Promote, Goto
    <3>4. UNCHANGED <<status, images, objects, tasks, overlap>>
      BY <1>16 DEF Promote
    <3> QED BY <3>2, <3>3, <3>4 DEF status, images, objects, tasks
  <2> QED BY <2>1, <2>2
<1>17. ASSUME NEW r \in Requests, Mark(r) PROVE LastPosition'
  BY <1>17, LeaveIs DEF Mark, Goto, status, images, objects, tasks
<1>18. ASSUME NEW r \in Requests, SaveEdit(r) PROVE LastPosition'
  BY <1>18, LeaveIs DEF SaveEdit, Goto, status, images, objects, tasks
<1>19. ASSUME NEW r \in Requests, SaveRefresh(r) PROVE LastPosition'
  BY <1>19, LeaveIs DEF SaveRefresh, Goto, status, images, objects, tasks
<1>20. ASSUME NEW r \in Requests, DestroyRows(r) PROVE LastPosition'
  BY <1>20, LeaveIs DEF DestroyRows, Goto, status, images, objects, tasks
<1>21. ASSUME NEW r \in Requests, DestroyObjects(r) PROVE LastPosition'
  BY <1>21, LeaveIs DEF DestroyObjects, Goto, status, images, objects, tasks
<1>22. ASSUME NEW r \in Requests, Lose(r) PROVE LastPosition'
  BY <1>22, LeaveIs DEF Lose, Goto, status, images, objects, tasks
<1>23. ASSUME NEW i \in Images, Load(i) PROVE LastPosition'
  BY <1>23 DEF Load, TaskTo, status, images, objects, tasks
<1>24. ASSUME NEW i \in Images, WriteVariant(i) PROVE LastPosition'
  BY <1>24 DEF WriteVariant, TaskTo, status, images, objects, tasks
<1>25. ASSUME NEW i \in Images, SaveReady(i) PROVE LastPosition'
  BY <1>25 DEF SaveReady, TaskTo, status, images, objects, tasks
<1>26. ASSUME NEW i \in Images, Raise(i) PROVE LastPosition'
  BY <1>26 DEF Raise, TaskTo, status, images, objects, tasks
<1>27. ASSUME NEW i \in Images, Retry(i) PROVE LastPosition'
  BY <1>27 DEF Retry, TaskTo, status, images, objects, tasks
<1>28. ASSUME NEW i \in Images, Crash(i) PROVE LastPosition'
  BY <1>28 DEF Crash, TaskTo, status, images, objects, tasks
<1>29. CASE SweepSelect
  BY <1>29 DEF SweepSelect, status, images, objects, tasks
<1>30. CASE SweepHide
  BY <1>30 DEF SweepHide, status, images, objects, tasks
<1>31. CASE UNCHANGED vars
  BY <1>31 DEF vars, status, images, objects, tasks
<1> QED BY <1>1, <1>2, <1>3, <1>4, <1>5, <1>6, <1>7, <1>8, <1>9, <1>10, <1>11, <1>12,
       <1>13, <1>14, <1>15, <1>16, <1>17, <1>18, <1>19, <1>20, <1>21, <1>22, <1>23,
       <1>24, <1>25, <1>26, <1>27, <1>28, <1>29, <1>30, <1>31
       DEF Next, ImageRequest, ItemRequest, TaskStep

LEMMA NoneRefusedStep ==
  ASSUME InventoryTypeOK, LocalInv, FreshInv, SerialInv, overlap' = "no", [Next]_vars
  PROVE  NoneRefused'
<1> USE DEF InventoryTypeOK, RequestsTypeOK, RowsTypeOK, LocalInv, LocalOf, SerialInv,
   Open, Ended, OneOpen, LastPosition, NoneRefused, Taken
<1>1. ASSUME NEW r \in Requests, BeginConfirm(r) PROVE NoneRefused'
  BY <1>1, BeginConfirmIs DEF Begun
<1>2. ASSUME NEW r \in Requests, BeginPatch(r) PROVE NoneRefused'
  BY <1>2, BeginPatchIs DEF Begun
<1>3. ASSUME NEW r \in Requests, BeginReorder(r) PROVE NoneRefused'
  BY <1>3, BeginReorderIs DEF Begun
<1>4. ASSUME NEW r \in Requests, BeginDelete(r) PROVE NoneRefused'
  BY <1>4, BeginDeleteIs DEF Begun
<1>5. ASSUME NEW r \in Requests, BeginEdit(r) PROVE NoneRefused'
  BY <1>5, BeginEditIs DEF Begun
<1>6. ASSUME NEW r \in Requests, BeginRefresh(r) PROVE NoneRefused'
  BY <1>6, BeginRefreshIs DEF Begun
<1>7. ASSUME NEW r \in Requests, BeginDestroy(r) PROVE NoneRefused'
  BY <1>7, BeginDestroyIs DEF Begun
<1>8. ASSUME NEW r \in Requests, Demote(r) PROVE NoneRefused'
  BY <1>8, LeaveIs DEF Demote, Goto, status, images, objects, tasks
<1>9. ASSUME NEW r \in Requests, Place(r) PROVE NoneRefused'
  BY <1>9, PlaceIs
<1>10. ASSUME NEW r \in Requests, Insert(r) PROVE NoneRefused'
  BY <1>10, LeaveIs DEF Insert, Goto, status, images, objects, tasks
<1>11. ASSUME NEW r \in Requests, Delay(r) PROVE NoneRefused'
  BY <1>11, LeaveIs DEF Delay, Goto, status, images, objects, tasks
<1>12. ASSUME NEW r \in Requests, ApplyPatch(r) PROVE NoneRefused'
  BY <1>12, LeaveIs DEF ApplyPatch, Goto, status, images, objects, tasks
<1>13. ASSUME NEW r \in Requests, ApplyReorder(r) PROVE NoneRefused'
  BY <1>13, LeaveIs DEF ApplyReorder, Goto, status, images, objects, tasks
<1>14. ASSUME NEW r \in Requests, DeleteObject(r) PROVE NoneRefused'
  BY <1>14, LeaveIs DEF DeleteObject, Goto, status, images, objects, tasks
<1>15. ASSUME NEW r \in Requests, DeleteRow(r) PROVE NoneRefused'
  BY <1>15, LeaveIs DEF DeleteRow, Goto, status, images, objects, tasks
<1>16. ASSUME NEW r \in Requests, Promote(r) PROVE NoneRefused'
  <2>1. CASE rows = {}
    <3>1. pc[r] = "promote" /\ Leave(r, "done")
      BY <1>16, <2>1 DEF Promote
    <3>2. UNCHANGED <<status, images, objects, tasks, overlap>>
      BY <1>16 DEF Promote
    <3> QED BY <2>1, <3>1, <3>2, LeaveIs DEF status, images, objects, tasks
  <2>2. CASE rows # {}
    <3>1. PICK i \in rows : local' = [local EXCEPT ![r].target = i]
      BY <1>16, <2>2 DEF Promote
    <3>2. /\ DOMAIN local' = Requests
          /\ \A q \in Requests \ {r} : local'[q] = local[q]
          /\ local'[r].kind = local[r].kind /\ local'[r].target = i
          /\ local'[r].primary = local[r].primary /\ local'[r].wish = local[r].wish
      BY <3>1 DEF InventoryTypeOK, RequestsTypeOK
    <3>3. pc[r] = "promote" /\ pc' = [pc EXCEPT ![r] = "mark"]
      BY <1>16, <2>2 DEF Promote, Goto
    <3>4. UNCHANGED <<status, images, objects, tasks, overlap>>
      BY <1>16 DEF Promote
    <3> QED BY <3>2, <3>3, <3>4 DEF status, images, objects, tasks
  <2> QED BY <2>1, <2>2
<1>17. ASSUME NEW r \in Requests, Mark(r) PROVE NoneRefused'
  BY <1>17, LeaveIs DEF Mark, Goto, status, images, objects, tasks
<1>18. ASSUME NEW r \in Requests, SaveEdit(r) PROVE NoneRefused'
  BY <1>18, LeaveIs DEF SaveEdit, Goto, status, images, objects, tasks
<1>19. ASSUME NEW r \in Requests, SaveRefresh(r) PROVE NoneRefused'
  BY <1>19, LeaveIs DEF SaveRefresh, Goto, status, images, objects, tasks
<1>20. ASSUME NEW r \in Requests, DestroyRows(r) PROVE NoneRefused'
  BY <1>20, LeaveIs DEF DestroyRows, Goto, status, images, objects, tasks
<1>21. ASSUME NEW r \in Requests, DestroyObjects(r) PROVE NoneRefused'
  BY <1>21, LeaveIs DEF DestroyObjects, Goto, status, images, objects, tasks
<1>22. ASSUME NEW r \in Requests, Lose(r) PROVE NoneRefused'
  BY <1>22, LeaveIs DEF Lose, Goto, status, images, objects, tasks
<1>23. ASSUME NEW i \in Images, Load(i) PROVE NoneRefused'
  BY <1>23 DEF Load, TaskTo, status, images, objects, tasks
<1>24. ASSUME NEW i \in Images, WriteVariant(i) PROVE NoneRefused'
  BY <1>24 DEF WriteVariant, TaskTo, status, images, objects, tasks
<1>25. ASSUME NEW i \in Images, SaveReady(i) PROVE NoneRefused'
  BY <1>25 DEF SaveReady, TaskTo, status, images, objects, tasks
<1>26. ASSUME NEW i \in Images, Raise(i) PROVE NoneRefused'
  BY <1>26 DEF Raise, TaskTo, status, images, objects, tasks
<1>27. ASSUME NEW i \in Images, Retry(i) PROVE NoneRefused'
  BY <1>27 DEF Retry, TaskTo, status, images, objects, tasks
<1>28. ASSUME NEW i \in Images, Crash(i) PROVE NoneRefused'
  BY <1>28 DEF Crash, TaskTo, status, images, objects, tasks
<1>29. CASE SweepSelect
  BY <1>29 DEF SweepSelect, status, images, objects, tasks
<1>30. CASE SweepHide
  BY <1>30 DEF SweepHide, status, images, objects, tasks
<1>31. CASE UNCHANGED vars
  BY <1>31 DEF vars, status, images, objects, tasks
<1> QED BY <1>1, <1>2, <1>3, <1>4, <1>5, <1>6, <1>7, <1>8, <1>9, <1>10, <1>11, <1>12,
       <1>13, <1>14, <1>15, <1>16, <1>17, <1>18, <1>19, <1>20, <1>21, <1>22, <1>23,
       <1>24, <1>25, <1>26, <1>27, <1>28, <1>29, <1>30, <1>31
       DEF Next, ImageRequest, ItemRequest, TaskStep

LEMMA OnePrimaryStep ==
  ASSUME InventoryTypeOK, LocalInv, FreshInv, SerialInv, overlap' = "no", [Next]_vars
  PROVE  OnePrimary'
<1> USE DEF InventoryTypeOK, RequestsTypeOK, RowsTypeOK, LocalInv, LocalOf, SerialInv,
   Open, Ended, OneOpen, OnePrimary, ReadInv, ReadPrimary, PatchPrimary
<1>1. ASSUME NEW r \in Requests, BeginConfirm(r) PROVE OnePrimary'
  BY <1>1, BeginConfirmIs DEF Begun
<1>2. ASSUME NEW r \in Requests, BeginPatch(r) PROVE OnePrimary'
  BY <1>2, BeginPatchIs DEF Begun
<1>3. ASSUME NEW r \in Requests, BeginReorder(r) PROVE OnePrimary'
  BY <1>3, BeginReorderIs DEF Begun
<1>4. ASSUME NEW r \in Requests, BeginDelete(r) PROVE OnePrimary'
  BY <1>4, BeginDeleteIs DEF Begun
<1>5. ASSUME NEW r \in Requests, BeginEdit(r) PROVE OnePrimary'
  BY <1>5, BeginEditIs DEF Begun
<1>6. ASSUME NEW r \in Requests, BeginRefresh(r) PROVE OnePrimary'
  BY <1>6, BeginRefreshIs DEF Begun
<1>7. ASSUME NEW r \in Requests, BeginDestroy(r) PROVE OnePrimary'
  BY <1>7, BeginDestroyIs DEF Begun
<1>8. ASSUME NEW r \in Requests, Demote(r) PROVE OnePrimary'
  BY <1>8, LeaveIs DEF Demote, Goto, status, images, objects, tasks
<1>9. ASSUME NEW r \in Requests, Place(r) PROVE OnePrimary'
  BY <1>9, PlaceIs
<1>10. ASSUME NEW r \in Requests, Insert(r) PROVE OnePrimary'
  BY <1>10, LeaveIs DEF Insert, Goto, status, images, objects, tasks
<1>11. ASSUME NEW r \in Requests, Delay(r) PROVE OnePrimary'
  BY <1>11, LeaveIs DEF Delay, Goto, status, images, objects, tasks
<1>12. ASSUME NEW r \in Requests, ApplyPatch(r) PROVE OnePrimary'
  BY <1>12, LeaveIs DEF ApplyPatch, Goto, status, images, objects, tasks
<1>13. ASSUME NEW r \in Requests, ApplyReorder(r) PROVE OnePrimary'
  BY <1>13, LeaveIs DEF ApplyReorder, Goto, status, images, objects, tasks
<1>14. ASSUME NEW r \in Requests, DeleteObject(r) PROVE OnePrimary'
  BY <1>14, LeaveIs DEF DeleteObject, Goto, status, images, objects, tasks
<1>15. ASSUME NEW r \in Requests, DeleteRow(r) PROVE OnePrimary'
  BY <1>15, LeaveIs DEF DeleteRow, Goto, status, images, objects, tasks
<1>16. ASSUME NEW r \in Requests, Promote(r) PROVE OnePrimary'
  <2>1. CASE rows = {}
    <3>1. pc[r] = "promote" /\ Leave(r, "done")
      BY <1>16, <2>1 DEF Promote
    <3>2. UNCHANGED <<status, images, objects, tasks, overlap>>
      BY <1>16 DEF Promote
    <3> QED BY <2>1, <3>1, <3>2, LeaveIs DEF status, images, objects, tasks
  <2>2. CASE rows # {}
    <3>1. PICK i \in rows : local' = [local EXCEPT ![r].target = i]
      BY <1>16, <2>2 DEF Promote
    <3>2. /\ DOMAIN local' = Requests
          /\ \A q \in Requests \ {r} : local'[q] = local[q]
          /\ local'[r].kind = local[r].kind /\ local'[r].target = i
          /\ local'[r].primary = local[r].primary /\ local'[r].wish = local[r].wish
      BY <3>1 DEF InventoryTypeOK, RequestsTypeOK
    <3>3. pc[r] = "promote" /\ pc' = [pc EXCEPT ![r] = "mark"]
      BY <1>16, <2>2 DEF Promote, Goto
    <3>4. UNCHANGED <<status, images, objects, tasks, overlap>>
      BY <1>16 DEF Promote
    <3> QED BY <3>2, <3>3, <3>4 DEF status, images, objects, tasks
  <2> QED BY <2>1, <2>2
<1>17. ASSUME NEW r \in Requests, Mark(r) PROVE OnePrimary'
  BY <1>17, LeaveIs DEF Mark, Goto, status, images, objects, tasks
<1>18. ASSUME NEW r \in Requests, SaveEdit(r) PROVE OnePrimary'
  BY <1>18, LeaveIs DEF SaveEdit, Goto, status, images, objects, tasks
<1>19. ASSUME NEW r \in Requests, SaveRefresh(r) PROVE OnePrimary'
  BY <1>19, LeaveIs DEF SaveRefresh, Goto, status, images, objects, tasks
<1>20. ASSUME NEW r \in Requests, DestroyRows(r) PROVE OnePrimary'
  BY <1>20, LeaveIs DEF DestroyRows, Goto, status, images, objects, tasks
<1>21. ASSUME NEW r \in Requests, DestroyObjects(r) PROVE OnePrimary'
  BY <1>21, LeaveIs DEF DestroyObjects, Goto, status, images, objects, tasks
<1>22. ASSUME NEW r \in Requests, Lose(r) PROVE OnePrimary'
  BY <1>22, LeaveIs DEF Lose, Goto, status, images, objects, tasks
<1>23. ASSUME NEW i \in Images, Load(i) PROVE OnePrimary'
  BY <1>23 DEF Load, TaskTo, status, images, objects, tasks
<1>24. ASSUME NEW i \in Images, WriteVariant(i) PROVE OnePrimary'
  BY <1>24 DEF WriteVariant, TaskTo, status, images, objects, tasks
<1>25. ASSUME NEW i \in Images, SaveReady(i) PROVE OnePrimary'
  BY <1>25 DEF SaveReady, TaskTo, status, images, objects, tasks
<1>26. ASSUME NEW i \in Images, Raise(i) PROVE OnePrimary'
  BY <1>26 DEF Raise, TaskTo, status, images, objects, tasks
<1>27. ASSUME NEW i \in Images, Retry(i) PROVE OnePrimary'
  BY <1>27 DEF Retry, TaskTo, status, images, objects, tasks
<1>28. ASSUME NEW i \in Images, Crash(i) PROVE OnePrimary'
  BY <1>28 DEF Crash, TaskTo, status, images, objects, tasks
<1>29. CASE SweepSelect
  BY <1>29 DEF SweepSelect, status, images, objects, tasks
<1>30. CASE SweepHide
  BY <1>30 DEF SweepHide, status, images, objects, tasks
<1>31. CASE UNCHANGED vars
  BY <1>31 DEF vars, status, images, objects, tasks
<1> QED BY <1>1, <1>2, <1>3, <1>4, <1>5, <1>6, <1>7, <1>8, <1>9, <1>10, <1>11, <1>12,
       <1>13, <1>14, <1>15, <1>16, <1>17, <1>18, <1>19, <1>20, <1>21, <1>22, <1>23,
       <1>24, <1>25, <1>26, <1>27, <1>28, <1>29, <1>30, <1>31
       DEF Next, ImageRequest, ItemRequest, TaskStep

LEMMA ReadPrimaryStep ==
  ASSUME InventoryTypeOK, LocalInv, FreshInv, SerialInv, overlap' = "no", [Next]_vars
  PROVE  ReadInv'
<1> USE DEF InventoryTypeOK, RequestsTypeOK, RowsTypeOK, LocalInv, LocalOf, SerialInv,
   Open, Ended, OneOpen, OnePrimary, ReadInv, ReadPrimary, PatchPrimary
<1>1. ASSUME NEW r \in Requests, BeginConfirm(r) PROVE ReadInv'
  BY <1>1, BeginConfirmIs DEF Begun
<1>2. ASSUME NEW r \in Requests, BeginPatch(r) PROVE ReadInv'
  BY <1>2, BeginPatchIs DEF Begun
<1>3. ASSUME NEW r \in Requests, BeginReorder(r) PROVE ReadInv'
  BY <1>3, BeginReorderIs DEF Begun
<1>4. ASSUME NEW r \in Requests, BeginDelete(r) PROVE ReadInv'
  BY <1>4, BeginDeleteIs DEF Begun
<1>5. ASSUME NEW r \in Requests, BeginEdit(r) PROVE ReadInv'
  BY <1>5, BeginEditIs DEF Begun
<1>6. ASSUME NEW r \in Requests, BeginRefresh(r) PROVE ReadInv'
  BY <1>6, BeginRefreshIs DEF Begun
<1>7. ASSUME NEW r \in Requests, BeginDestroy(r) PROVE ReadInv'
  BY <1>7, BeginDestroyIs DEF Begun
<1>8. ASSUME NEW r \in Requests, Demote(r) PROVE ReadInv'
  BY <1>8, LeaveIs DEF Demote, Goto, status, images, objects, tasks
<1>9. ASSUME NEW r \in Requests, Place(r) PROVE ReadInv'
  BY <1>9, PlaceIs
<1>10. ASSUME NEW r \in Requests, Insert(r) PROVE ReadInv'
  BY <1>10, LeaveIs DEF Insert, Goto, status, images, objects, tasks
<1>11. ASSUME NEW r \in Requests, Delay(r) PROVE ReadInv'
  BY <1>11, LeaveIs DEF Delay, Goto, status, images, objects, tasks
<1>12. ASSUME NEW r \in Requests, ApplyPatch(r) PROVE ReadInv'
  BY <1>12, LeaveIs DEF ApplyPatch, Goto, status, images, objects, tasks
<1>13. ASSUME NEW r \in Requests, ApplyReorder(r) PROVE ReadInv'
  BY <1>13, LeaveIs DEF ApplyReorder, Goto, status, images, objects, tasks
<1>14. ASSUME NEW r \in Requests, DeleteObject(r) PROVE ReadInv'
  BY <1>14, LeaveIs DEF DeleteObject, Goto, status, images, objects, tasks
<1>15. ASSUME NEW r \in Requests, DeleteRow(r) PROVE ReadInv'
  BY <1>15, LeaveIs DEF DeleteRow, Goto, status, images, objects, tasks
<1>16. ASSUME NEW r \in Requests, Promote(r) PROVE ReadInv'
  <2>1. CASE rows = {}
    <3>1. pc[r] = "promote" /\ Leave(r, "done")
      BY <1>16, <2>1 DEF Promote
    <3>2. UNCHANGED <<status, images, objects, tasks, overlap>>
      BY <1>16 DEF Promote
    <3> QED BY <2>1, <3>1, <3>2, LeaveIs DEF status, images, objects, tasks
  <2>2. CASE rows # {}
    <3>1. PICK i \in rows : local' = [local EXCEPT ![r].target = i]
      BY <1>16, <2>2 DEF Promote
    <3>2. /\ DOMAIN local' = Requests
          /\ \A q \in Requests \ {r} : local'[q] = local[q]
          /\ local'[r].kind = local[r].kind /\ local'[r].target = i
          /\ local'[r].primary = local[r].primary /\ local'[r].wish = local[r].wish
      BY <3>1 DEF InventoryTypeOK, RequestsTypeOK
    <3>3. pc[r] = "promote" /\ pc' = [pc EXCEPT ![r] = "mark"]
      BY <1>16, <2>2 DEF Promote, Goto
    <3>4. UNCHANGED <<status, images, objects, tasks, overlap>>
      BY <1>16 DEF Promote
    <3> QED BY <3>2, <3>3, <3>4 DEF status, images, objects, tasks
  <2> QED BY <2>1, <2>2
<1>17. ASSUME NEW r \in Requests, Mark(r) PROVE ReadInv'
  BY <1>17, LeaveIs DEF Mark, Goto, status, images, objects, tasks
<1>18. ASSUME NEW r \in Requests, SaveEdit(r) PROVE ReadInv'
  BY <1>18, LeaveIs DEF SaveEdit, Goto, status, images, objects, tasks
<1>19. ASSUME NEW r \in Requests, SaveRefresh(r) PROVE ReadInv'
  BY <1>19, LeaveIs DEF SaveRefresh, Goto, status, images, objects, tasks
<1>20. ASSUME NEW r \in Requests, DestroyRows(r) PROVE ReadInv'
  BY <1>20, LeaveIs DEF DestroyRows, Goto, status, images, objects, tasks
<1>21. ASSUME NEW r \in Requests, DestroyObjects(r) PROVE ReadInv'
  BY <1>21, LeaveIs DEF DestroyObjects, Goto, status, images, objects, tasks
<1>22. ASSUME NEW r \in Requests, Lose(r) PROVE ReadInv'
  BY <1>22, LeaveIs DEF Lose, Goto, status, images, objects, tasks
<1>23. ASSUME NEW i \in Images, Load(i) PROVE ReadInv'
  BY <1>23 DEF Load, TaskTo, status, images, objects, tasks
<1>24. ASSUME NEW i \in Images, WriteVariant(i) PROVE ReadInv'
  BY <1>24 DEF WriteVariant, TaskTo, status, images, objects, tasks
<1>25. ASSUME NEW i \in Images, SaveReady(i) PROVE ReadInv'
  BY <1>25 DEF SaveReady, TaskTo, status, images, objects, tasks
<1>26. ASSUME NEW i \in Images, Raise(i) PROVE ReadInv'
  BY <1>26 DEF Raise, TaskTo, status, images, objects, tasks
<1>27. ASSUME NEW i \in Images, Retry(i) PROVE ReadInv'
  BY <1>27 DEF Retry, TaskTo, status, images, objects, tasks
<1>28. ASSUME NEW i \in Images, Crash(i) PROVE ReadInv'
  BY <1>28 DEF Crash, TaskTo, status, images, objects, tasks
<1>29. CASE SweepSelect
  BY <1>29 DEF SweepSelect, status, images, objects, tasks
<1>30. CASE SweepHide
  BY <1>30 DEF SweepHide, status, images, objects, tasks
<1>31. CASE UNCHANGED vars
  BY <1>31 DEF vars, status, images, objects, tasks
<1> QED BY <1>1, <1>2, <1>3, <1>4, <1>5, <1>6, <1>7, <1>8, <1>9, <1>10, <1>11, <1>12,
       <1>13, <1>14, <1>15, <1>16, <1>17, <1>18, <1>19, <1>20, <1>21, <1>22, <1>23,
       <1>24, <1>25, <1>26, <1>27, <1>28, <1>29, <1>30, <1>31
       DEF Next, ImageRequest, ItemRequest, TaskStep

LEMMA HasPrimaryStep ==
  ASSUME InventoryTypeOK, LocalInv, FreshInv, SerialInv, overlap' = "no", [Next]_vars
  PROVE  HasPrimary'
<1> USE DEF InventoryTypeOK, RequestsTypeOK, RowsTypeOK, LocalInv, LocalOf, SerialInv,
   Open, Ended, OneOpen, LastPosition, OnePrimary, ReadInv, ReadPrimary, PatchPrimary,
   HasPrimary, Excused, AboutToMark, Taken
<1>1. ASSUME NEW r \in Requests, BeginConfirm(r) PROVE HasPrimary'
  BY <1>1, BeginConfirmIs DEF Begun
<1>2. ASSUME NEW r \in Requests, BeginPatch(r) PROVE HasPrimary'
  BY <1>2, BeginPatchIs DEF Begun
<1>3. ASSUME NEW r \in Requests, BeginReorder(r) PROVE HasPrimary'
  BY <1>3, BeginReorderIs DEF Begun
<1>4. ASSUME NEW r \in Requests, BeginDelete(r) PROVE HasPrimary'
  BY <1>4, BeginDeleteIs DEF Begun
<1>5. ASSUME NEW r \in Requests, BeginEdit(r) PROVE HasPrimary'
  BY <1>5, BeginEditIs DEF Begun
<1>6. ASSUME NEW r \in Requests, BeginRefresh(r) PROVE HasPrimary'
  BY <1>6, BeginRefreshIs DEF Begun
<1>7. ASSUME NEW r \in Requests, BeginDestroy(r) PROVE HasPrimary'
  BY <1>7, BeginDestroyIs DEF Begun
<1>8. ASSUME NEW r \in Requests, Demote(r) PROVE HasPrimary'
  BY <1>8, LeaveIs DEF Demote, Goto, status, images, objects, tasks
<1>9. ASSUME NEW r \in Requests, Place(r) PROVE HasPrimary'
  BY <1>9, PlaceIs
<1>10. ASSUME NEW r \in Requests, Insert(r) PROVE HasPrimary'
  BY <1>10, LeaveIs DEF Insert, Goto, status, images, objects, tasks
<1>11. ASSUME NEW r \in Requests, Delay(r) PROVE HasPrimary'
  BY <1>11, LeaveIs DEF Delay, Goto, status, images, objects, tasks
<1>12. ASSUME NEW r \in Requests, ApplyPatch(r) PROVE HasPrimary'
  BY SMTT(30), <1>12, LeaveIs DEF ApplyPatch, Goto, status, images, objects, tasks
<1>13. ASSUME NEW r \in Requests, ApplyReorder(r) PROVE HasPrimary'
  BY <1>13, LeaveIs DEF ApplyReorder, Goto, status, images, objects, tasks
<1>14. ASSUME NEW r \in Requests, DeleteObject(r) PROVE HasPrimary'
  BY <1>14, LeaveIs DEF DeleteObject, Goto, status, images, objects, tasks
<1>15. ASSUME NEW r \in Requests, DeleteRow(r) PROVE HasPrimary'
  BY <1>15, LeaveIs DEF DeleteRow, Goto, status, images, objects, tasks
<1>16. ASSUME NEW r \in Requests, Promote(r) PROVE HasPrimary'
  <2>1. CASE rows = {}
    <3>1. pc[r] = "promote" /\ Leave(r, "done")
      BY <1>16, <2>1 DEF Promote
    <3>2. UNCHANGED <<status, images, objects, tasks, overlap>>
      BY <1>16 DEF Promote
    <3> QED BY <2>1, <3>1, <3>2, LeaveIs DEF status, images, objects, tasks
  <2>2. CASE rows # {}
    <3>1. PICK i \in rows : local' = [local EXCEPT ![r].target = i]
      BY <1>16, <2>2 DEF Promote
    <3>2. /\ DOMAIN local' = Requests
          /\ \A q \in Requests \ {r} : local'[q] = local[q]
          /\ local'[r].kind = local[r].kind /\ local'[r].target = i
          /\ local'[r].primary = local[r].primary /\ local'[r].wish = local[r].wish
      BY <3>1 DEF InventoryTypeOK, RequestsTypeOK
    <3>3. pc[r] = "promote" /\ pc' = [pc EXCEPT ![r] = "mark"]
      BY <1>16, <2>2 DEF Promote, Goto
    <3>4. UNCHANGED <<status, images, objects, tasks, overlap>>
      BY <1>16 DEF Promote
    <3> QED BY <3>2, <3>3, <3>4 DEF status, images, objects, tasks
  <2> QED BY <2>1, <2>2
<1>17. ASSUME NEW r \in Requests, Mark(r) PROVE HasPrimary'
  BY <1>17, LeaveIs DEF Mark, Goto, status, images, objects, tasks
<1>18. ASSUME NEW r \in Requests, SaveEdit(r) PROVE HasPrimary'
  BY <1>18, LeaveIs DEF SaveEdit, Goto, status, images, objects, tasks
<1>19. ASSUME NEW r \in Requests, SaveRefresh(r) PROVE HasPrimary'
  BY <1>19, LeaveIs DEF SaveRefresh, Goto, status, images, objects, tasks
<1>20. ASSUME NEW r \in Requests, DestroyRows(r) PROVE HasPrimary'
  BY <1>20, LeaveIs DEF DestroyRows, Goto, status, images, objects, tasks
<1>21. ASSUME NEW r \in Requests, DestroyObjects(r) PROVE HasPrimary'
  BY <1>21, LeaveIs DEF DestroyObjects, Goto, status, images, objects, tasks
<1>22. ASSUME NEW r \in Requests, Lose(r) PROVE HasPrimary'
  BY <1>22, LeaveIs DEF Lose, Goto, status, images, objects, tasks
<1>23. ASSUME NEW i \in Images, Load(i) PROVE HasPrimary'
  BY <1>23 DEF Load, TaskTo, status, images, objects, tasks
<1>24. ASSUME NEW i \in Images, WriteVariant(i) PROVE HasPrimary'
  BY <1>24 DEF WriteVariant, TaskTo, status, images, objects, tasks
<1>25. ASSUME NEW i \in Images, SaveReady(i) PROVE HasPrimary'
  BY <1>25 DEF SaveReady, TaskTo, status, images, objects, tasks
<1>26. ASSUME NEW i \in Images, Raise(i) PROVE HasPrimary'
  BY <1>26 DEF Raise, TaskTo, status, images, objects, tasks
<1>27. ASSUME NEW i \in Images, Retry(i) PROVE HasPrimary'
  BY <1>27 DEF Retry, TaskTo, status, images, objects, tasks
<1>28. ASSUME NEW i \in Images, Crash(i) PROVE HasPrimary'
  BY <1>28 DEF Crash, TaskTo, status, images, objects, tasks
<1>29. CASE SweepSelect
  BY <1>29 DEF SweepSelect, status, images, objects, tasks
<1>30. CASE SweepHide
  BY <1>30 DEF SweepHide, status, images, objects, tasks
<1>31. CASE UNCHANGED vars
  BY <1>31 DEF vars, status, images, objects, tasks
<1> QED BY <1>1, <1>2, <1>3, <1>4, <1>5, <1>6, <1>7, <1>8, <1>9, <1>10, <1>11, <1>12,
       <1>13, <1>14, <1>15, <1>16, <1>17, <1>18, <1>19, <1>20, <1>21, <1>22, <1>23,
       <1>24, <1>25, <1>26, <1>27, <1>28, <1>29, <1>30, <1>31
       DEF Next, ImageRequest, ItemRequest, TaskStep

LEMMA InventoryInvStep ==
  ASSUME InventoryInv, [Next]_vars
  PROVE  InventoryInv'
<1>1. InventoryTypeOK'
  BY RowsTypeStep, RequestsTypeStep, TasksTypeStep DEF InventoryInv, InventoryTypeOK
<1>2. LocalInv' /\ FreshInv'
  BY LocalInvStep, FreshInvStep DEF InventoryInv
<1>3. KeyInv' /\ OriginalKept'
  BY KeyInvStep, OriginalKeptStep DEF InventoryInv
<1>4. VariantInv' /\ ReadyInv' /\ UnreadyInv'
  BY VariantInvStep, ReadyInvStep, UnreadyInvStep DEF InventoryInv
<1>5. SerialInv'
  <2>1. CASE overlap' = "no"
    BY <2>1, OneOpenStep, LastPositionStep, NoneRefusedStep, OnePrimaryStep, ReadPrimaryStep,
       HasPrimaryStep DEF InventoryInv, SerialInv
  <2> QED BY <2>1 DEF SerialInv
<1> QED BY <1>1, <1>2, <1>3, <1>4, <1>5 DEF InventoryInv

-----------------------------------------------------------------------------
(* The theorems.                                                           *)

\* The rows of an item, its objects in the storage, its tasks and what its requests
\* hold stay in step, whatever overlaps and whatever dies.
THEOREM InventoryInvCorrect == Spec => []InventoryInv
<1>1. Init => InventoryInv
  <2> SUFFICES ASSUME Init PROVE InventoryInv
    OBVIOUS
  <2>1. RowsTypeOK
    <3>1. rows \subseteq Images /\ IsFiniteSet(rows)
      BY InventoryAssumption, FS_Subset DEF Init, Images
    <3>2. primary \subseteq rows /\ ready \subseteq rows
      BY DEF Init
    <3>3. position \in [Images -> Nat]
      BY InventoryAssumption DEF Init
    <3> QED BY <3>1, <3>2, <3>3 DEF Init, RowsTypeOK
  <2>2. RequestsTypeOK
    BY DEF Init, RequestsTypeOK, Open, Ended
  <2>3. TasksTypeOK
    <3>1. variants \in [1 .. Sizes -> Keys \cup {NoKey}]
      BY <2>1 DEF Init, RowsTypeOK
    <3>2. size \in [Images -> 1 .. Sizes]
      BY InventoryAssumption DEF Init
    <3> QED BY <3>1, <3>2 DEF Init, TasksTypeOK, TaskAlive
  <2>4. \A r \in Requests :
          pc[r] = "idle" /\ local[r] = Nothing /\ task[r] = "none" /\ r \notin rows
    BY InventoryAssumption DEF Init, Images
  <2>5. LocalInv
    BY <2>4 DEF LocalInv, LocalOf, Nothing
  <2>6. FreshInv
    BY <2>1, <2>4 DEF FreshInv, Init, Images, RowsTypeOK
  <2>7. KeyInv
    BY <2>4 DEF KeyInv, Init
  <2>8. OriginalKept
    BY <2>1, <2>6 DEF OriginalKept, Init, FreshInv
  <2>9. VariantInv
    BY DEF VariantInv, Init
  <2>10. ReadyInv
    <3>1. ready # {} => ready = rows
      BY DEF Init
    <3>2. PICK k \in IF ready = {} THEN {NoKey} ELSE {key[i] : i \in ready} :
            variants = [n \in 1 .. Sizes |-> k]
      BY DEF Init
    <3>3. ready # {} => k # NoKey
      BY <3>1, <3>2, <2>1, <2>6, InventoryAssumption DEF FreshInv
    <3> QED BY <3>2, <3>3 DEF ReadyInv
  <2>11. UnreadyInv
    BY <2>1 DEF UnreadyInv, Init, RowsTypeOK
  <2>12. SerialInv
    <3>1. OneOpen /\ LastPosition /\ NoneRefused
      BY <2>4 DEF OneOpen, LastPosition, NoneRefused, Open
    <3>2. OnePrimary /\ HasPrimary
      BY DEF Init, OnePrimary, HasPrimary
    <3>3. ReadInv
      BY <2>4 DEF ReadInv, ReadPrimary
    <3> QED BY <3>1, <3>2, <3>3 DEF SerialInv
  <2> QED BY <2>1, <2>2, <2>3, <2>5, <2>6, <2>7, <2>8, <2>9, <2>10, <2>11, <2>12
          DEF InventoryInv, InventoryTypeOK
<1>2. InventoryInv /\ [Next]_vars => InventoryInv'
  BY InventoryInvStep
<1> QED BY <1>1, <1>2, PTL DEF Spec

\* Requests that come one after the other, some of them dying half way, never leave two
\* primary images, nor refuse a confirmation, nor lose the primary image by themselves.
THEOREM SerialCorrect == Spec => []SerialRequestsSound
<1>1. InventoryInv => SerialRequestsSound
  BY DEF InventoryInv, SerialInv, OnePrimary, HasPrimary, Excused, AboutToMark, NoneRefused,
         SerialRequestsSound, Open
<1> QED BY <1>1, InventoryInvCorrect, PTL

\* An image with variants_ready has all its objects, and one without is on its way there
\* or given up, however the tasks of an item interleave.
THEOREM VariantsCorrect == Spec => []VariantsReadyWhenWritten
<1>1. InventoryInv => VariantsReadyWhenWritten
  BY DEF InventoryInv, ReadyInv, UnreadyInv, VariantsReadyWhenWritten
<1> QED BY <1>1, InventoryInvCorrect, PTL

\* No deletion takes the original of an image that stays, unless they share its key.
THEOREM OriginalCorrect == Spec => []OriginalKept
<1>1. InventoryInv => OriginalKept
  BY DEF InventoryInv
<1> QED BY <1>1, InventoryInvCorrect, PTL

=============================================================================
