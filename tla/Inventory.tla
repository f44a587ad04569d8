----------------------------- MODULE Inventory -----------------------------
(***************************************************************************)
(* One inventory item of a dead-stock shop and its images: the requests of *)
(* its owner (dead_stock_app/views/items.py), the task that makes the      *)
(* image variants and the hourly sweep that hides items (tasks.py).        *)
(*                                                                         *)
(* Nothing locks an item: every request reads rows and writes them later,  *)
(* statement by statement, except where the view opens a transaction.      *)
(* Fields no rule reads (name, price, width, ...) are left out; `age' says *)
(* on which side of the sweep's cutoff stale_at is.                        *)
(***************************************************************************)
EXTENDS Integers, Sequences, FiniteSets

CONSTANTS
  Requests,      \* write requests of the owner
  Existing,      \* images the item may have before them
  Keys,          \* object keys handed out by presign_image, all uploaded to
  NoKey,
  Sizes,         \* how many VARIANT_SIZES there are
  MAX_RETRIES,   \* of generate_image_variants
  OFFSET,        \* what reorder_images adds in its first phase
  Positions      \* positions a PATCH may ask for

ASSUME InventoryAssumption ==
  /\ Sizes \in Nat \ {0} /\ MAX_RETRIES \in Nat /\ OFFSET \in Nat
  /\ Positions \subseteq Nat /\ NoKey \notin Keys
  /\ Existing \cap Requests = {} /\ IsFiniteSet(Existing)

VARIABLES
  item,        \* the status of the item, or "deleted"
  age,         \* stale_at: "fresh", or "stale" when before the sweep's cutoff
  rows,        \* the ItemImage rows; a new one is named by its request
  key,         \* s3_key of each row
  position,    \* position of each row
  primary,     \* the rows with is_primary
  ready,       \* the rows with variants_ready
  originals,   \* the keys the object storage holds
  variants,    \* the original each variant object of the item was made from
  pc,          \* where each request is
  local,       \* what each request holds in its variables
  task,        \* where generate_image_variants is, for each image
  size,        \* the variant it writes next
  tries,       \* its retries
  sweep,       \* sweep_stale_items: "idle", or what its SELECT found
  overlap      \* history: have two requests ever been open at once

status == <<item, age>>
images == <<rows, key, position, primary, ready>>
objects == <<originals, variants>>
tasks == <<task, size, tries>>
vars == <<status, images, objects, pc, local, tasks, sweep, overlap>>

-----------------------------------------------------------------------------
Images == Requests \cup Existing
Open == {"demote", "place", "insert", "delay", "apply", "object", "row",
         "promote", "mark", "save", "rows", "objects"}

Ended == {"done", "refused", "lost"}

\* The variables of a request before it starts.
Nothing == [kind |-> "none", target |-> "none", key |-> NoKey, wish |-> "keep",
            primary |-> "no", position |-> 0, order |-> <<>>, keys |-> {},
            status |-> "active", age |-> "fresh"]

\* An item as requests one after the other leave it: distinct keys and
\* positions, one primary image, and variants for all images or for none.
Init ==
  /\ item = "active" /\ age \in {"fresh", "stale"}
  /\ rows \in SUBSET Existing
  /\ key \in [Images -> Keys \cup {NoKey}]
  /\ \A i \in Images : key[i] # NoKey <=> i \in rows
  /\ position \in [Images -> {0} \cup Positions]
  /\ \A i \in Images \ rows : position[i] = 0
  /\ \A i, j \in rows : i # j => key[i] # key[j] /\ position[i] # position[j]
  /\ primary \in {{i} : i \in rows} \cup (IF rows = {} THEN {{}} ELSE {})
  /\ ready \in {{}, rows}
  /\ variants \in {[n \in 1 .. Sizes |-> k] :
                     k \in IF ready = {} THEN {NoKey} ELSE {key[i] : i \in ready}}
  /\ originals = Keys
  /\ pc = [r \in Requests |-> "idle"]
  /\ local = [r \in Requests |-> Nothing]
  /\ task = [i \in Images |-> IF i \in ready THEN "done"
                              ELSE IF i \in rows THEN "failed" ELSE "none"]
  /\ size = [i \in Images |-> 1]
  /\ tries = [i \in Images |-> 0]
  /\ sweep = "idle"
  /\ overlap = "no"

Goto(r, label) == pc' = [pc EXCEPT ![r] = label]

\* Go on; a request that ends leaves no variables, but for what it was about.
Leave(r, label) ==
  /\ Goto(r, label)
  /\ local' = IF label \notin Ended THEN local
              ELSE [local EXCEPT ![r] = [Nothing EXCEPT
                      !.kind = local[r].kind, !.target = local[r].target,
                      !.wish = local[r].wish]]

\* get_object finds the item of the owner and prefetches its images; nothing is
\* locked, so other requests may be open.
Begin(r, label, values) ==
  /\ pc[r] = "idle"
  /\ item # "deleted"
  /\ Goto(r, label)
  /\ local' = [local EXCEPT ![r] = values]
  /\ overlap' = IF \E q \in Requests : pc[q] \in Open THEN "yes" ELSE overlap
  /\ UNCHANGED <<status, images, objects, tasks, sweep>>

YesNo(condition) == IF condition THEN "yes" ELSE "no"

-----------------------------------------------------------------------------
(* confirm_image, five statements of their own.                            *)

BeginConfirm(r) ==
  \E k \in Keys, wish \in {"yes", "no"} :
    LET first == YesNo(wish = "yes" \/ rows = {})
    IN Begin(r, IF first = "yes" THEN "demote" ELSE "place",
             [Nothing EXCEPT !.kind = "confirm", !.key = k, !.primary = first])

Demote(r) ==
  /\ pc[r] = "demote"
  /\ primary' = {}
  /\ Leave(r, "place")
  /\ UNCHANGED <<status, rows, key, position, ready, objects, tasks, sweep,
                 overlap>>

\* Mutant: the next position is the number of images.
NextByCount(taken) == Cardinality(taken)

\* The position after the last of those taken, from the last one, or 0.
NextPosition(taken) ==
  IF taken = {} THEN 0
  ELSE 1 + CHOOSE p \in taken : \A q \in taken : q <= p

Place(r) ==
  /\ pc[r] = "place"
  /\ local' = [local EXCEPT ![r].position =
                 NextPosition({position[i] : i \in rows})]
  /\ Goto(r, "insert")
  /\ UNCHANGED <<status, images, objects, tasks, sweep, overlap>>

Taken(p, others) == \E i \in others : position[i] = p

\* The constraint ds_image_unique_position and the foreign key refuse a row.
Insert(r) ==
  /\ pc[r] = "insert"
  /\ IF item = "deleted" \/ Taken(local[r].position, rows)
     THEN Leave(r, "refused") /\ UNCHANGED images
     ELSE /\ rows' = rows \cup {r}
          /\ key' = [key EXCEPT ![r] = local[r].key]
          /\ position' = [position EXCEPT ![r] = local[r].position]
          /\ primary' = IF local[r].primary = "yes" THEN primary \cup {r} ELSE primary
          /\ Leave(r, "delay")
          /\ UNCHANGED ready
  /\ UNCHANGED <<status, objects, tasks, sweep, overlap>>

Delay(r) ==
  /\ pc[r] = "delay"
  /\ task' = [task EXCEPT ![r] = "queued"]
  /\ Leave(r, "done")
  /\ UNCHANGED <<status, images, objects, size, tries, sweep, overlap>>

-----------------------------------------------------------------------------
(* image_detail and reorder_images.                                        *)

\* Fields the PATCH does not name keep the value just read, and are saved too.
BeginPatch(r) ==
  \E i \in rows, wish \in {"yes", "no", "keep"} :
    \E p \in Positions \cup {position[i]} :
      Begin(r, "apply",
            [Nothing EXCEPT !.kind = "patch", !.target = i, !.wish = wish,
               !.position = p,
               !.primary = IF wish = "keep" THEN YesNo(i \in primary) ELSE wish])

\* The other images are demoted only when the PATCH itself asks for "yes".
PatchPrimary(l) ==
  (IF l.wish = "yes" THEN {} ELSE primary \ {l.target})
    \cup (IF l.primary = "yes" THEN {l.target} ELSE {})

\* One transaction: a deleted row or a position in use rolls it back.
ApplyPatch(r) ==
  LET l == local[r] IN
  /\ pc[r] = "apply" /\ l.kind = "patch"
  /\ IF l.target \notin rows \/ Taken(l.position, rows \ {l.target})
     THEN Leave(r, "refused") /\ UNCHANGED images
     ELSE /\ primary' = PatchPrimary(l)
          /\ position' = [position EXCEPT ![l.target] = l.position]
          /\ Leave(r, "done")
          /\ UNCHANGED <<rows, key, ready>>
  /\ UNCHANGED <<status, objects, tasks, sweep, overlap>>

Orders(S) ==
  UNION {{f \in [1 .. n -> S] : \A a, b \in 1 .. n : f[a] = f[b] => a = b} :
           n \in 1 .. Cardinality(S)}

BeginReorder(r) ==
  \E order \in Orders(rows) :
    Begin(r, "apply", [Nothing EXCEPT !.kind = "reorder", !.order = order])

\* Two phases, row by row: to OFFSET + index, then to index.  A row not yet
\* moved, or not listed, may stand in the way.
Clash(order) ==
  \E n \in DOMAIN order :
    \/ Taken(OFFSET + n - 1, rows \ {order[m] : m \in 1 .. n})
    \/ Taken(n - 1, rows \ {order[m] : m \in DOMAIN order})

ApplyReorder(r) ==
  LET order == local[r].order IN
  /\ pc[r] = "apply" /\ local[r].kind = "reorder"
  /\ IF Clash(order) \/ \E n \in DOMAIN order : order[n] \notin rows
     THEN Leave(r, "refused") /\ UNCHANGED position
     ELSE /\ position' = [i \in Images |->
                IF \E n \in DOMAIN order : order[n] = i
                THEN (CHOOSE n \in DOMAIN order : order[n] = i) - 1
                ELSE position[i]]
          /\ Leave(r, "done")
  /\ UNCHANGED <<status, rows, key, primary, ready, objects, tasks, sweep,
                 overlap>>

BeginDelete(r) ==
  \E i \in rows :
    Begin(r, "object", [Nothing EXCEPT !.kind = "delete", !.target = i,
                          !.key = key[i], !.primary = YesNo(i \in primary)])

\* delete_object swallows every exception.
DeleteObject(r) ==
  /\ pc[r] = "object"
  /\ originals' \in {originals, originals \ {local[r].key}}
  /\ Leave(r, "row")
  /\ UNCHANGED <<status, images, variants, tasks, sweep, overlap>>

DeleteRow(r) ==
  /\ pc[r] = "row"
  /\ rows' = rows \ {local[r].target}
  /\ primary' = primary \ {local[r].target}
  /\ ready' = ready \ {local[r].target}
  /\ Leave(r, IF local[r].primary = "yes" THEN "promote" ELSE "done")
  /\ UNCHANGED <<status, key, position, objects, tasks, sweep, overlap>>

Promote(r) ==
  /\ pc[r] = "promote"
  /\ IF rows = {} THEN Leave(r, "done")
     ELSE \E i \in rows :
            /\ \A j \in rows : position[i] <= position[j]
            /\ local' = [local EXCEPT ![r].target = i]
            /\ Goto(r, "mark")
  /\ UNCHANGED <<status, images, objects, tasks, sweep, overlap>>

Mark(r) ==
  /\ pc[r] = "mark"
  /\ IF local[r].target \in rows
     THEN primary' = primary \cup {local[r].target} /\ Leave(r, "done")
     ELSE Leave(r, "refused") /\ UNCHANGED primary
  /\ UNCHANGED <<status, rows, key, position, ready, objects, tasks, sweep,
                 overlap>>

-----------------------------------------------------------------------------
(* The item itself.                                                        *)

\* A PUT or PATCH saves every column of the item it read.
BeginEdit(r) ==
  \E s \in {item, "active", "sold", "hidden"} :
    Begin(r, "save", [Nothing EXCEPT !.kind = "edit", !.status = s, !.age = age])

\* save() of a row that is gone inserts it again.
SaveEdit(r) ==
  /\ pc[r] = "save" /\ local[r].kind = "edit"
  /\ item' = local[r].status
  /\ age' = local[r].age
  /\ Leave(r, "done")
  /\ UNCHANGED <<images, objects, tasks, sweep, overlap>>

BeginRefresh(r) == Begin(r, "save", [Nothing EXCEPT !.kind = "refresh"])

\* save(update_fields) of a row that is gone raises.
SaveRefresh(r) ==
  /\ pc[r] = "save" /\ local[r].kind = "refresh"
  /\ age' = IF item = "deleted" THEN age ELSE "fresh"
  /\ Leave(r, IF item = "deleted" THEN "refused" ELSE "done")
  /\ UNCHANGED <<item, images, objects, tasks, sweep, overlap>>

BeginDestroy(r) ==
  Begin(r, "rows", [Nothing EXCEPT !.kind = "destroy",
                      !.keys = {key[i] : i \in rows}])

\* Mutant: the images do not go with the item.
DestroyItemOnly(r) ==
  /\ pc[r] = "rows"
  /\ item' = "deleted"
  /\ Leave(r, "objects")
  /\ UNCHANGED <<age, images, objects, tasks, sweep, overlap>>

\* The images go with the item.
DestroyRows(r) ==
  /\ pc[r] = "rows"
  /\ item' = "deleted"
  /\ rows' = {} /\ primary' = {} /\ ready' = {}
  /\ Leave(r, "objects")
  /\ UNCHANGED <<age, key, position, objects, tasks, sweep, overlap>>

DestroyObjects(r) ==
  /\ pc[r] = "objects"
  /\ \E K \in SUBSET local[r].keys : originals' = originals \ K
  /\ Leave(r, "done")
  /\ UNCHANGED <<status, images, variants, tasks, sweep, overlap>>

\* The web process dies, or the broker or the database refuses a statement.
Lose(r) ==
  /\ pc[r] \in Open
  /\ Leave(r, "lost")
  /\ UNCHANGED <<status, images, objects, tasks, sweep, overlap>>

-----------------------------------------------------------------------------
(* generate_image_variants for image i.                                    *)

TaskTo(i, label) == task' = [task EXCEPT ![i] = label]

\* The row is read, and the original it names.
Load(i) ==
  /\ task[i] = "queued"
  /\ TaskTo(i, IF i \notin rows THEN "done"
               ELSE IF key[i] \in originals THEN "write" ELSE "except")
  /\ size' = [size EXCEPT ![i] = 1]
  /\ UNCHANGED <<status, images, objects, pc, local, tries, sweep, overlap>>

\* _variant_key names the item and the size, not the image.
WriteVariant(i) ==
  /\ task[i] = "write"
  /\ variants' = [variants EXCEPT ![size[i]] = key[i]]
  /\ size' = [size EXCEPT ![i] = IF @ = Sizes THEN 1 ELSE @ + 1]
  /\ TaskTo(i, IF size[i] = Sizes THEN "save" ELSE "write")
  /\ UNCHANGED <<status, images, originals, pc, local, tries, sweep, overlap>>

\* Mutant: variants_ready is set on the instance only.
SaveReadyNot(i) ==
  /\ task[i] = "save"
  /\ TaskTo(i, "done")
  /\ UNCHANGED <<status, images, objects, pc, local, size, tries, sweep, overlap>>

\* save(update_fields) raises when the image was deleted meanwhile.
SaveReady(i) ==
  /\ task[i] = "save"
  /\ ready' = IF i \in rows THEN ready \cup {i} ELSE ready
  /\ TaskTo(i, IF i \in rows THEN "done" ELSE "except")
  /\ UNCHANGED <<status, rows, key, position, primary, objects, pc, local, size,
                 tries, sweep, overlap>>

\* The storage, Pillow or the database raises, while the original is read too.
Raise(i) ==
  /\ task[i] \in {"write", "save"}
  /\ TaskTo(i, "except")
  /\ UNCHANGED <<status, images, objects, pc, local, size, tries, sweep, overlap>>

Retry(i) ==
  /\ task[i] = "except"
  /\ TaskTo(i, IF tries[i] < MAX_RETRIES THEN "queued" ELSE "failed")
  /\ tries' = [tries EXCEPT ![i] = IF @ < MAX_RETRIES THEN @ + 1 ELSE @]
  /\ UNCHANGED <<status, images, objects, pc, local, size, sweep, overlap>>

TaskAlive == {"queued", "write", "save", "except"}

Crash(i) ==
  /\ task[i] \in TaskAlive \ {"queued"}
  /\ TaskTo(i, "killed")
  /\ UNCHANGED <<status, images, objects, pc, local, size, tries, sweep, overlap>>

-----------------------------------------------------------------------------
(* The sweep, in two statements.                                           *)

SweepSelect ==
  /\ sweep = "idle"
  /\ item = "active" /\ age = "stale"
  /\ sweep' = "found"
  /\ UNCHANGED <<status, images, objects, pc, local, tasks, overlap>>

\* The UPDATE looks at the primary key only.
SweepHide ==
  /\ sweep = "found"
  /\ item' = IF item = "deleted" THEN item ELSE "hidden"
  /\ sweep' = "idle"
  /\ UNCHANGED <<age, images, objects, pc, local, tasks, overlap>>

-----------------------------------------------------------------------------
ImageRequest(r) ==
  \/ BeginConfirm(r) \/ BeginPatch(r) \/ BeginReorder(r) \/ BeginDelete(r)
  \/ Demote(r) \/ Place(r) \/ Insert(r) \/ Delay(r)
  \/ ApplyPatch(r) \/ ApplyReorder(r)
  \/ DeleteObject(r) \/ DeleteRow(r) \/ Promote(r) \/ Mark(r)

ItemRequest(r) ==
  \/ BeginEdit(r) \/ BeginRefresh(r) \/ BeginDestroy(r)
  \/ SaveEdit(r) \/ SaveRefresh(r) \/ DestroyRows(r) \/ DestroyObjects(r)

TaskStep(i) ==
  \/ Load(i) \/ WriteVariant(i) \/ SaveReady(i) \/ Raise(i) \/ Retry(i)

Next ==
  \/ \E r \in Requests : ImageRequest(r) \/ ItemRequest(r) \/ Lose(r)
  \/ \E i \in Images : TaskStep(i) \/ Crash(i)
  \/ SweepSelect \/ SweepHide

Spec == Init /\ [][Next]_vars

-----------------------------------------------------------------------------
(* Properties.                                                             *)

\* As long as no two requests of the item were ever open at once, it never shows
\* two primary images, whatever requests died half way; when none died and none
\* asked for it, it never lacks one; and no confirmation is refused for its
\* position (confirm_image, image_detail).
SerialRequestsSound ==
  overlap = "no" =>
    /\ \A i, j \in primary : i = j
    /\ \/ \E r \in Requests :
            \/ pc[r] \in Open \cup {"lost"}
            \/ local[r].kind = "patch" /\ local[r].wish = "no"
       \/ rows # {} => primary # {}
    /\ \A r \in Requests : local[r].kind = "confirm" => pc[r] # "refused"

\* variants_ready is never shown before every variant object is there, also when
\* the tasks of several images of the item, which share the objects, interleave;
\* and an image is left without variants only by a request that died, a task that
\* gave up, or one that was killed.
VariantsReadyWhenWritten ==
  /\ ready # {} => \A n \in 1 .. Sizes : variants[n] # NoKey
  /\ \A i \in rows \ ready :
       \/ i \in Requests /\ pc[i] \in {"delay", "lost"}
       \/ task[i] \in TaskAlive \cup {"failed", "killed"}

\* An image that is shown has its original, except between the two steps of its
\* own deletion, or when the same key was confirmed for two images.
OriginalKept ==
  \A i \in rows :
    \/ key[i] \in originals
    \/ \E r \in Requests :
         /\ local[r].kind = "delete" /\ local[r].target = i
         /\ pc[r] \in {"row", "lost"}
    \/ \E j \in Images \ {i} : key[j] = key[i]

-----------------------------------------------------------------------------
(* What the repository says and the code does not keep.                    *)

\* dead_stock_app/tasks.py:65, of sweep_stale_items: "Hide inventory items that
\* have not been refreshed in 60 days."
SweepHidesTheStale ==
  [][sweep = "found" /\ sweep' = "idle" /\ item' = "hidden" => age = "stale"]_vars

=============================================================================
