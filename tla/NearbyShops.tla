---------------------------- MODULE NearbyShops ----------------------------
(***************************************************************************)
(* The shops near one place: ShopViewSet of dead_stock_app/views/shops.py, *)
(* the answers it keeps in Redis for NEARBY_TTL seconds                    *)
(* (services/cache.py), and the signal that removes them when a shop is    *)
(* saved (signals.py).  All requests round to the same place, so they      *)
(* share one key.                                                          *)
(*                                                                         *)
(* The key leaves out the limit as well; how long an answer is, is left    *)
(* out here.  Statements commit by themselves, before their signal.  A     *)
(* failing Redis is logged and ignored: a read is a miss, a write is not   *)
(* made.                                                                   *)
(***************************************************************************)

CONSTANTS
  Sellers,  \* POST /shops/ requests of one user
  Patches,  \* PATCH /shops/me/ requests of that user
  Buyers    \* GET /shops/nearby/ requests, one after the other each

VARIABLES
  shops,    \* the requests whose save was committed to the table
  kept,     \* the entry in Redis, {} when there is none
  saving,   \* where each POST or PATCH is
  asking    \* where each GET is, and what it holds

nearbyVars == <<shops, kept, saving, asking>>

-----------------------------------------------------------------------------
Writers == Sellers \cup Patches

\* data is the saves its answer shows; settled those that were finished when the
\* request began; raced those committed between its reading the table and its
\* writing the cache.
Asked(label) == [at |-> label, data |-> {}, settled |-> {}, raced |-> {}]

NearbyInit ==
  /\ shops = {} /\ kept = {}
  /\ saving = [w \in Writers |-> "idle"]
  /\ asking = [b \in Buyers |-> Asked("idle")]

Settled == {w \in Writers : saving[w] = "done"}

-----------------------------------------------------------------------------
(* create and me                                                           *)

SaveTo(w, label) == saving' = [saving EXCEPT ![w] = label]

\* create looks for a shop of the user first; PATCH needs one.
CheckShop(w) ==
  /\ saving[w] = "idle"
  /\ SaveTo(w, IF (w \in Sellers) = (shops = {}) THEN "checked" ELSE "refused")
  /\ UNCHANGED <<shops, kept, asking>>

\* The unique constraint refuses a second shop of a user.  A PATCH writes all
\* columns back as it read them; which values that loses is left out.
SaveShop(w) ==
  /\ saving[w] = "checked"
  /\ IF w \in Sellers /\ shops # {}
     THEN SaveTo(w, "refused") /\ UNCHANGED <<shops, asking>>
     ELSE /\ shops' = shops \cup {w}
          /\ SaveTo(w, "saved")
          /\ asking' = [b \in Buyers |->
               IF asking[b].at = "read"
               THEN [asking[b] EXCEPT !.raced = @ \cup {w}] ELSE asking[b]]
  /\ UNCHANGED <<kept>>

\* Mutant: only a shop that is created makes the signal remove the answers.
ListKeysCreated(w) ==
  /\ saving[w] = "saved"
  /\ \/ SaveTo(w, IF kept = {} \/ w \in Patches THEN "done" ELSE "listed")
     \/ SaveTo(w, "unkept")
  /\ UNCHANGED <<shops, kept, asking>>

\* nearby_cache_invalidate_all: KEYS, then DELETE of what KEYS found.
ListKeys(w) ==
  /\ saving[w] = "saved"
  /\ \/ SaveTo(w, IF kept = {} THEN "done" ELSE "listed")
     \/ SaveTo(w, "unkept")
  /\ UNCHANGED <<shops, kept, asking>>

DeleteKeys(w) ==
  /\ saving[w] = "listed"
  /\ \/ kept' = {} /\ SaveTo(w, "done")
     \/ kept' = kept /\ SaveTo(w, "unkept")
  /\ UNCHANGED <<shops, asking>>

-----------------------------------------------------------------------------
(* nearby                                                                  *)

LookInCache(b) ==
  /\ asking[b].at = "idle"
  /\ \/ asking' = [asking EXCEPT ![b] =    \* no entry, or Redis fails
            [at |-> "missed", data |-> {}, settled |-> Settled, raced |-> {}]]
     \/ \E e \in kept :
          asking' = [asking EXCEPT ![b] =
            [at |-> "cached", data |-> e.data, settled |-> Settled, raced |-> e.raced]]
  /\ UNCHANGED <<shops, kept, saving>>

ReadShops(b) ==
  /\ asking[b].at = "missed"
  /\ asking' = [asking EXCEPT ![b].at = "read", ![b].data = shops]
  /\ UNCHANGED <<shops, kept, saving>>

KeepAnswer(b) ==
  /\ asking[b].at = "read"
  /\ \/ kept' = {[data |-> asking[b].data, raced |-> asking[b].raced]}
     \/ kept' = kept
  /\ asking' = [asking EXCEPT ![b].at = "answered"]
  /\ UNCHANGED <<shops, saving>>

AskAgain(b) ==
  /\ asking[b].at \in {"cached", "answered"}
  /\ asking' = [asking EXCEPT ![b] = Asked("idle")]
  /\ UNCHANGED <<shops, kept, saving>>

\* NEARBY_TTL is over.
Expire ==
  /\ kept # {}
  /\ kept' = {}
  /\ UNCHANGED <<shops, saving, asking>>

-----------------------------------------------------------------------------
NearbyNext ==
  \/ Expire
  \/ \E w \in Writers : CheckShop(w) \/ SaveShop(w) \/ ListKeys(w) \/ DeleteKeys(w)
  \/ \E b \in Buyers : LookInCache(b) \/ ReadShops(b) \/ KeepAnswer(b) \/ AskAgain(b)

NearbySpec == NearbyInit /\ [][NearbyNext]_nearbyVars

-----------------------------------------------------------------------------
\* An answer shows every change whose request was over, its answers removed from
\* the cache, before the buyer asked; unless the answer comes from the cache and
\* was kept by a request that read the table before that change and wrote the
\* cache after it.
NearbyStaleForAReason ==
  \A b \in Buyers :
    /\ asking[b].at = "cached" =>
         asking[b].settled \subseteq asking[b].data \cup asking[b].raced
    /\ asking[b].at \in {"read", "answered"} => asking[b].settled \subseteq asking[b].data
=============================================================================
