---------------------------- MODULE SearchPaging ----------------------------
(***************************************************************************)
(* A buyer pages through the search results: build_search_qs of            *)
(* dead_stock_app/services/search.py, called once per page with the cursor *)
(* the page before returned.  A cursor is the sort key of the last row and *)
(* its id; the key is rounded (distance), exact (recent), or a price that  *)
(* may be null.                                                            *)
(*                                                                         *)
(* Keys are integers, null the greatest of them as in an ascending ORDER   *)
(* BY.  All items of a shop have the same distance.  Between two pages     *)
(* items are hidden, offered again or moved to another key.                *)
(***************************************************************************)
EXTENDS Integers, FiniteSets

CONSTANTS
  ItemIds,    \* ids of the items, in the order of the database
  SortKeys,   \* distances, prices or times the items may have
  NullKey,    \* the key of an item without a price
  Grain,      \* a cursor holds a distance as a multiple of it
  Limits,     \* limits a buyer asks for
  PageLimit,  \* bound: pages asked for
  EditLimit   \* bound: changes of items while the buyer pages

ASSUME SearchAssumption ==
  /\ ItemIds \subseteq Nat /\ IsFiniteSet(ItemIds) /\ Limits \subseteq Nat
  /\ NullKey \in Nat \ {0} /\ SortKeys \subseteq 0 .. NullKey
  /\ Grain \in Nat \ {0} /\ PageLimit \in Nat /\ EditLimit \in Nat

VARIABLES
  items,    \* each item: its key, and whether it is active
  sort,     \* the sort of the search; distance without a point is recent
  limit,    \* items per page
  cursor,   \* next_cursor of the last page, {} when there is none
  used,     \* every cursor used so far, with the key it stands for
  shown,    \* how often each item was shown
  steady,   \* items that were active and kept their key since the first page
  pages     \* pages asked for; the last one had no cursor when over
searchVars == <<items, sort, limit, cursor, used, shown, steady, pages>>

-----------------------------------------------------------------------------
SearchInit ==
  /\ sort \in {"distance", "price", "recent"}
  /\ items \in [ItemIds -> [key : SortKeys, active : {TRUE}]]
  /\ sort # "price" => \A i \in ItemIds : items[i].key # NullKey
  /\ limit \in Limits
  /\ cursor = {} /\ used = {} /\ pages = [asked |-> 0, over |-> FALSE]
  /\ shown = [i \in ItemIds |-> 0]
  /\ steady = ItemIds

\* order_by, the id last.
Precedes(i, j) ==
  \/ IF sort = "recent" THEN items[i].key > items[j].key
                        ELSE items[i].key < items[j].key
  \/ items[i].key = items[j].key /\ i < j

\* Mutant: the items that tie with the last one are left out.
BeyondKey(i, c) ==
  /\ items[i].key # NullKey
  /\ IF sort = "recent" THEN items[i].key < c.v ELSE items[i].key > c.v

\* The filter of a cursor.  A null price compares with nothing.
Beyond(i, c) ==
  /\ items[i].key # NullKey
  /\ \/ IF sort = "recent" THEN items[i].key < c.v ELSE items[i].key > c.v
     \/ items[i].key = c.v /\ i > c.id

\* What a cursor keeps of a key: round(dist.m, 3), or 0.0 for no price.
CursorValue(k) ==
  CASE sort = "distance" -> ((2 * k + Grain) \div (2 * Grain)) * Grain
    [] sort = "price" /\ k = NullKey -> 0
    [] OTHER -> k

-----------------------------------------------------------------------------
\* One row more than the limit is fetched, to know whether there is a next page.
\* A limit of 0 shows nothing and gives no cursor.
AskPage ==
  /\ ~pages.over /\ pages.asked < PageLimit
  /\ LET found == {i \in ItemIds : items[i].active /\ \A c \in cursor : Beyond(i, c)}
         more == Cardinality(found) > limit
     IN \E page \in SUBSET found :
          /\ Cardinality(page) = IF more THEN limit ELSE Cardinality(found)
          /\ \A i \in page, j \in found \ page : Precedes(i, j)
          /\ shown' = [i \in ItemIds |-> IF i \in page THEN shown[i] + 1 ELSE shown[i]]
          /\ IF more /\ limit > 0
             THEN \E last \in page :
                    /\ \A i \in page \ {last} : Precedes(i, last)
                    /\ cursor' = {[v |-> CursorValue(items[last].key), id |-> last]}
                    /\ used' = used \cup {[v |-> CursorValue(items[last].key),
                                           key |-> items[last].key]}
             ELSE cursor' = {} /\ used' = used
          /\ pages' = [asked |-> pages.asked + 1, over |-> cursor' = {}]
  /\ UNCHANGED <<items, sort, limit, steady>>

\* The owner hides an item or offers it again, or its key changes: the price,
\* or the place of the shop.
ChangeItem(i) ==
  /\ ~pages.over /\ pages.asked > 0 /\ EditLimit > Cardinality(ItemIds \ steady)
  /\ \/ items' = [items EXCEPT ![i].active = ~@]
     \/ \E k \in SortKeys \ {NullKey} :
          sort # "recent" /\ items' = [items EXCEPT ![i].key = k]
  /\ steady' = steady \ {i}
  /\ UNCHANGED <<sort, limit, cursor, used, shown, pages>>

SearchNext == AskPage \/ \E i \in ItemIds : ChangeItem(i)
SearchSpec == SearchInit /\ [][SearchNext]_searchVars

-----------------------------------------------------------------------------
\* c was written for a row at c.key, and is compared as c.v.
Between(k, low, high) == low < high /\ low <= k /\ k <= high

\* Pages show every item that stays as it is exactly once, whatever is hidden,
\* offered or moved meanwhile, but for two defects of the cursor: an item is
\* shown twice only when a cursor was written below it after it was shown, and
\* missed only when it has no price or a cursor was written above it.
PagesExact ==
  limit > 0 =>
    \A i \in steady :
      /\ shown[i] > 1 => \E c \in used : Between(items[i].key, c.v, c.key)
      /\ pages.over /\ shown[i] = 0 =>
           \/ items[i].key = NullKey /\ used # {}
           \/ \E c \in used : Between(items[i].key, c.key, c.v)
=============================================================================
