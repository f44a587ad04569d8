-------------------------------- MODULE Cart --------------------------------
(***************************************************************************)
(* The cart of one user: CartsViewSet of ecommerce_app/views.py, the model *)
(* Cart with its unique user, and the signal that counts its items         *)
(* (ecommerce_app/signals.py).                                             *)
(*                                                                         *)
(* Statements commit by themselves; items.add and the signal it sends are  *)
(* one transaction.  The items of an answer are read when it is written.   *)
(***************************************************************************)
EXTENDS Naturals, Sequences, FiniteSets

CONSTANTS
  Adds,      \* POST /carts/ requests, clients' retries included
  Products,  \* products a request may ask for
  MaxItems   \* bound: items of one request

VARIABLES
  cart,     \* the Cart row: who made it, its items and its count, {} if none
  wanted,   \* the items each request asks for, in order
  adding,   \* where each request is
  emptying  \* how often a cart was deleted

cartVars == <<cart, wanted, adding, emptying>>

-----------------------------------------------------------------------------
CartInit ==
  /\ cart = {} /\ emptying = 0
  /\ adding = [r \in Adds |-> "idle"]
  /\ wanted \in [Adds -> UNION {[1 .. n -> Products] : n \in 0 .. MaxItems}]

AddTo(r, label) == adding' = [adding EXCEPT ![r] = label]

\* The cart a request works on is the one it made, if it was not deleted.
Mine(r) == {k \in cart : k.by = r}

FirstItem(r) == {<<r, Head(wanted[r])>>}

-----------------------------------------------------------------------------
(* create                                                                  *)

FindCart(r) ==
  /\ adding[r] = "idle"
  /\ AddTo(r, IF cart = {} THEN "create" ELSE "found")
  /\ UNCHANGED <<cart, wanted, emptying>>

\* The unique user refuses a second cart.  Then the first of the items is taken:
\* a request without any raises here.
CreateCart(r) ==
  /\ adding[r] = "create"
  /\ IF cart = {}
     THEN /\ cart' = {[by |-> r, items |-> {}, count |-> 0]}
          /\ AddTo(r, IF wanted[r] = <<>> THEN "raised" ELSE "item")
     ELSE cart' = cart /\ AddTo(r, "raised")
  /\ UNCHANGED <<wanted, emptying>>

\* Mutant: the signal counts what was there before the item is added.
AddItemUncounted(r) ==
  /\ adding[r] = "item"
  /\ cart' = {IF k.by = r THEN [k EXCEPT !.items = FirstItem(r)] ELSE k : k \in cart}
  /\ AddTo(r, IF Mine(r) = {} THEN "raised" ELSE "save")
  /\ UNCHANGED <<wanted, emptying>>

\* The item is saved, added and counted; a cart that is gone refuses it.
AddItem(r) ==
  /\ adding[r] = "item"
  /\ cart' = {IF k.by = r THEN [by |-> r, items |-> FirstItem(r), count |-> 1] ELSE k :
                k \in cart}
  /\ AddTo(r, IF Mine(r) = {} THEN "raised" ELSE "save")
  /\ UNCHANGED <<wanted, emptying>>

\* cart.save() inserts a row that is gone again, unless another took its place:
\* with the count in memory, and without its items.
SaveCart(r) ==
  /\ adding[r] = "save"
  /\ IF cart = {}
     THEN /\ cart' = {[by |-> r, items |-> {}, count |-> 1]}
          /\ AddTo(r, "revived")
     ELSE cart' = cart /\ AddTo(r, IF Mine(r) = {} THEN "raised" ELSE "added")
  /\ UNCHANGED <<wanted, emptying>>

\* A cart that was found is answered as it is.
AnswerFound(r) ==
  /\ adding[r] = "found"
  /\ AddTo(r, "kept")
  /\ UNCHANGED <<cart, wanted, emptying>>

LoseAdd(r) ==
  /\ adding[r] \in {"create", "item", "save"}
  /\ AddTo(r, "lost")
  /\ UNCHANGED <<cart, wanted, emptying>>

\* DELETE /carts/<id>/; the rows of items stay.
DeleteCart ==
  /\ cart # {} /\ emptying = 0
  /\ cart' = {} /\ emptying' = 1
  /\ UNCHANGED <<wanted, adding>>

CartNext ==
  \/ DeleteCart
  \/ \E r \in Adds : \/ FindCart(r) \/ CreateCart(r) \/ AddItem(r) \/ SaveCart(r)
                     \/ AnswerFound(r) \/ LoseAdd(r)

CartSpec == CartInit /\ [][CartNext]_cartVars

-----------------------------------------------------------------------------
\* There is one cart at most.  It holds the first item of the request that made
\* it, and counts it, once that request is answered; it is empty only while that
\* request works, or when it was lost, asked for nothing, or brought a deleted
\* cart back.
CartKept ==
  /\ Cardinality(cart) <= 1
  /\ \A k \in cart :
       /\ adding[k.by] \in {"save", "added"} => k.items = FirstItem(k.by)
       /\ k.items = {} =>
            \/ adding[k.by] \in {"item", "lost", "revived"}
            \/ wanted[k.by] = <<>>
       /\ k.count = Cardinality(k.items) \/ adding[k.by] = "revived"
=============================================================================
