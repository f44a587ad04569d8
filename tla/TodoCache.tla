----------------------------- MODULE TodoCache -----------------------------
(***************************************************************************)
(* The task list of one user and its cache: TaskViewSet of                 *)
(* todo_app/views.py, the version that is part of the key (cache.py) and   *)
(* the signal that increments it (signals.py).                             *)
(*                                                                         *)
(* Redis is asked by single commands: incrementing is a GET and a SET, and *)
(* so is finding no version and setting it to 1.  The table commits before *)
(* the signal.  A failing Redis raises out of the request: a change stops  *)
(* where it is, and is never over.  The version never expires, but Redis   *)
(* may evict it.                                                           *)
(***************************************************************************)
EXTENDS Naturals

CONSTANTS
  Changes,  \* bound: requests that create, update or delete a task
  Lists     \* GET /tasks/ requests, one after the other each

ASSUME ChangesAssumption == Changes \in Nat

VARIABLES
  tasks,      \* the changes committed to the table, numbered as they commit
  version,    \* the version in Redis, 0 when there is none
  cachedList, \* the entry of each version, {} or how many changes it shows
  changing,   \* where each change is, and the version it got
  listing,    \* where each list is, the version of its key, how many
              \* changes it shows, and which it must show
  setBack     \* a SET wrote a smaller version than there was, or Redis evicted it

todoVars == <<tasks, version, cachedList, changing, listing, setBack>>

-----------------------------------------------------------------------------
Versions == 1 .. Changes + 1

Listing(label) == [at |-> label, v |-> 0, data |-> 0, due |-> {}]

TodoInit ==
  /\ tasks = 0 /\ version = 0
  /\ cachedList = [v \in Versions |-> {}]
  /\ changing = [c \in 1 .. Changes |-> [at |-> "idle", v |-> 0]]
  /\ listing = [l \in Lists |-> Listing("idle")]
  /\ setBack = FALSE

\* The changes whose request is over.
Over == {c \in 1 .. Changes : changing[c].at = "done"}

SetVersion(v) ==
  /\ version' = v
  /\ setBack' = (setBack \/ v < version)

-----------------------------------------------------------------------------
(* increment_user_cache_version, after the row is saved or deleted         *)

ChangeTask ==
  /\ tasks < Changes
  /\ tasks' = tasks + 1
  /\ changing' = [changing EXCEPT ![tasks'].at = "get"]
  /\ UNCHANGED <<version, cachedList, listing, setBack>>

\* A missing version counts as 0.
GetForIncrement(c) ==
  /\ changing[c].at = "get"
  /\ changing' = [changing EXCEPT ![c] = [at |-> "set", v |-> version]]
  /\ UNCHANGED <<tasks, version, cachedList, listing, setBack>>

SetIncremented(c) ==
  /\ changing[c].at = "set"
  /\ SetVersion(changing[c].v + 1)
  /\ changing' = [changing EXCEPT ![c] = [at |-> "done", v |-> 0]]
  /\ UNCHANGED <<tasks, cachedList, listing>>

-----------------------------------------------------------------------------
(* TaskViewSet.list; any command of Redis may raise                        *)

ListTo(l, label) == listing' = [listing EXCEPT ![l].at = label]

GetVersion(l) ==
  /\ listing[l].at = "idle"
  /\ listing' = [listing EXCEPT ![l] =
       [at |-> IF version = 0 THEN "first" ELSE "lookup", v |-> version,
        data |-> 0, due |-> Over]]
  /\ UNCHANGED <<tasks, version, cachedList, changing, setBack>>

SetFirstVersion(l) ==
  /\ listing[l].at = "first"
  /\ SetVersion(1)
  /\ listing' = [listing EXCEPT ![l].at = "lookup", ![l].v = 1]
  /\ UNCHANGED <<tasks, cachedList, changing>>

LookUpList(l) ==
  /\ listing[l].at = "lookup"
  /\ LET entries == cachedList[listing[l].v]
     IN \/ entries = {} /\ ListTo(l, "read")
        \/ \E e \in entries :
             listing' = [listing EXCEPT ![l].at = "answered", ![l].data = e]
  /\ UNCHANGED <<tasks, version, cachedList, changing, setBack>>

\* Mutant: the key is made again when the answer is stored.
StoreUnderLatest(l) ==
  /\ listing[l].at = "store"
  /\ cachedList' = [cachedList EXCEPT ![IF version = 0 THEN 1 ELSE version] =
                                        {listing[l].data}]
  /\ ListTo(l, "answered")
  /\ UNCHANGED <<tasks, version, changing, setBack>>

ReadTasks(l) ==
  /\ listing[l].at = "read"
  /\ listing' = [listing EXCEPT ![l].at = "store", ![l].data = tasks]
  /\ UNCHANGED <<tasks, version, cachedList, changing, setBack>>

StoreList(l) ==
  /\ listing[l].at = "store"
  /\ cachedList' = [cachedList EXCEPT ![listing[l].v] = {listing[l].data}]
  /\ ListTo(l, "answered")
  /\ UNCHANGED <<tasks, version, changing, setBack>>

EndList(l) ==
  /\ \/ listing[l].at = "answered"
     \/ listing[l].at \in {"first", "lookup", "store"}  \* Redis raised
  /\ listing' = [listing EXCEPT ![l] = Listing("idle")]
  /\ UNCHANGED <<tasks, version, cachedList, changing, setBack>>

-----------------------------------------------------------------------------
\* CACHE_TIMEOUT is over.
ExpireList(v) ==
  /\ cachedList[v] # {}
  /\ cachedList' = [cachedList EXCEPT ![v] = {}]
  /\ UNCHANGED <<tasks, version, changing, listing, setBack>>

\* Redis evicts what was not used for long when its memory is full.
EvictVersion ==
  /\ version # 0
  /\ version' = 0 /\ setBack' = TRUE
  /\ UNCHANGED <<tasks, cachedList, changing, listing>>

\* Bound: nothing is looked at after a version that went back.
TodoNext ==
  /\ ~setBack
  /\ \/ ChangeTask
     \/ \E c \in 1 .. Changes : GetForIncrement(c) \/ SetIncremented(c)
     \/ \E l \in Lists : \/ GetVersion(l) \/ SetFirstVersion(l) \/ LookUpList(l)
                         \/ ReadTasks(l) \/ StoreList(l) \/ EndList(l)
     \/ \E v \in Versions : ExpireList(v)
     \/ EvictVersion

TodoSpec == TodoInit /\ [][TodoNext]_todoVars

-----------------------------------------------------------------------------
\* A list shows every change whose request was over before it began, though the
\* version is incremented by GET and SET: two changes that write the same
\* version, or a list that stores old tasks late, do no harm.  The exception is
\* a version that went back, by a change that was overtaken by two others, by a
\* list that set the first version late, or by an eviction.
TodoFreshAfterChange ==
  \A l \in Lists :
    listing[l].at \in {"store", "answered"} /\ ~setBack =>
      listing[l].due \subseteq 1 .. listing[l].data
=============================================================================
