-------------------------- MODULE Services_proofs ---------------------------
(* Proofs about the small services, each for every value of its constants.  A
   part has the inductive invariant of one module, the lemmas that a step of it
   preserves that invariant, and the theorem that follows. *)

EXTENDS NearbyShops, SandboxJob, TodoCache, FiniteSets, FiniteSetTheorems,
        EventStream, Cart, BulkUpload, MapLayers, HistoryCompaction,
        DocumentIngest, SearchPaging,
        SequenceTheorems, TLAPS

-----------------------------------------------------------------------------
(* NearbyShops                                                              *)

NearbyTypeOK ==
  /\ shops \subseteq Writers
  /\ kept \subseteq [data : SUBSET Writers, raced : SUBSET Writers]
  /\ saving \in [Writers -> {"idle", "checked", "refused", "saved", "listed", "done", "unkept"}]
  /\ asking \in [Buyers -> [at : {"idle", "missed", "read", "answered", "cached"},
                            data : SUBSET Writers, settled : SUBSET Writers,
                            raced : SUBSET Writers]]

\* What is in the table, but for what a reader raced with, is in its answer, and
\* so is every change that was over in an answer that is kept.
NearbyInv ==
  /\ \A w \in Writers : saving[w] \in {"saved", "listed", "done", "unkept"} => w \in shops
  /\ \A e \in kept : Settled \subseteq e.data \cup e.raced
  /\ \A b \in Buyers :
       /\ asking[b].at = "missed" => asking[b].settled \subseteq shops
       /\ asking[b].at = "read" =>
            /\ shops \subseteq asking[b].data \cup asking[b].raced
            /\ asking[b].settled \subseteq asking[b].data
       /\ asking[b].at = "answered" => asking[b].settled \subseteq asking[b].data
       /\ asking[b].at = "cached" =>
            asking[b].settled \subseteq asking[b].data \cup asking[b].raced

LEMMA NearbyTypeStep ==
  ASSUME NearbyTypeOK, [NearbyNext]_nearbyVars
  PROVE  NearbyTypeOK'
<1> USE DEF NearbyTypeOK, SaveTo, Asked, Settled
<1>1. CASE Expire
  BY <1>1 DEF Expire
<1>2. ASSUME NEW w \in Writers, CheckShop(w) PROVE NearbyTypeOK'
  BY <1>2 DEF CheckShop
<1>3. ASSUME NEW w \in Writers, SaveShop(w) PROVE NearbyTypeOK'
  BY <1>3 DEF SaveShop
<1>4. ASSUME NEW w \in Writers, ListKeys(w) PROVE NearbyTypeOK'
  BY <1>4 DEF ListKeys
<1>5. ASSUME NEW w \in Writers, DeleteKeys(w) PROVE NearbyTypeOK'
  BY <1>5 DEF DeleteKeys
<1>6. ASSUME NEW b \in Buyers, LookInCache(b) PROVE NearbyTypeOK'
  <2>1. \/ asking' = [asking EXCEPT ![b] =
              [at |-> "missed", data |-> {}, settled |-> Settled, raced |-> {}]]
        \/ \E e \in kept :
             asking' = [asking EXCEPT ![b] =
               [at |-> "cached", data |-> e.data, settled |-> Settled, raced |-> e.raced]]
    BY <1>6 DEF LookInCache
  <2>2. UNCHANGED <<shops, kept, saving>>
    BY <1>6 DEF LookInCache
  <2>3. Settled \subseteq Writers /\ Settled' = Settled
    BY <2>2
  <2> HIDE DEF Settled
  <2>4. CASE asking' = [asking EXCEPT ![b] =
               [at |-> "missed", data |-> {}, settled |-> Settled, raced |-> {}]]
    BY <2>2, <2>3, <2>4
  <2>5. ASSUME NEW e \in kept,
               asking' = [asking EXCEPT ![b] =
                 [at |-> "cached", data |-> e.data, settled |-> Settled, raced |-> e.raced]]
        PROVE  NearbyTypeOK'
    BY <2>2, <2>3, <2>5
  <2> QED BY <2>1, <2>4, <2>5
<1>7. ASSUME NEW b \in Buyers, ReadShops(b) PROVE NearbyTypeOK'
  BY ZenonT(60), <1>7 DEF ReadShops
<1>8. ASSUME NEW b \in Buyers, KeepAnswer(b) PROVE NearbyTypeOK'
  BY <1>8 DEF KeepAnswer
<1>9. ASSUME NEW b \in Buyers, AskAgain(b) PROVE NearbyTypeOK'
  BY <1>9 DEF AskAgain
<1>10. CASE UNCHANGED nearbyVars
  BY <1>10 DEF nearbyVars
<1> QED BY <1>1, <1>2, <1>3, <1>4, <1>5, <1>6, <1>7, <1>8, <1>9, <1>10 DEF NearbyNext

LEMMA NearbyInvStep ==
  ASSUME NearbyTypeOK, NearbyInv, [NearbyNext]_nearbyVars
  PROVE  NearbyInv'
<1> USE DEF NearbyTypeOK, NearbyInv, SaveTo, Asked, Settled
<1>1. CASE Expire
  BY <1>1 DEF Expire
<1>2. ASSUME NEW w \in Writers, CheckShop(w) PROVE NearbyInv'
  BY <1>2 DEF CheckShop
<1>3. ASSUME NEW w \in Writers, SaveShop(w) PROVE NearbyInv'
  BY <1>3 DEF SaveShop
<1>4. ASSUME NEW w \in Writers, ListKeys(w) PROVE NearbyInv'
  BY <1>4 DEF ListKeys
<1>5. ASSUME NEW w \in Writers, DeleteKeys(w) PROVE NearbyInv'
  BY <1>5 DEF DeleteKeys
<1>6. ASSUME NEW b \in Buyers, LookInCache(b) PROVE NearbyInv'
  <2>1. \/ asking' = [asking EXCEPT ![b] =
              [at |-> "missed", data |-> {}, settled |-> Settled, raced |-> {}]]
        \/ \E e \in kept :
             asking' = [asking EXCEPT ![b] =
               [at |-> "cached", data |-> e.data, settled |-> Settled, raced |-> e.raced]]
    BY <1>6 DEF LookInCache
  <2>2. UNCHANGED <<shops, kept, saving>>
    BY <1>6 DEF LookInCache
  <2>3. Settled \subseteq Writers /\ Settled' = Settled /\ Settled \subseteq shops
    BY <2>2
  <2> HIDE DEF Settled
  <2>4. CASE asking' = [asking EXCEPT ![b] =
               [at |-> "missed", data |-> {}, settled |-> Settled, raced |-> {}]]
    BY <2>2, <2>3, <2>4
  <2>5. ASSUME NEW e \in kept,
               asking' = [asking EXCEPT ![b] =
                 [at |-> "cached", data |-> e.data, settled |-> Settled, raced |-> e.raced]]
        PROVE  NearbyInv'
    BY <2>2, <2>3, <2>5
  <2> QED BY <2>1, <2>4, <2>5
<1>7. ASSUME NEW b \in Buyers, ReadShops(b) PROVE NearbyInv'
  BY <1>7 DEF ReadShops
<1>8. ASSUME NEW b \in Buyers, KeepAnswer(b) PROVE NearbyInv'
  BY <1>8 DEF KeepAnswer
<1>9. ASSUME NEW b \in Buyers, AskAgain(b) PROVE NearbyInv'
  BY <1>9 DEF AskAgain
<1>10. CASE UNCHANGED nearbyVars
  BY <1>10 DEF nearbyVars
<1> QED BY <1>1, <1>2, <1>3, <1>4, <1>5, <1>6, <1>7, <1>8, <1>9, <1>10 DEF NearbyNext

\* A stale answer about the shops comes from a cache that was written by a reader
\* whom the change overtook, and from nothing else.
THEOREM NearbyCorrect == NearbySpec => []NearbyStaleForAReason
<1>1. NearbyInit => NearbyTypeOK /\ NearbyInv
  BY DEF NearbyInit, NearbyTypeOK, NearbyInv, Asked, Settled
<1>2. NearbyTypeOK /\ NearbyInv /\ [NearbyNext]_nearbyVars => NearbyTypeOK' /\ NearbyInv'
  BY NearbyTypeStep, NearbyInvStep
<1>3. NearbyInv => NearbyStaleForAReason
  BY DEF NearbyInv, NearbyStaleForAReason
<1> QED BY <1>1, <1>2, <1>3, PTL DEF NearbySpec

-----------------------------------------------------------------------------
(* SandboxJob                                                               *)

BoxTypeOK ==
  /\ now \in Nat
  /\ entry \in [status : {"none", "pending", "succeeded", "failed"},
                files : SUBSET OutputFiles]
  /\ container \in [at : {"none", "starting", "running", "ended", "stopped", "raised", "lost"},
                    since : Nat]
  /\ outputs \subseteq OutputFiles
  /\ tool \in [at : {"idle", "polling", "timedOut", "succeeded", "failed", "raised"},
               polls : Nat, wake : Nat]
  /\ layerCall \in [OutputFiles -> {"idle", "notFound", "fetched", "made", "raised", "done"}]

\* What the entry says of the container.
EntryInv ==
  /\ container.at = "none" => tool.at \in {"idle", "raised"} /\ entry.status = "none"
  /\ container.at \in {"starting", "running"} => entry.status = "pending"
  /\ entry.status = "pending" => container.at \in {"starting", "running", "raised"}
  /\ entry.status = "succeeded" => container.at = "ended" /\ outputs = entry.files
  /\ entry.status = "failed" => container.at \in {"ended", "stopped"}
  /\ tool.at = "idle" => container.at = "none"
  /\ tool.at = "succeeded" => container.at \in {"ended", "lost"}
  /\ (\E f \in OutputFiles : layerCall[f] # "idle") => tool.at = "succeeded"

\* A run is over, by the sandbox's own clock, before the tool stops polling.
TimeInv ==
  /\ tool.at = "idle" => now = 0
  /\ container.at = "starting" => now <= StartLimit
  /\ container.at = "running" =>
       container.since <= StartLimit /\ now <= container.since + ExecutionTimeout
  /\ tool.at = "polling" => tool.polls < tool.wake /\ tool.polls < MaxPolls

BoxInv == BoxTypeOK /\ EntryInv /\ TimeInv /\ AnswerMatchesRun

LEMMA BoxTypeStep ==
  ASSUME BoxTypeOK, [BoxNext]_boxVars
  PROVE  BoxTypeOK'
<1> USE BudgetAssumption DEF ContainerTo, LayerTo, NoEntry, Due, Verdict, BoxTypeOK
<1>1. CASE Execute
  BY <1>1 DEF Execute
<1>2. CASE StartContainer
  BY <1>2 DEF StartContainer
<1>3. CASE EndRun
  BY <1>3 DEF EndRun
<1>4. CASE StopRun
  BY <1>4 DEF StopRun
<1>5. CASE RestartSandbox
  BY <1>5 DEF RestartSandbox
<1>6. CASE Tick
  BY <1>6 DEF Tick
<1>7. CASE Poll
  BY <1>7 DEF Poll
<1>8. CASE PollRaises
  BY <1>8 DEF PollRaises
<1>9. ASSUME NEW f \in OutputFiles, WriteOutput(f) PROVE BoxTypeOK'
  BY <1>9 DEF WriteOutput
<1>10. ASSUME NEW f \in OutputFiles, FetchOutput(f) PROVE BoxTypeOK'
  BY <1>10 DEF FetchOutput
<1>11. ASSUME NEW f \in OutputFiles, MakeLayer(f) PROVE BoxTypeOK'
  BY <1>11 DEF MakeLayer
<1>12. ASSUME NEW f \in OutputFiles, DeleteResult(f) PROVE BoxTypeOK'
  BY <1>12 DEF DeleteResult
<1>13. CASE UNCHANGED boxVars
  BY <1>13 DEF boxVars
<1> QED BY <1>1, <1>2, <1>3, <1>4, <1>5, <1>6, <1>7, <1>8, <1>9, <1>10, <1>11, <1>12,
       <1>13 DEF BoxNext

LEMMA EntryInvStep ==
  ASSUME BoxTypeOK, EntryInv, [BoxNext]_boxVars
  PROVE  EntryInv'
<1> USE BudgetAssumption DEF ContainerTo, LayerTo, NoEntry, Due, Verdict, BoxTypeOK, EntryInv
<1>1. CASE Execute
  BY <1>1 DEF Execute
<1>2. CASE StartContainer
  BY <1>2 DEF StartContainer
<1>3. CASE EndRun
  BY <1>3 DEF EndRun
<1>4. CASE StopRun
  BY <1>4 DEF StopRun
<1>5. CASE RestartSandbox
  BY <1>5 DEF RestartSandbox
<1>6. CASE Tick
  BY <1>6 DEF Tick
<1>7. CASE Poll
  BY <1>7 DEF Poll
<1>8. CASE PollRaises
  BY <1>8 DEF PollRaises
<1>9. ASSUME NEW f \in OutputFiles, WriteOutput(f) PROVE EntryInv'
  BY <1>9 DEF WriteOutput
<1>10. ASSUME NEW f \in OutputFiles, FetchOutput(f) PROVE EntryInv'
  BY <1>10 DEF FetchOutput
<1>11. ASSUME NEW f \in OutputFiles, MakeLayer(f) PROVE EntryInv'
  BY <1>11 DEF MakeLayer
<1>12. ASSUME NEW f \in OutputFiles, DeleteResult(f) PROVE EntryInv'
  BY <1>12 DEF DeleteResult
<1>13. CASE UNCHANGED boxVars
  BY <1>13 DEF boxVars
<1> QED BY <1>1, <1>2, <1>3, <1>4, <1>5, <1>6, <1>7, <1>8, <1>9, <1>10, <1>11, <1>12,
       <1>13 DEF BoxNext

LEMMA TimeInvStep ==
  ASSUME BoxTypeOK, EntryInv, TimeInv, [BoxNext]_boxVars
  PROVE  TimeInv'
<1> USE BudgetAssumption DEF ContainerTo, LayerTo, NoEntry, Due, Verdict, BoxTypeOK, EntryInv, TimeInv
<1>1. CASE Execute
  BY <1>1 DEF Execute
<1>2. CASE StartContainer
  BY <1>2 DEF StartContainer
<1>3. CASE EndRun
  BY <1>3 DEF EndRun
<1>4. CASE StopRun
  BY <1>4 DEF StopRun
<1>5. CASE RestartSandbox
  BY <1>5 DEF RestartSandbox
<1>6. CASE Tick
  BY <1>6 DEF Tick
<1>7. CASE Poll
  BY <1>7 DEF Poll
<1>8. CASE PollRaises
  BY <1>8 DEF PollRaises
<1>9. ASSUME NEW f \in OutputFiles, WriteOutput(f) PROVE TimeInv'
  BY <1>9 DEF WriteOutput
<1>10. ASSUME NEW f \in OutputFiles, FetchOutput(f) PROVE TimeInv'
  BY <1>10 DEF FetchOutput
<1>11. ASSUME NEW f \in OutputFiles, MakeLayer(f) PROVE TimeInv'
  BY <1>11 DEF MakeLayer
<1>12. ASSUME NEW f \in OutputFiles, DeleteResult(f) PROVE TimeInv'
  BY <1>12 DEF DeleteResult
<1>13. CASE UNCHANGED boxVars
  BY <1>13 DEF boxVars
<1> QED BY <1>1, <1>2, <1>3, <1>4, <1>5, <1>6, <1>7, <1>8, <1>9, <1>10, <1>11, <1>12,
       <1>13 DEF BoxNext

LEMMA AnswerStep ==
  ASSUME BoxInv, [BoxNext]_boxVars
  PROVE  AnswerMatchesRun'
<1> USE BudgetAssumption DEF ContainerTo, LayerTo, NoEntry, Due, Verdict, BoxInv, BoxTypeOK, EntryInv, TimeInv, AnswerMatchesRun, RunEnded
<1>1. CASE Execute
  BY <1>1 DEF Execute
<1>2. CASE StartContainer
  BY <1>2 DEF StartContainer
<1>3. CASE EndRun
  BY <1>3 DEF EndRun
<1>4. CASE StopRun
  BY <1>4 DEF StopRun
<1>5. CASE RestartSandbox
  BY <1>5 DEF RestartSandbox
<1>6. CASE Tick
  BY <1>6 DEF Tick
<1>7. CASE Poll
  BY <1>7 DEF Poll
<1>8. CASE PollRaises
  BY <1>8 DEF PollRaises
<1>9. ASSUME NEW f \in OutputFiles, WriteOutput(f) PROVE AnswerMatchesRun'
  BY <1>9 DEF WriteOutput
<1>10. ASSUME NEW f \in OutputFiles, FetchOutput(f) PROVE AnswerMatchesRun'
  BY <1>10 DEF FetchOutput
<1>11. ASSUME NEW f \in OutputFiles, MakeLayer(f) PROVE AnswerMatchesRun'
  BY <1>11 DEF MakeLayer
<1>12. ASSUME NEW f \in OutputFiles, DeleteResult(f) PROVE AnswerMatchesRun'
  <2>1. CASE UNCHANGED <<entry, outputs>> /\ layerCall' = [layerCall EXCEPT ![f] = "raised"]
    BY <1>12, <2>1 DEF DeleteResult
  <2>2. CASE layerCall' = [layerCall EXCEPT ![f] = "done"] /\ entry' = NoEntry
    <3>1. layerCall'[f] = "done"
      BY <2>2
    <3>2. tool.at = "succeeded" /\ tool' = tool /\ container' = container
      BY <1>12 DEF DeleteResult
    <3> QED BY <3>1, <3>2
  <2> QED BY <1>12, <2>1, <2>2 DEF DeleteResult
<1>13. CASE UNCHANGED boxVars
  BY <1>13 DEF boxVars
<1> QED BY <1>1, <1>2, <1>3, <1>4, <1>5, <1>6, <1>7, <1>8, <1>9, <1>10, <1>11, <1>12,
       <1>13 DEF BoxNext

\* The tool's answer is what became of the run, for any limits of which the tool's
\* is the longest.
THEOREM BoxCorrect == BoxSpec => []AnswerMatchesRun
<1>1. BoxInit => BoxInv
  BY BudgetAssumption
     DEF BoxInit, BoxInv, BoxTypeOK, EntryInv, TimeInv, AnswerMatchesRun, NoEntry
<1>2. BoxInv /\ [BoxNext]_boxVars => BoxInv'
  BY BoxTypeStep, EntryInvStep, TimeInvStep, AnswerStep DEF BoxInv
<1>3. BoxInv => AnswerMatchesRun
  BY DEF BoxInv
<1> QED BY <1>1, <1>2, <1>3, PTL DEF BoxSpec

-----------------------------------------------------------------------------
(* TodoCache                                                                *)

TodoTypeOK ==
  /\ tasks \in 0 .. Changes
  /\ version \in Nat
  /\ cachedList \in [Versions -> SUBSET (0 .. Changes)]
  /\ changing \in [1 .. Changes -> [at : {"idle", "get", "set", "done"}, v : Nat]]
  /\ listing \in [Lists -> [at : {"idle", "first", "lookup", "read", "store", "answered"},
                            v : Nat, data : 0 .. Changes, due : SUBSET (1 .. Changes)]]
  /\ setBack \in BOOLEAN

\* A version is one more than the changes that are over, at most.
VersionInv ==
  /\ version <= Cardinality(Over) + 1
  /\ \A c \in 1 .. Changes : changing[c].at = "set" =>
       changing[c].v <= Cardinality(Over) + 1
  /\ \A l \in Lists : listing[l].at \in {"lookup", "read", "store"} =>
       listing[l].v \in Versions

\* A list of d changes under version v: a change that it lacks has moved the
\* version on, or will.
Behind(d, v) ==
  \A c \in 1 .. Changes : c > d =>
    /\ changing[c].at = "done" => version > v
    /\ changing[c].at = "set" => changing[c].v >= v

ChangeInv ==
  \A c \in 1 .. Changes :
    /\ changing[c].at # "idle" => c <= tasks
    /\ changing[c].at = "set" => changing[c].v <= version
    /\ changing[c].at = "done" => version > 0

\* What is stored, and what is about to be.
StoreInv ==
  /\ \A v \in Versions : \A d \in cachedList[v] : v <= version /\ Behind(d, v)
  /\ \A l \in Lists : listing[l].at = "store" =>
       listing[l].v <= version /\ Behind(listing[l].data, listing[l].v)

\* What a list must show is under its key, now and later.
DueOf(l) ==
  /\ listing[l].at = "first" => listing[l].due = {}
  /\ listing[l].at \in {"lookup", "read"} =>
       /\ listing[l].v <= version
       /\ listing[l].due \subseteq 1 .. tasks
       /\ \A d \in cachedList[listing[l].v] : listing[l].due \subseteq 1 .. d
       /\ \A m \in Lists : listing[m].at = "store" /\ listing[m].v = listing[l].v =>
            listing[l].due \subseteq 1 .. listing[m].data
  /\ listing[l].at \in {"store", "answered"} =>
       listing[l].due \subseteq 1 .. listing[l].data

DueInv == \A l \in Lists : DueOf(l)

OrderInv == ~setBack => ChangeInv /\ StoreInv /\ DueInv

TodoInv == TodoTypeOK /\ VersionInv /\ OrderInv

LEMMA OverFinite ==
  IsFiniteSet(Over) /\ Cardinality(Over) \in Nat /\ Cardinality(Over) <= Changes
<1>1. IsFiniteSet(1 .. Changes) /\ Cardinality(1 .. Changes) = Changes
  BY ChangesAssumption, FS_Interval
<1>2. Over \subseteq 1 .. Changes
  BY DEF Over
<1> QED BY <1>1, <1>2, FS_Subset, FS_CardinalityType

LEMMA TodoTypeStep ==
  ASSUME TodoTypeOK, VersionInv, [TodoNext]_todoVars
  PROVE  TodoTypeOK'
<1> USE ChangesAssumption DEF ListTo, SetVersion, Listing, Versions, TodoTypeOK, VersionInv
<1>1. CASE ChangeTask
  <2>1. tasks' = tasks + 1 /\ tasks + 1 \in 1 .. Changes
    BY <1>1 DEF ChangeTask
  <2>2. changing' = [changing EXCEPT ![tasks + 1].at = "get"]
    BY <1>1, <2>1 DEF ChangeTask
  <2> QED BY <1>1, <2>1, <2>2 DEF ChangeTask
<1>2. ASSUME NEW c \in 1 .. Changes, GetForIncrement(c) PROVE TodoTypeOK'
  BY <1>2 DEF GetForIncrement
<1>3. ASSUME NEW c \in 1 .. Changes, SetIncremented(c) PROVE TodoTypeOK'
  BY <1>3 DEF SetIncremented
<1>4. ASSUME NEW l \in Lists, GetVersion(l) PROVE TodoTypeOK'
  BY <1>4 DEF GetVersion, Over
<1>5. ASSUME NEW l \in Lists, SetFirstVersion(l) PROVE TodoTypeOK'
  BY ZenonT(60), <1>5 DEF SetFirstVersion
<1>6. ASSUME NEW l \in Lists, LookUpList(l) PROVE TodoTypeOK'
  <2>1. cachedList[listing[l].v] \subseteq 0 .. Changes
    BY <1>6 DEF LookUpList
  <2>2. \/ listing' = [listing EXCEPT ![l].at = "read"]
        \/ \E e \in cachedList[listing[l].v] :
             listing' = [listing EXCEPT ![l].at = "answered", ![l].data = e]
    BY <1>6 DEF LookUpList
  <2>3. /\ UNCHANGED <<tasks, version, cachedList, changing, setBack>>
        /\ listing[l].at = "lookup"
    BY <1>6 DEF LookUpList
  <2>4. CASE listing' = [listing EXCEPT ![l].at = "read"]
    BY <2>3, <2>4
  <2>5. ASSUME NEW e \in cachedList[listing[l].v], e \in 0 .. Changes,
               listing' = [listing EXCEPT ![l].at = "answered", ![l].data = e]
        PROVE  TodoTypeOK'
    BY ZenonT(60), <2>3, <2>5
  <2> QED BY <2>1, <2>2, <2>4, <2>5
<1>7. ASSUME NEW l \in Lists, ReadTasks(l) PROVE TodoTypeOK'
  BY ZenonT(60), <1>7 DEF ReadTasks
<1>8. ASSUME NEW l \in Lists, StoreList(l) PROVE TodoTypeOK'
  BY <1>8 DEF StoreList
<1>9. ASSUME NEW l \in Lists, EndList(l) PROVE TodoTypeOK'
  BY <1>9 DEF EndList
<1>10. ASSUME NEW v \in Versions, ExpireList(v) PROVE TodoTypeOK'
  BY <1>10 DEF ExpireList
<1>11. CASE EvictVersion
  BY <1>11 DEF EvictVersion
<1>12. CASE UNCHANGED todoVars
  BY <1>12 DEF todoVars
<1> QED BY <1>1, <1>2, <1>3, <1>4, <1>5, <1>6, <1>7, <1>8, <1>9, <1>10, <1>11, <1>12 DEF TodoNext

LEMMA VersionInvStep ==
  ASSUME TodoTypeOK, VersionInv, ~setBack => ChangeInv, [TodoNext]_todoVars
  PROVE  VersionInv'
<1> USE ChangesAssumption DEF ListTo, SetVersion, Listing, Versions, TodoTypeOK, VersionInv
<1>1. CASE ChangeTask
  <2>1. changing[tasks + 1].at = "idle"
    BY <1>1 DEF ChangeTask, ChangeInv, TodoNext, todoVars
  <2>2. Over' = Over
    BY <1>1, <2>1 DEF Over, ChangeTask
  <2>3. Cardinality(Over') = Cardinality(Over)
    BY <2>2
  <2> QED BY <1>1, <2>3, OverFinite DEF ChangeTask
<1>2. ASSUME NEW c \in 1 .. Changes, GetForIncrement(c) PROVE VersionInv'
  <2>1. Over' = Over
    BY <1>2 DEF Over, GetForIncrement
  <2>2. Cardinality(Over') = Cardinality(Over)
    BY <2>1
  <2> QED BY <1>2, <2>2, OverFinite DEF GetForIncrement
<1>3. ASSUME NEW c \in 1 .. Changes, SetIncremented(c) PROVE VersionInv'
  <2>1. Over' = Over \cup {c} /\ c \notin Over
    BY <1>3 DEF Over, SetIncremented
  <2>2. Cardinality(Over') = Cardinality(Over) + 1
    BY <2>1, OverFinite, FS_AddElement
  <2> QED BY <1>3, <2>2, OverFinite DEF SetIncremented
<1>4. ASSUME NEW l \in Lists, GetVersion(l) PROVE VersionInv'
  <2>1. Over' = Over
    BY <1>4 DEF Over, GetVersion
  <2>2. Cardinality(Over') = Cardinality(Over)
    BY <2>1
  <2> QED BY <1>4, <2>2, OverFinite DEF GetVersion
<1>5. ASSUME NEW l \in Lists, SetFirstVersion(l) PROVE VersionInv'
  <2>1. Over' = Over
    BY <1>5 DEF Over, SetFirstVersion
  <2>2. Cardinality(Over') = Cardinality(Over)
    BY <2>1
  <2> QED BY <1>5, <2>2, OverFinite DEF SetFirstVersion
<1>6. ASSUME NEW l \in Lists, LookUpList(l) PROVE VersionInv'
  <2>1. Over' = Over
    BY <1>6 DEF Over, LookUpList
  <2>2. Cardinality(Over') = Cardinality(Over)
    BY <2>1
  <2>3. UNCHANGED <<version, changing>> /\ listing[l].at = "lookup"
    BY <1>6 DEF LookUpList
  <2>4. ASSUME NEW m \in Lists, listing'[m].at \in {"lookup", "read", "store"}
        PROVE  listing'[m].v = listing[m].v /\ listing[m].at \in {"lookup", "read", "store"}
    <3>1. CASE m = l
      BY <1>6, <2>4, <3>1 DEF LookUpList
    <3>2. CASE m # l
      BY <1>6, <2>4, <3>2 DEF LookUpList
    <3> QED BY <3>1, <3>2
  <2> QED BY <2>2, <2>3, <2>4, OverFinite
<1>7. ASSUME NEW l \in Lists, ReadTasks(l) PROVE VersionInv'
  <2>1. Over' = Over
    BY <1>7 DEF Over, ReadTasks
  <2>2. Cardinality(Over') = Cardinality(Over)
    BY <2>1
  <2> QED BY <1>7, <2>2, OverFinite DEF ReadTasks
<1>8. ASSUME NEW l \in Lists, StoreList(l) PROVE VersionInv'
  <2>1. Over' = Over
    BY <1>8 DEF Over, StoreList
  <2>2. Cardinality(Over') = Cardinality(Over)
    BY <2>1
  <2> QED BY <1>8, <2>2, OverFinite DEF StoreList
<1>9. ASSUME NEW l \in Lists, EndList(l) PROVE VersionInv'
  <2>1. Over' = Over
    BY <1>9 DEF Over, EndList
  <2>2. Cardinality(Over') = Cardinality(Over)
    BY <2>1
  <2> QED BY <1>9, <2>2, OverFinite DEF EndList
<1>10. ASSUME NEW v \in Versions, ExpireList(v) PROVE VersionInv'
  <2>1. Over' = Over
    BY <1>10 DEF Over, ExpireList
  <2>2. Cardinality(Over') = Cardinality(Over)
    BY <2>1
  <2> QED BY <1>10, <2>2, OverFinite DEF ExpireList
<1>11. CASE EvictVersion
  <2>1. Over' = Over
    BY <1>11 DEF Over, EvictVersion
  <2>2. Cardinality(Over') = Cardinality(Over)
    BY <2>1
  <2> QED BY <1>11, <2>2, OverFinite DEF EvictVersion
<1>12. CASE UNCHANGED todoVars
  BY <1>12 DEF todoVars, Over
<1> QED BY <1>1, <1>2, <1>3, <1>4, <1>5, <1>6, <1>7, <1>8, <1>9, <1>10, <1>11, <1>12 DEF TodoNext

LEMMA ChangeInvStep ==
  ASSUME TodoTypeOK, VersionInv, ~setBack, ~setBack', ChangeInv, StoreInv, DueInv, [TodoNext]_todoVars
  PROVE  ChangeInv'
<1> USE ChangesAssumption DEF ListTo, SetVersion, Listing, Versions, TodoTypeOK, VersionInv, Behind, ChangeInv
<1>1. CASE ChangeTask
  BY <1>1 DEF ChangeTask
<1>2. ASSUME NEW c \in 1 .. Changes, GetForIncrement(c) PROVE ChangeInv'
  BY <1>2 DEF GetForIncrement
<1>3. ASSUME NEW c \in 1 .. Changes, SetIncremented(c) PROVE ChangeInv'
  <2>1. ~(changing[c].v + 1 < version)
    BY <1>3, Zenon DEF SetIncremented
  <2>2. version' >= version /\ version' = changing[c].v + 1
    BY <1>3, <2>1 DEF SetIncremented
  <2>3. /\ changing' = [changing EXCEPT ![c] = [at |-> "done", v |-> 0]]
        /\ changing[c].at = "set"
        /\ UNCHANGED <<tasks, cachedList, listing>>
    BY <1>3 DEF SetIncremented
  <2> QED BY <2>2, <2>3
<1>4. ASSUME NEW l \in Lists, GetVersion(l) PROVE ChangeInv'
  BY <1>4 DEF GetVersion
<1>5. ASSUME NEW l \in Lists, SetFirstVersion(l) PROVE ChangeInv'
  <2>1. ~(1 < version)
    BY <1>5, Zenon DEF SetFirstVersion
  <2>2. version' >= version /\ version' = 1
    BY <1>5, <2>1 DEF SetFirstVersion
  <2>3. /\ listing' = [listing EXCEPT ![l].at = "lookup", ![l].v = 1]
        /\ listing[l].at = "first"
        /\ UNCHANGED <<tasks, cachedList, changing>>
    BY <1>5 DEF SetFirstVersion
  <2> QED BY <2>2, <2>3
<1>6. ASSUME NEW l \in Lists, LookUpList(l) PROVE ChangeInv'
  <2>1. cachedList[listing[l].v] \subseteq 0 .. Changes
    BY <1>6 DEF LookUpList
  <2>2. \/ listing' = [listing EXCEPT ![l].at = "read"]
        \/ \E e \in cachedList[listing[l].v] :
             listing' = [listing EXCEPT ![l].at = "answered", ![l].data = e]
    BY <1>6 DEF LookUpList
  <2>3. /\ UNCHANGED <<tasks, version, cachedList, changing, setBack>>
        /\ listing[l].at = "lookup"
    BY <1>6 DEF LookUpList
  <2>4. CASE listing' = [listing EXCEPT ![l].at = "read"]
    BY <2>3, <2>4
  <2>5. ASSUME NEW e \in cachedList[listing[l].v], e \in 0 .. Changes,
               listing' = [listing EXCEPT ![l].at = "answered", ![l].data = e]
        PROVE  ChangeInv'
    BY <2>3, <2>5
  <2> QED BY <2>1, <2>2, <2>4, <2>5
<1>7. ASSUME NEW l \in Lists, ReadTasks(l) PROVE ChangeInv'
  BY <1>7 DEF ReadTasks
<1>8. ASSUME NEW l \in Lists, StoreList(l) PROVE ChangeInv'
  BY <1>8 DEF StoreList
<1>9. ASSUME NEW l \in Lists, EndList(l) PROVE ChangeInv'
  BY <1>9 DEF EndList
<1>10. ASSUME NEW v \in Versions, ExpireList(v) PROVE ChangeInv'
  BY <1>10 DEF ExpireList
<1>11. CASE EvictVersion
  BY <1>11 DEF EvictVersion
<1>12. CASE UNCHANGED todoVars
  BY <1>12 DEF todoVars
<1> QED BY <1>1, <1>2, <1>3, <1>4, <1>5, <1>6, <1>7, <1>8, <1>9, <1>10, <1>11, <1>12 DEF TodoNext

LEMMA StoreInvStep ==
  ASSUME TodoTypeOK, VersionInv, ~setBack, ~setBack', ChangeInv, StoreInv, DueInv, [TodoNext]_todoVars
  PROVE  StoreInv'
<1> USE ChangesAssumption DEF ListTo, SetVersion, Listing, Versions, TodoTypeOK, VersionInv, Behind, ChangeInv, StoreInv
<1>1. CASE ChangeTask
  BY <1>1 DEF ChangeTask
<1>2. ASSUME NEW c \in 1 .. Changes, GetForIncrement(c) PROVE StoreInv'
  BY <1>2 DEF GetForIncrement
<1>3. ASSUME NEW c \in 1 .. Changes, SetIncremented(c) PROVE StoreInv'
  <2>1. ~(changing[c].v + 1 < version)
    BY <1>3, Zenon DEF SetIncremented
  <2>2. version' >= version /\ version' = changing[c].v + 1
    BY <1>3, <2>1 DEF SetIncremented
  <2>3. /\ changing' = [changing EXCEPT ![c] = [at |-> "done", v |-> 0]]
        /\ changing[c].at = "set"
        /\ UNCHANGED <<tasks, cachedList, listing>>
    BY <1>3 DEF SetIncremented
  <2> QED BY SMTT(30), <2>2, <2>3
<1>4. ASSUME NEW l \in Lists, GetVersion(l) PROVE StoreInv'
  BY <1>4 DEF GetVersion
<1>5. ASSUME NEW l \in Lists, SetFirstVersion(l) PROVE StoreInv'
  <2>1. ~(1 < version)
    BY <1>5, Zenon DEF SetFirstVersion
  <2>2. version' >= version /\ version' = 1
    BY <1>5, <2>1 DEF SetFirstVersion
  <2>3. /\ listing' = [listing EXCEPT ![l].at = "lookup", ![l].v = 1]
        /\ listing[l].at = "first"
        /\ UNCHANGED <<tasks, cachedList, changing>>
    BY <1>5 DEF SetFirstVersion
  <2> QED BY <2>2, <2>3
<1>6. ASSUME NEW l \in Lists, LookUpList(l) PROVE StoreInv'
  <2>1. cachedList[listing[l].v] \subseteq 0 .. Changes
    BY <1>6 DEF LookUpList
  <2>2. \/ listing' = [listing EXCEPT ![l].at = "read"]
        \/ \E e \in cachedList[listing[l].v] :
             listing' = [listing EXCEPT ![l].at = "answered", ![l].data = e]
    BY <1>6 DEF LookUpList
  <2>3. /\ UNCHANGED <<tasks, version, cachedList, changing, setBack>>
        /\ listing[l].at = "lookup"
    BY <1>6 DEF LookUpList
  <2>4. CASE listing' = [listing EXCEPT ![l].at = "read"]
    BY <2>3, <2>4
  <2>5. ASSUME NEW e \in cachedList[listing[l].v], e \in 0 .. Changes,
               listing' = [listing EXCEPT ![l].at = "answered", ![l].data = e]
        PROVE  StoreInv'
    BY <2>3, <2>5
  <2> QED BY <2>1, <2>2, <2>4, <2>5
<1>7. ASSUME NEW l \in Lists, ReadTasks(l) PROVE StoreInv'
  <2>1. /\ listing' = [listing EXCEPT ![l].at = "store", ![l].data = tasks]
        /\ listing[l].at = "read"
        /\ UNCHANGED <<tasks, version, cachedList, changing, setBack>>
    BY <1>7 DEF ReadTasks
  <2>2. Behind(tasks, listing[l].v) /\ listing[l].v <= version
    BY SMTT(30), <2>1 DEF DueInv, DueOf
  <2> QED BY <2>1, <2>2
<1>8. ASSUME NEW l \in Lists, StoreList(l) PROVE StoreInv'
  BY <1>8 DEF StoreList
<1>9. ASSUME NEW l \in Lists, EndList(l) PROVE StoreInv'
  BY <1>9 DEF EndList
<1>10. ASSUME NEW v \in Versions, ExpireList(v) PROVE StoreInv'
  BY <1>10 DEF ExpireList
<1>11. CASE EvictVersion
  BY <1>11 DEF EvictVersion
<1>12. CASE UNCHANGED todoVars
  BY <1>12 DEF todoVars
<1> QED BY <1>1, <1>2, <1>3, <1>4, <1>5, <1>6, <1>7, <1>8, <1>9, <1>10, <1>11, <1>12 DEF TodoNext

LEMMA DueInvStep ==
  ASSUME TodoTypeOK, VersionInv, ~setBack, ~setBack', ChangeInv, StoreInv, DueInv, [TodoNext]_todoVars
  PROVE  DueInv'
<1> USE ChangesAssumption DEF ListTo, SetVersion, Listing, Versions, TodoTypeOK, VersionInv, Behind, ChangeInv, StoreInv, DueInv, DueOf
<1>1. CASE ChangeTask
  BY <1>1 DEF ChangeTask
<1>2. ASSUME NEW c \in 1 .. Changes, GetForIncrement(c) PROVE DueInv'
  BY <1>2 DEF GetForIncrement
<1>3. ASSUME NEW c \in 1 .. Changes, SetIncremented(c) PROVE DueInv'
  <2>1. ~(changing[c].v + 1 < version)
    BY <1>3, Zenon DEF SetIncremented
  <2>2. version' >= version /\ version' = changing[c].v + 1
    BY <1>3, <2>1 DEF SetIncremented
  <2>3. /\ changing' = [changing EXCEPT ![c] = [at |-> "done", v |-> 0]]
        /\ changing[c].at = "set"
        /\ UNCHANGED <<tasks, cachedList, listing>>
    BY <1>3 DEF SetIncremented
  <2> QED BY <2>2, <2>3
<1>4. ASSUME NEW l \in Lists, GetVersion(l) PROVE DueInv'
  <2>1. /\ listing[l].at = "idle"
        /\ UNCHANGED <<tasks, version, cachedList, changing, setBack>>
        /\ listing' = [listing EXCEPT ![l] =
             [at |-> IF version = 0 THEN "first" ELSE "lookup", v |-> version,
              data |-> 0, due |-> Over]]
    BY <1>4 DEF GetVersion
  <2>2. Over \subseteq 1 .. tasks /\ (version = 0 => Over = {})
    BY DEF Over
  <2>3. version # 0 => version \in Versions
    BY OverFinite
  <2>4. ASSUME NEW d \in 0 .. Changes, Behind(d, version) PROVE Over \subseteq 1 .. d
    BY <2>4 DEF Over
  <2>5. version # 0 => \A d \in cachedList[version] : Over \subseteq 1 .. d
    BY <2>3, <2>4
  <2>6. \A m \in Lists : listing[m].at = "store" /\ listing[m].v = version =>
          Over \subseteq 1 .. listing[m].data
    <3> SUFFICES ASSUME NEW m \in Lists, listing[m].at = "store", listing[m].v = version
                 PROVE  Over \subseteq 1 .. listing[m].data
      OBVIOUS
    <3>1. Behind(listing[m].data, version)
      OBVIOUS
    <3>2. listing[m].data \in 0 .. Changes
      OBVIOUS
    <3> QED BY <2>4, <3>1, <3>2
  <2>7. \A m \in Lists : listing'[m].at = "store" =>
          listing[m].at = "store" /\ listing'[m] = listing[m]
    BY <2>1
  <2>8. \A m \in Lists : m # l => listing'[m] = listing[m]
    BY <2>1
  <2>9. /\ listing'[l].due = Over /\ listing'[l].v = version
        /\ listing'[l].at = IF version = 0 THEN "first" ELSE "lookup"
    BY <2>1
  <2> HIDE DEF Over, Behind, StoreInv, ChangeInv, VersionInv
  <2> QED
    <3>1. ASSUME NEW k \in Lists, k # l
          PROVE  DueOf(k)'
      BY <2>1, <2>7, <2>8, <3>1 DEF DueOf
    <3>2. CASE version = 0
      BY <2>2, <2>9, <3>1, <3>2 DEF DueOf
    <3>3. CASE version # 0
      <4>1. listing'[l].v = version /\ listing'[l].due = Over /\ listing'[l].at = "lookup"
        BY <2>9, <3>3
      <4>2. \A m \in Lists : listing'[m].at = "store" /\ listing'[m].v = version =>
              Over \subseteq 1 .. listing'[m].data
        BY <2>6, <2>7
      <4>3. DueOf(l)'
        <5>1. \A d \in cachedList'[version] : Over \subseteq 1 .. d
          BY <2>1, <2>5, <3>3
        <5>2. Over \subseteq 1 .. tasks' /\ version <= version'
          BY <2>1, <2>2
        <5> HIDE DEF DueInv, TodoTypeOK
        <5> QED BY <4>1, <4>2, <5>1, <5>2 DEF DueOf
      <4> QED BY <3>1, <4>3
    <3> QED BY <3>2, <3>3
<1>5. ASSUME NEW l \in Lists, SetFirstVersion(l) PROVE DueInv'
  <2>1. ~(1 < version)
    BY <1>5, Zenon DEF SetFirstVersion
  <2>2. version' >= version /\ version' = 1
    BY <1>5, <2>1 DEF SetFirstVersion
  <2>3. /\ listing' = [listing EXCEPT ![l].at = "lookup", ![l].v = 1]
        /\ listing[l].at = "first"
        /\ UNCHANGED <<tasks, cachedList, changing>>
    BY <1>5 DEF SetFirstVersion
  <2> QED BY <2>2, <2>3
<1>6. ASSUME NEW l \in Lists, LookUpList(l) PROVE DueInv'
  <2>1. cachedList[listing[l].v] \subseteq 0 .. Changes
    BY <1>6 DEF LookUpList
  <2>2. \/ listing' = [listing EXCEPT ![l].at = "read"]
        \/ \E e \in cachedList[listing[l].v] :
             listing' = [listing EXCEPT ![l].at = "answered", ![l].data = e]
    BY <1>6 DEF LookUpList
  <2>3. /\ UNCHANGED <<tasks, version, cachedList, changing, setBack>>
        /\ listing[l].at = "lookup"
    BY <1>6 DEF LookUpList
  <2>4. CASE listing' = [listing EXCEPT ![l].at = "read"]
    BY <2>3, <2>4
  <2>5. ASSUME NEW e \in cachedList[listing[l].v], e \in 0 .. Changes,
               listing' = [listing EXCEPT ![l].at = "answered", ![l].data = e]
        PROVE  DueInv'
    BY <2>3, <2>5
  <2> QED BY <2>1, <2>2, <2>4, <2>5
<1>7. ASSUME NEW l \in Lists, ReadTasks(l) PROVE DueInv'
  BY <1>7 DEF ReadTasks
<1>8. ASSUME NEW l \in Lists, StoreList(l) PROVE DueInv'
  BY <1>8 DEF StoreList
<1>9. ASSUME NEW l \in Lists, EndList(l) PROVE DueInv'
  BY <1>9 DEF EndList
<1>10. ASSUME NEW v \in Versions, ExpireList(v) PROVE DueInv'
  BY <1>10 DEF ExpireList
<1>11. CASE EvictVersion
  BY <1>11 DEF EvictVersion
<1>12. CASE UNCHANGED todoVars
  BY <1>12 DEF todoVars
<1> QED BY <1>1, <1>2, <1>3, <1>4, <1>5, <1>6, <1>7, <1>8, <1>9, <1>10, <1>11, <1>12 DEF TodoNext

\* As long as the version does not go back, a list shows every change that was over
\* before it began, for any number of changes and lists.
THEOREM TodoCorrect == TodoSpec => []TodoFreshAfterChange
<1>1. TodoInit => TodoInv
  <2> SUFFICES ASSUME TodoInit PROVE TodoInv
    OBVIOUS
  <2> USE ChangesAssumption, OverFinite DEF TodoInit, Listing, Versions
  <2>1. TodoTypeOK
    <3>1. listing \in [Lists -> [at : {"idle", "first", "lookup", "read", "store", "answered"},
                                 v : Nat, data : 0 .. Changes, due : SUBSET (1 .. Changes)]]
      OBVIOUS
    <3>2. /\ changing \in [1 .. Changes -> [at : {"idle", "get", "set", "done"}, v : Nat]]
          /\ cachedList \in [Versions -> SUBSET (0 .. Changes)]
      OBVIOUS
    <3>3. tasks \in 0 .. Changes /\ version \in Nat
      OBVIOUS
    <3>4. setBack \in BOOLEAN
      BY Zenon
    <3> HIDE DEF TodoInit
    <3> QED BY <3>1, <3>2, <3>3, <3>4 DEF TodoTypeOK
  <2>2. VersionInv
    BY DEF VersionInv
  <2>3. OrderInv
    BY DEF OrderInv, ChangeInv, StoreInv, DueInv, DueOf
  <2> QED BY <2>1, <2>2, <2>3 DEF TodoInv
<1>2. TodoInv /\ [TodoNext]_todoVars => TodoInv'
  <2> SUFFICES ASSUME TodoInv, [TodoNext]_todoVars PROVE TodoInv'
    OBVIOUS
  <2>1. ~setBack' => ~setBack
    BY DEF TodoNext, todoVars
  <2> QED
    BY <2>1, TodoTypeStep, VersionInvStep, ChangeInvStep, StoreInvStep, DueInvStep
       DEF TodoInv, OrderInv
<1>3. TodoInv => TodoFreshAfterChange
  BY DEF TodoInv, OrderInv, DueInv, DueOf, TodoFreshAfterChange
<1> QED BY <1>1, <1>2, <1>3, PTL DEF TodoSpec

-----------------------------------------------------------------------------
(* EventStream                                                              *)

Events == Notices \cup Leads

EventsTypeOK ==
  /\ sent \in [Events -> {"idle", "inserted", "refused", "published", "unpublished", "posted"}]
  /\ notices \subseteq Notices /\ seen \subseteq Notices
  /\ marked \subseteq Notices /\ patched \subseteq Notices
  /\ leads \in Seq(Leads)
  /\ stream \in [at : {"closed", "open", "dropped"}, queue : Seq(Events), used : Nat]
  /\ gap \in BOOLEAN
  /\ knows \subseteq Events
  /\ listed \subseteq {"notices", "leads"}
  /\ editing \in [of : SUBSET Notices, seen : BOOLEAN]

\* What has a row, or had one that the client knows.
RowInv ==
  /\ \A e \in Notices :
       /\ e \in notices \cup marked \cup editing.of => sent[e] # "idle"
       /\ sent[e] \notin {"idle", "refused"} => e \in notices \cup knows
  /\ \A e \in Leads : e \in ToSet(leads) <=> sent[e] \notin {"idle", "refused", "posted"}
  /\ \A e \in Leads : sent[e] # "posted"

\* A closed stream has nothing, and one that is open again has a gap.
StreamInv ==
  /\ stream.at = "closed" => listed = {} /\ stream.queue = <<>>
  /\ stream.at = "dropped" => gap /\ stream.queue = <<>>

\* What was announced or listed: published events, once their list was fetched with
\* the stream open, are known, queued, or leads that the inbox leaves out.
Reached(e) ==
  \/ e \in knows \cup ToSet(stream.queue)
  \/ e \in ToSet(leads) \ Inbox

ReachInv ==
  stream.at = "open" /\ ~gap =>
    \A e \in Events : sent[e] = "published" /\ Listed(e) => Reached(e)

AnnounceInv ==
  \A e \in Leads \cap (knows \cup ToSet(stream.queue)) : e \in ToSet(leads)

MarkedInv == marked \cap notices \subseteq seen \cup patched

EventsInv == EventsTypeOK /\ RowInv /\ StreamInv /\ ReachInv /\ AnnounceInv /\ MarkedInv

LEMMA ToSetAppend ==
  ASSUME NEW S, NEW s \in Seq(S), NEW e \in S
  PROVE  ToSet(Append(s, e)) = ToSet(s) \cup {e} /\ Append(s, e) \in Seq(S)
<1> DEFINE t == Append(s, e)
<1>1. /\ DOMAIN s = 1 .. Len(s) /\ DOMAIN t = 1 .. Len(s) + 1 /\ Len(s) \in Nat
      /\ t[Len(s) + 1] = e /\ t \in Seq(S)
  OBVIOUS
<1>2. \A i \in 1 .. Len(s) : t[i] = s[i]
  OBVIOUS
<1> HIDE DEF t
<1>3. ToSet(t) = ToSet(s) \cup {e}
  BY <1>1, <1>2 DEF ToSet
<1> QED BY <1>1, <1>3 DEF t

LEMMA ToSetHeadTail ==
  ASSUME NEW S, NEW s \in Seq(S), s # <<>>
  PROVE  /\ ToSet(s) = {Head(s)} \cup ToSet(Tail(s))
         /\ Head(s) \in S /\ Tail(s) \in Seq(S)
<1> DEFINE t == Tail(s)
<1>1. /\ DOMAIN s = 1 .. Len(s) /\ DOMAIN t = 1 .. Len(s) - 1 /\ Len(s) \in Nat \ {0}
      /\ Head(s) = s[1] /\ Head(s) \in S /\ t \in Seq(S)
  OBVIOUS
<1>2. \A i \in 1 .. Len(s) - 1 : t[i] = s[i + 1]
  OBVIOUS
<1>3. \A i \in 2 .. Len(s) : i - 1 \in 1 .. Len(s) - 1 /\ s[i] = t[i - 1]
  BY <1>1, <1>2
<1>4. \A i \in 1 .. Len(s) - 1 : i + 1 \in 1 .. Len(s)
  BY <1>1
<1>5. \A i \in 1 .. Len(s) : i = 1 \/ i \in 2 .. Len(s)
  BY <1>1
<1> HIDE DEF t
<1>6. ToSet(s) = {Head(s)} \cup ToSet(t)
  BY <1>1, <1>2, <1>3, <1>4, <1>5 DEF ToSet
<1> QED BY <1>1, <1>6 DEF t

LEMMA ToSetEmpty == ToSet(<<>>) = {}
BY DEF ToSet

LEMMA InboxSame ==
  ASSUME UNCHANGED leads PROVE Inbox' = Inbox
BY DEF Inbox

LEMMA InboxInLeads ==
  ASSUME EventsTypeOK PROVE Inbox \subseteq ToSet(leads) /\ ToSet(leads) \subseteq Leads
BY DEF EventsTypeOK, Inbox, ToSet

\* A lead that the inbox leaves out stays left out.
LEMMA InboxGrows ==
  ASSUME EventsTypeOK, NEW e \in Leads, e \notin ToSet(leads), leads' = Append(leads, e)
  PROVE  ToSet(leads) \ Inbox \subseteq ToSet(leads') \ Inbox'
<1>1. /\ leads \in Seq(Leads) /\ Len(leads) \in Nat /\ Len(leads') = Len(leads) + 1
      /\ DOMAIN leads = 1 .. Len(leads) /\ DOMAIN leads' = 1 .. Len(leads) + 1
      /\ leads'[Len(leads) + 1] = e
  BY DEF EventsTypeOK
<1>2. \A i \in 1 .. Len(leads) : leads'[i] = leads[i]
  BY <1>1 DEF EventsTypeOK
<1>3. ToSet(leads') = ToSet(leads) \cup {e}
  BY ToSetAppend DEF EventsTypeOK
<1>4. SUFFICES ASSUME NEW d \in ToSet(leads) \ Inbox, d \in Inbox'
               PROVE  FALSE
  BY <1>3
<1>5. PICK i \in DOMAIN leads' : i + InboxLimit > Len(leads') /\ leads'[i] = d
  BY <1>4 DEF Inbox
<1>6. CASE i = Len(leads) + 1
  BY <1>1, <1>4, <1>5, <1>6
<1>7. CASE i \in 1 .. Len(leads)
  <2>1. i + InboxLimit > Len(leads) /\ leads[i] = d /\ i \in DOMAIN leads
    BY <1>1, <1>2, <1>5, <1>7, InboxAssumption
  <2>2. d \in Inbox
    BY <2>1 DEF Inbox
  <2> QED BY <1>4, <2>2
<1> QED BY <1>1, <1>5, <1>6, <1>7

LEMMA EventsTypeStep ==
  ASSUME EventsTypeOK, [EventsNext]_eventVars
  PROVE  EventsTypeOK'
<1> USE InboxInLeads, ToSetAppend, ToSetHeadTail, InboxAssumption DEF SentTo, NoStream, NoSaving, Events, EventsTypeOK
<1>1. ASSUME NEW e \in Notices \cup Leads, InsertNotice(e) PROVE EventsTypeOK'
  BY <1>1 DEF InsertNotice
<1>2. ASSUME NEW e \in Notices \cup Leads, InsertLead(e) PROVE EventsTypeOK'
  <2>1. CASE e \in Leads /\ leads' = Append(leads, e)
    <3>1. ToSet(leads') = ToSet(leads) \cup {e} /\ leads' \in Seq(Leads)
      BY <2>1, ToSetAppend
    <3>2. sent[e] = "idle" /\ sent' = [sent EXCEPT ![e] = "inserted"]
      BY <1>2, <2>1 DEF InsertLead
    <3> QED BY <1>2, <2>1, <3>1, <3>2 DEF InsertLead
  <2>2. CASE e \in Leads /\ UNCHANGED leads /\ sent' = [sent EXCEPT ![e] = "refused"]
    BY <1>2, <2>2 DEF InsertLead
  <2> QED BY <1>2, <2>1, <2>2 DEF InsertLead
<1>3. ASSUME NEW e \in Notices \cup Leads, Publish(e) PROVE EventsTypeOK'
  BY <1>3 DEF Publish, Deliver
<1>4. ASSUME NEW e \in Notices \cup Leads, FailPublish(e) PROVE EventsTypeOK'
  BY <1>4 DEF FailPublish
<1>5. ASSUME NEW e \in Notices \cup Leads, PostNotice(e) PROVE EventsTypeOK'
  BY <1>5 DEF PostNotice
<1>6. CASE OpenStream
  BY <1>6 DEF OpenStream
<1>7. CASE ReceiveEvent
  <2>1. /\ Head(stream.queue) \in Events /\ Tail(stream.queue) \in Seq(Events)
        /\ knows' = knows \cup {Head(stream.queue)}
        /\ stream' = [stream EXCEPT !.queue = Tail(@)]
    BY <1>7, ToSetHeadTail DEF ReceiveEvent
  <2> QED BY <1>7, <2>1 DEF ReceiveEvent
<1>8. CASE DropSubscription
  BY <1>8 DEF DropSubscription
<1>9. CASE SubscribeAgain
  BY <1>9 DEF SubscribeAgain
<1>10. CASE EndStream
  <2>1. stream' \in [at : {"closed", "open", "dropped"}, queue : Seq(Events), used : Nat]
    <3>1. <<>> \in Seq(Events)
      OBVIOUS
    <3> QED BY <1>10, <3>1 DEF EndStream
  <2>2. gap' \in BOOLEAN
    BY <1>10, Zenon DEF EndStream
  <2>3. listed' = {} /\ UNCHANGED <<sent, notices, seen, leads, knows, editing, marked, patched>>
    BY <1>10 DEF EndStream
  <2> QED BY <2>1, <2>2, <2>3
<1>11. CASE ListNotices
  BY <1>11 DEF ListNotices
<1>12. CASE ListLeads
  BY <1>12 DEF ListLeads
<1>13. CASE Bulk
  BY <1>13 DEF Bulk
<1>14. CASE ReadForSaving
  BY <1>14 DEF ReadForSaving
<1>15. CASE SaveNotice
  BY <1>15 DEF SaveNotice
<1>16. CASE DeleteNotice
  BY <1>16 DEF DeleteNotice
<1>17. CASE UNCHANGED eventVars
  BY <1>17 DEF eventVars
<1> QED BY <1>1, <1>2, <1>3, <1>4, <1>5, <1>6, <1>7, <1>8, <1>9, <1>10, <1>11, <1>12,
       <1>13, <1>14, <1>15, <1>16, <1>17 DEF EventsNext

LEMMA RowInvStep ==
  ASSUME EventsTypeOK, RowInv, [EventsNext]_eventVars
  PROVE  RowInv'
<1> USE ToSetAppend, InboxAssumption DEF SentTo, NoStream, NoSaving, Events, EventsTypeOK, RowInv
<1>1. ASSUME NEW e \in Notices \cup Leads, InsertNotice(e) PROVE RowInv'
  BY <1>1 DEF InsertNotice
<1>2. ASSUME NEW e \in Notices \cup Leads, InsertLead(e) PROVE RowInv'
  <2>1. CASE e \in Leads /\ leads' = Append(leads, e)
    <3>1. ToSet(leads') = ToSet(leads) \cup {e} /\ leads' \in Seq(Leads)
      BY <2>1, ToSetAppend
    <3>2. sent[e] = "idle" /\ sent' = [sent EXCEPT ![e] = "inserted"]
      BY <1>2, <2>1 DEF InsertLead
    <3> QED BY <1>2, <2>1, <3>1, <3>2 DEF InsertLead
  <2>2. CASE e \in Leads /\ UNCHANGED leads /\ sent' = [sent EXCEPT ![e] = "refused"]
    BY <1>2, <2>2 DEF InsertLead
  <2> QED BY <1>2, <2>1, <2>2 DEF InsertLead
<1>3. ASSUME NEW e \in Notices \cup Leads, Publish(e) PROVE RowInv'
  BY <1>3 DEF Publish
<1>4. ASSUME NEW e \in Notices \cup Leads, FailPublish(e) PROVE RowInv'
  BY <1>4 DEF FailPublish
<1>5. ASSUME NEW e \in Notices \cup Leads, PostNotice(e) PROVE RowInv'
  BY <1>5 DEF PostNotice
<1>6. CASE OpenStream
  BY <1>6 DEF OpenStream
<1>7. CASE ReceiveEvent
  BY <1>7 DEF ReceiveEvent
<1>8. CASE DropSubscription
  BY <1>8 DEF DropSubscription
<1>9. CASE SubscribeAgain
  BY <1>9 DEF SubscribeAgain
<1>10. CASE EndStream
  BY <1>10 DEF EndStream
<1>11. CASE ListNotices
  BY <1>11 DEF ListNotices
<1>12. CASE ListLeads
  BY <1>12 DEF ListLeads
<1>13. CASE Bulk
  BY <1>13 DEF Bulk
<1>14. CASE ReadForSaving
  BY <1>14 DEF ReadForSaving
<1>15. CASE SaveNotice
  BY <1>15 DEF SaveNotice
<1>16. CASE DeleteNotice
  BY <1>16 DEF DeleteNotice
<1>17. CASE UNCHANGED eventVars
  BY <1>17 DEF eventVars
<1> QED BY <1>1, <1>2, <1>3, <1>4, <1>5, <1>6, <1>7, <1>8, <1>9, <1>10, <1>11, <1>12,
       <1>13, <1>14, <1>15, <1>16, <1>17 DEF EventsNext

LEMMA StreamInvStep ==
  ASSUME EventsTypeOK, StreamInv, [EventsNext]_eventVars
  PROVE  StreamInv'
<1> USE InboxAssumption DEF SentTo, NoStream, NoSaving, Events, EventsTypeOK, StreamInv
<1>1. ASSUME NEW e \in Notices \cup Leads, InsertNotice(e) PROVE StreamInv'
  BY <1>1 DEF InsertNotice
<1>2. ASSUME NEW e \in Notices \cup Leads, InsertLead(e) PROVE StreamInv'
  BY <1>2 DEF InsertLead
<1>3. ASSUME NEW e \in Notices \cup Leads, Publish(e) PROVE StreamInv'
  BY <1>3 DEF Publish, Deliver
<1>4. ASSUME NEW e \in Notices \cup Leads, FailPublish(e) PROVE StreamInv'
  BY <1>4 DEF FailPublish
<1>5. ASSUME NEW e \in Notices \cup Leads, PostNotice(e) PROVE StreamInv'
  BY <1>5 DEF PostNotice
<1>6. CASE OpenStream
  BY <1>6 DEF OpenStream
<1>7. CASE ReceiveEvent
  BY <1>7 DEF ReceiveEvent
<1>8. CASE DropSubscription
  BY <1>8 DEF DropSubscription
<1>9. CASE SubscribeAgain
  BY <1>9 DEF SubscribeAgain
<1>10. CASE EndStream
  BY <1>10 DEF EndStream
<1>11. CASE ListNotices
  BY <1>11 DEF ListNotices
<1>12. CASE ListLeads
  BY <1>12 DEF ListLeads
<1>13. CASE Bulk
  BY <1>13 DEF Bulk
<1>14. CASE ReadForSaving
  BY <1>14 DEF ReadForSaving
<1>15. CASE SaveNotice
  BY <1>15 DEF SaveNotice
<1>16. CASE DeleteNotice
  BY <1>16 DEF DeleteNotice
<1>17. CASE UNCHANGED eventVars
  BY <1>17 DEF eventVars
<1> QED BY <1>1, <1>2, <1>3, <1>4, <1>5, <1>6, <1>7, <1>8, <1>9, <1>10, <1>11, <1>12,
       <1>13, <1>14, <1>15, <1>16, <1>17 DEF EventsNext

LEMMA AnnounceInvStep ==
  ASSUME EventsTypeOK, RowInv, AnnounceInv, [EventsNext]_eventVars
  PROVE  AnnounceInv'
<1> USE InboxInLeads, ToSetAppend, ToSetHeadTail, ToSetEmpty, InboxAssumption DEF SentTo, NoStream, NoSaving, Events, EventsTypeOK, RowInv, AnnounceInv
<1>1. ASSUME NEW e \in Notices \cup Leads, InsertNotice(e) PROVE AnnounceInv'
  BY <1>1 DEF InsertNotice
<1>2. ASSUME NEW e \in Notices \cup Leads, InsertLead(e) PROVE AnnounceInv'
  <2>1. CASE e \in Leads /\ leads' = Append(leads, e)
    <3>1. ToSet(leads') = ToSet(leads) \cup {e} /\ leads' \in Seq(Leads)
      BY <2>1, ToSetAppend
    <3>2. sent[e] = "idle" /\ sent' = [sent EXCEPT ![e] = "inserted"]
      BY <1>2, <2>1 DEF InsertLead
    <3> QED BY <1>2, <2>1, <3>1, <3>2 DEF InsertLead
  <2>2. CASE e \in Leads /\ UNCHANGED leads /\ sent' = [sent EXCEPT ![e] = "refused"]
    BY <1>2, <2>2 DEF InsertLead
  <2> QED BY <1>2, <2>1, <2>2 DEF InsertLead
<1>3. ASSUME NEW e \in Notices \cup Leads, Publish(e) PROVE AnnounceInv'
  BY <1>3 DEF Publish, Deliver
<1>4. ASSUME NEW e \in Notices \cup Leads, FailPublish(e) PROVE AnnounceInv'
  BY <1>4 DEF FailPublish
<1>5. ASSUME NEW e \in Notices \cup Leads, PostNotice(e) PROVE AnnounceInv'
  BY <1>5 DEF PostNotice
<1>6. CASE OpenStream
  BY <1>6 DEF OpenStream
<1>7. CASE ReceiveEvent
  BY <1>7 DEF ReceiveEvent
<1>8. CASE DropSubscription
  BY <1>8 DEF DropSubscription
<1>9. CASE SubscribeAgain
  BY <1>9 DEF SubscribeAgain
<1>10. CASE EndStream
  BY <1>10 DEF EndStream
<1>11. CASE ListNotices
  BY <1>11 DEF ListNotices
<1>12. CASE ListLeads
  BY <1>12 DEF ListLeads
<1>13. CASE Bulk
  BY <1>13 DEF Bulk
<1>14. CASE ReadForSaving
  BY <1>14 DEF ReadForSaving
<1>15. CASE SaveNotice
  BY <1>15 DEF SaveNotice
<1>16. CASE DeleteNotice
  BY <1>16 DEF DeleteNotice
<1>17. CASE UNCHANGED eventVars
  BY <1>17 DEF eventVars
<1> QED BY <1>1, <1>2, <1>3, <1>4, <1>5, <1>6, <1>7, <1>8, <1>9, <1>10, <1>11, <1>12,
       <1>13, <1>14, <1>15, <1>16, <1>17 DEF EventsNext

LEMMA MarkedInvStep ==
  ASSUME EventsTypeOK, RowInv, MarkedInv, [EventsNext]_eventVars
  PROVE  MarkedInv'
<1> USE InboxAssumption DEF SentTo, NoStream, NoSaving, Events, EventsTypeOK, RowInv, MarkedInv
<1>1. ASSUME NEW e \in Notices \cup Leads, InsertNotice(e) PROVE MarkedInv'
  BY <1>1 DEF InsertNotice
<1>2. ASSUME NEW e \in Notices \cup Leads, InsertLead(e) PROVE MarkedInv'
  BY <1>2 DEF InsertLead
<1>3. ASSUME NEW e \in Notices \cup Leads, Publish(e) PROVE MarkedInv'
  BY <1>3 DEF Publish
<1>4. ASSUME NEW e \in Notices \cup Leads, FailPublish(e) PROVE MarkedInv'
  BY <1>4 DEF FailPublish
<1>5. ASSUME NEW e \in Notices \cup Leads, PostNotice(e) PROVE MarkedInv'
  BY <1>5 DEF PostNotice
<1>6. CASE OpenStream
  BY <1>6 DEF OpenStream
<1>7. CASE ReceiveEvent
  BY <1>7 DEF ReceiveEvent
<1>8. CASE DropSubscription
  BY <1>8 DEF DropSubscription
<1>9. CASE SubscribeAgain
  BY <1>9 DEF SubscribeAgain
<1>10. CASE EndStream
  BY <1>10 DEF EndStream
<1>11. CASE ListNotices
  BY <1>11 DEF ListNotices
<1>12. CASE ListLeads
  BY <1>12 DEF ListLeads
<1>13. CASE Bulk
  BY <1>13 DEF Bulk
<1>14. CASE ReadForSaving
  BY <1>14 DEF ReadForSaving
<1>15. CASE SaveNotice
  BY <1>15 DEF SaveNotice
<1>16. CASE DeleteNotice
  BY <1>16 DEF DeleteNotice
<1>17. CASE UNCHANGED eventVars
  BY <1>17 DEF eventVars
<1> QED BY <1>1, <1>2, <1>3, <1>4, <1>5, <1>6, <1>7, <1>8, <1>9, <1>10, <1>11, <1>12,
       <1>13, <1>14, <1>15, <1>16, <1>17 DEF EventsNext

LEMMA ReachInvStep ==
  ASSUME EventsTypeOK, RowInv, StreamInv, ReachInv, [EventsNext]_eventVars
  PROVE  ReachInv'
<1> USE InboxSame, InboxInLeads, ToSetAppend, ToSetHeadTail, ToSetEmpty, InboxAssumption DEF SentTo, NoStream, NoSaving, Events, EventsTypeOK, RowInv, StreamInv, ReachInv, Reached, Listed
<1>1. ASSUME NEW e \in Notices \cup Leads, InsertNotice(e) PROVE ReachInv'
  BY <1>1 DEF InsertNotice
<1>2. ASSUME NEW e \in Notices \cup Leads, InsertLead(e) PROVE ReachInv'
  <2>1. CASE e \in Leads /\ leads' = Append(leads, e)
    <3>1. ToSet(leads') = ToSet(leads) \cup {e} /\ leads' \in Seq(Leads)
      BY <2>1, ToSetAppend
    <3>2. sent[e] = "idle" /\ sent' = [sent EXCEPT ![e] = "inserted"]
      BY <1>2, <2>1 DEF InsertLead
    <3> QED BY <1>2, <2>1, <3>1, <3>2, InboxGrows DEF InsertLead
  <2>2. CASE e \in Leads /\ UNCHANGED leads /\ sent' = [sent EXCEPT ![e] = "refused"]
    BY <1>2, <2>2 DEF InsertLead
  <2> QED BY <1>2, <2>1, <2>2 DEF InsertLead
<1>3. ASSUME NEW e \in Notices \cup Leads, Publish(e) PROVE ReachInv'
  BY <1>3 DEF Publish, Deliver
<1>4. ASSUME NEW e \in Notices \cup Leads, FailPublish(e) PROVE ReachInv'
  BY <1>4 DEF FailPublish
<1>5. ASSUME NEW e \in Notices \cup Leads, PostNotice(e) PROVE ReachInv'
  BY <1>5 DEF PostNotice
<1>6. CASE OpenStream
  BY <1>6 DEF OpenStream
<1>7. CASE ReceiveEvent
  BY <1>7 DEF ReceiveEvent
<1>8. CASE DropSubscription
  BY <1>8 DEF DropSubscription
<1>9. CASE SubscribeAgain
  BY <1>9 DEF SubscribeAgain
<1>10. CASE EndStream
  BY <1>10 DEF EndStream
<1>11. CASE ListNotices
  BY <1>11 DEF ListNotices
<1>12. CASE ListLeads
  BY <1>12 DEF ListLeads
<1>13. CASE Bulk
  BY <1>13 DEF Bulk
<1>14. CASE ReadForSaving
  BY <1>14 DEF ReadForSaving
<1>15. CASE SaveNotice
  BY <1>15 DEF SaveNotice
<1>16. CASE DeleteNotice
  BY <1>16 DEF DeleteNotice
<1>17. CASE UNCHANGED eventVars
  BY <1>17 DEF eventVars
<1> QED BY <1>1, <1>2, <1>3, <1>4, <1>5, <1>6, <1>7, <1>8, <1>9, <1>10, <1>11, <1>12,
       <1>13, <1>14, <1>15, <1>16, <1>17 DEF EventsNext

\* A client that opens its stream before it fetches its lists misses nothing.
THEOREM EventsCorrect == EventsSpec => []EventsReachClient
<1>1. EventsInit => EventsInv
  <2> SUFFICES ASSUME EventsInit PROVE EventsInv
    OBVIOUS
  <2> USE InboxAssumption, ToSetEmpty DEF EventsInit, NoStream, NoSaving, Events
  <2>1. EventsTypeOK
    <3>1. <<>> \in Seq(Events) /\ <<>> \in Seq(Leads)
      OBVIOUS
    <3>2. gap \in BOOLEAN /\ editing.seen \in BOOLEAN
      BY Zenon
    <3> QED BY <3>1, <3>2 DEF EventsTypeOK
  <2>2. RowInv /\ StreamInv
    BY DEF RowInv, StreamInv
  <2>3. ReachInv /\ AnnounceInv /\ MarkedInv
    BY DEF ReachInv, AnnounceInv, MarkedInv
  <2> QED BY <2>1, <2>2, <2>3 DEF EventsInv
<1>2. EventsInv /\ [EventsNext]_eventVars => EventsInv'
  BY EventsTypeStep, RowInvStep, StreamInvStep, ReachInvStep, AnnounceInvStep, MarkedInvStep
     DEF EventsInv
<1>3. EventsInv => EventsReachClient
  BY DEF EventsInv, ReachInv, AnnounceInv, MarkedInv, EventsReachClient, Reached, Events
<1> QED BY <1>1, <1>2, <1>3, PTL DEF EventsSpec

-----------------------------------------------------------------------------
(* Cart                                                                     *)

\* A cart that nothing was put into, one with the first item, and one that was
\* brought back: its count, and not its items.
EmptyCart(r) == [by |-> r, items |-> {}, count |-> 0]
FullCart(r) == [by |-> r, items |-> FirstItem(r), count |-> 1]
RevivedCart(r) == [by |-> r, items |-> {}, count |-> 1]

\* The one cart, and where the request is that made it.
CartOf(r) ==
  \/ adding[r] \in {"item", "lost"} /\ wanted[r] # <<>> /\ cart = {EmptyCart(r)}
  \/ adding[r] = "raised" /\ wanted[r] = <<>> /\ cart = {EmptyCart(r)}
  \/ adding[r] \in {"save", "added", "lost"} /\ wanted[r] # <<>> /\ cart = {FullCart(r)}
  \/ adding[r] = "revived" /\ cart = {RevivedCart(r)}

CartInv == cart = {} \/ \E r \in Adds : CartOf(r)

CartTypeOK ==
  /\ adding \in [Adds -> {"idle", "create", "found", "item", "save", "added", "kept",
                          "revived", "raised", "lost"}]
  /\ CartInv

LEMMA CartBy ==
  ASSUME NEW r
  PROVE  EmptyCart(r).by = r /\ FullCart(r).by = r /\ RevivedCart(r).by = r
BY DEF EmptyCart, FullCart, RevivedCart

LEMMA CartStep ==
  ASSUME CartTypeOK, [CartNext]_cartVars
  PROVE  CartTypeOK'
<1> USE CartBy DEF AddTo, CartTypeOK, CartInv, CartOf, EmptyCart, FullCart, RevivedCart, FirstItem
<1>1. CASE DeleteCart
  BY <1>1 DEF DeleteCart
<1>2. ASSUME NEW r \in Adds, FindCart(r) PROVE CartTypeOK'
  BY <1>2 DEF FindCart
<1>3. ASSUME NEW r \in Adds, CreateCart(r) PROVE CartTypeOK'
  BY <1>3 DEF CreateCart, EmptyCart
<1>4. ASSUME NEW r \in Adds, AddItem(r) PROVE CartTypeOK'
  <2>1. CASE cart = {}
    BY <1>4, <2>1 DEF AddItem
  <2>2. ASSUME NEW s \in Adds, CartOf(s), s # r
        PROVE  CartTypeOK'
    <3>1. PICK k : cart = {k} /\ k.by = s
      BY <2>2
    <3>2. cart' = cart /\ wanted' = wanted /\ adding'[s] = adding[s]
      BY <1>4, <2>2, <3>1 DEF AddItem
    <3>3. CartOf(s)'
      BY <2>2, <3>2
    <3>4. adding' \in {[adding EXCEPT ![r] = "raised"], [adding EXCEPT ![r] = "save"]}
      BY <1>4 DEF AddItem
    <3> QED BY <3>3, <3>4
  <2>3. CASE CartOf(r)
    <3>1. cart = {EmptyCart(r)} /\ wanted[r] # <<>>
      BY <1>4, <2>3 DEF AddItem
    <3>2. cart' = {FullCart(r)}
      BY <1>4, <3>1 DEF AddItem, FullCart
    <3>3. Mine(r) # {}
      BY <3>1 DEF Mine
    <3>4. adding' = [adding EXCEPT ![r] = "save"] /\ wanted' = wanted
      BY <1>4, <3>3 DEF AddItem
    <3> QED BY <3>1, <3>2, <3>4
  <2> QED BY <2>1, <2>2, <2>3
<1>5. ASSUME NEW r \in Adds, SaveCart(r) PROVE CartTypeOK'
  <2>1. CASE cart = {}
    <3>1. cart' = {RevivedCart(r)} /\ adding' = [adding EXCEPT ![r] = "revived"]
      BY <1>5, <2>1 DEF SaveCart, RevivedCart
    <3> QED BY <1>5, <3>1 DEF SaveCart
  <2>2. CASE cart # {}
    <3>1. /\ cart' = cart /\ wanted' = wanted /\ adding[r] = "save"
          /\ adding' = [adding EXCEPT ![r] = IF Mine(r) = {} THEN "raised" ELSE "added"]
      BY <1>5, <2>2 DEF SaveCart
    <3>2. CASE CartOf(r)
      <4>1. Mine(r) # {}
        BY <3>2 DEF Mine
      <4> QED BY <3>1, <3>2, <4>1
    <3>3. ASSUME NEW s \in Adds, CartOf(s), s # r
          PROVE  CartTypeOK'
      BY <3>1, <3>3
    <3> QED BY <2>2, <3>2, <3>3
  <2> QED BY <2>1, <2>2
<1>6. ASSUME NEW r \in Adds, AnswerFound(r) PROVE CartTypeOK'
  BY <1>6 DEF AnswerFound
<1>7. ASSUME NEW r \in Adds, LoseAdd(r) PROVE CartTypeOK'
  BY <1>7 DEF LoseAdd
<1>8. CASE UNCHANGED cartVars
  BY <1>8 DEF cartVars
<1> QED BY <1>1, <1>2, <1>3, <1>4, <1>5, <1>6, <1>7, <1>8 DEF CartNext

\* However the requests overlap and are lost, there is one cart and its count is of
\* its items, unless it was deleted and brought back.
THEOREM CartCorrect == CartSpec => []CartKept
<1>1. CartInit => CartTypeOK
  BY DEF CartInit, CartTypeOK, CartInv
<1>2. CartTypeOK /\ [CartNext]_cartVars => CartTypeOK'
  BY CartStep
<1>3. CartTypeOK => CartKept
  <2>1. \A x : Cardinality({x}) = 1
    BY FS_Singleton
  <2>2. Cardinality({}) = 0
    BY FS_EmptySet
  <2>3. SUFFICES ASSUME NEW r \in Adds, CartOf(r) PROVE CartKept
    <3>1. CASE cart = {}
      <4>1. Cardinality(cart) = 0
        BY <2>2, <3>1
      <4>2. 0 <= 1
        OBVIOUS
      <4> QED BY <3>1, <4>1, <4>2 DEF CartKept
    <3> QED BY <3>1 DEF CartTypeOK, CartInv
  <2>4. Cardinality(cart) = 1 /\ Cardinality(FirstItem(r)) = 1 /\ FirstItem(r) # {}
    BY <2>1, <2>3 DEF CartOf, FirstItem
  <2>5. ASSUME NEW k \in cart
        PROVE  /\ k.by = r
               /\ adding[r] \in {"save", "added"} => k.items = FirstItem(r)
               /\ k.items = {} =>
                    adding[r] \in {"item", "lost", "revived"} \/ wanted[r] = <<>>
               /\ k.count = Cardinality(k.items) \/ adding[r] = "revived"
    <3>1. CASE cart = {EmptyCart(r)}
      <4>1. k.by = r /\ k.items = {} /\ k.count = 0
        BY <3>1 DEF EmptyCart
      <4>2. adding[r] \in {"item", "lost"} \/ wanted[r] = <<>>
        <5>1. EmptyCart(r).count # 1
          BY DEF EmptyCart
        <5>2. FullCart(r).count = 1 /\ RevivedCart(r).count = 1
          BY DEF FullCart, RevivedCart
        <5> QED BY <2>3, <3>1, <5>1, <5>2 DEF CartOf
      <4>3. adding[r] \notin {"save", "added"}
        <5>1. EmptyCart(r).count # 1
          BY DEF EmptyCart
        <5>2. FullCart(r).count = 1
          BY DEF FullCart
        <5> QED BY <2>3, <3>1, <5>1, <5>2 DEF CartOf
      <4> QED BY <2>2, <4>1, <4>2, <4>3
    <3>2. CASE cart = {FullCart(r)}
      <4>1. k.by = r /\ k.items = FirstItem(r) /\ k.count = 1
        BY <3>2 DEF FullCart
      <4> QED BY <2>4, <4>1
    <3>3. CASE cart = {RevivedCart(r)} /\ adding[r] = "revived"
      <4>1. k.by = r
        BY <3>3 DEF RevivedCart
      <4> QED BY <3>3, <4>1
    <3> QED BY <2>3, <3>1, <3>2, <3>3 DEF CartOf
  <2> QED BY <2>4, <2>5 DEF CartKept
<1> QED BY <1>1, <1>2, <1>3, PTL DEF CartSpec

-----------------------------------------------------------------------------
(* BulkUpload                                                               *)

BulkTypeOK ==
  /\ file \in Seq(LineKinds)
  /\ upload \in [at : {"idle", "lookup", "rows", "saving", "created", "refused", "failed"},
                 known : BOOLEAN, valid : SUBSET Lines,
                 errors : SUBSET [line : Lines, row : Nat]]
  /\ rowAt \in [line : Nat, index : Nat]
  /\ saved \subseteq Lines /\ imported \subseteq Lines
  /\ shopThere \in BOOLEAN /\ category \in BOOLEAN

\* The lines above a line that have a number.
Numbered(n) == {l \in Lines : l < n /\ file[l] # "empty"}

EmptyAbove(n) == \E l \in Lines : l < n /\ file[l] = "empty"

\* The number of a row counts those above it.
NumberInv ==
  /\ rowAt.line \in 1 .. Len(file) + 1
  /\ rowAt.index = Cardinality(Numbered(rowAt.line)) + 2
  /\ rowAt.index = rowAt.line + 1 \/ EmptyAbove(rowAt.line)
  /\ upload.at = "rows" => rowAt.index <= CsvMaxRows + 2
  /\ upload.at \in {"idle", "lookup"} => rowAt.line = 1 /\ rowAt.index = 2

\* Every row above the reader is valid or reported, as what it is.
ReadInv ==
  /\ \A l \in upload.valid : file[l] \in {"good", "category"}
  /\ \A e \in upload.errors :
       /\ file[e.line] \in {"bad", "category"}
       /\ e.row = e.line + 1 \/ EmptyAbove(e.line)
  /\ upload.at = "rows" =>
       \A l \in Rows : l < rowAt.line =>
         l \in upload.valid \/ \E e \in upload.errors : e.line = l
  /\ upload.at \in {"idle", "lookup"} => upload.valid = {} /\ upload.errors = {}

\* What is saved is the whole file, and it commits at once.
WholeInv ==
  /\ upload.at \in {"saving", "created"} =>
       /\ upload.valid = Rows /\ Rows # {}
       /\ Cardinality(Numbered(Len(file) + 1)) <= CsvMaxRows
  /\ saved \subseteq upload.valid
  /\ imported # {} => upload.at = "created" /\ imported = Rows
  /\ upload.at = "created" /\ shopThere => imported # {}

BulkInv == BulkTypeOK /\ NumberInv /\ ReadInv /\ WholeInv

LEMMA BulkTypeStep ==
  ASSUME BulkTypeOK, [BulkNext]_uploadVars
  PROVE  BulkTypeOK'
<1> USE CsvAssumption DEF UploadTo, Lines, BulkTypeOK
<1>1. CASE BeginUpload
  BY <1>1 DEF BeginUpload
<1>2. CASE CategoryLookup
  BY <1>2 DEF CategoryLookup
<1>3. CASE ReadRow
  <2>1. /\ rowAt.line \in Lines /\ rowAt.index \in Nat
        /\ \/ upload' = upload
           \/ upload' = [upload EXCEPT !.at = "refused"]
           \/ upload' = [upload EXCEPT
                !.errors = @ \cup {[line |-> rowAt.line, row |-> rowAt.index]}]
           \/ upload' = [upload EXCEPT !.valid = @ \cup {rowAt.line}]
    BY <1>3 DEF ReadRow
  <2>2. rowAt' \in [line : Nat, index : Nat]
    BY <1>3 DEF ReadRow
  <2>3. upload' \in [at : {"idle", "lookup", "rows", "saving", "created", "refused", "failed"},
                     known : BOOLEAN, valid : SUBSET Lines,
                     errors : SUBSET [line : Lines, row : Nat]]
    BY <2>1
  <2> QED BY <1>3, <2>2, <2>3 DEF ReadRow
<1>4. CASE EndRows
  BY <1>4 DEF EndRows
<1>5. CASE SaveRow
  BY <1>5 DEF SaveRow
<1>6. CASE CommitRows
  BY <1>6 DEF CommitRows
<1>7. CASE LoseUpload
  BY <1>7 DEF LoseUpload
<1>8. CASE DeleteCategory
  BY <1>8 DEF DeleteCategory
<1>9. CASE DeleteShop
  BY <1>9 DEF DeleteShop
<1>10. CASE UNCHANGED uploadVars
  BY <1>10 DEF uploadVars
<1> QED BY <1>1, <1>2, <1>3, <1>4, <1>5, <1>6, <1>7, <1>8, <1>9, <1>10 DEF BulkNext

LEMMA NumberedFinite ==
  ASSUME BulkTypeOK, NEW n
  PROVE  IsFiniteSet(Numbered(n)) /\ Cardinality(Numbered(n)) \in Nat
<1>1. IsFiniteSet(Lines) /\ Numbered(n) \subseteq Lines
  <2>1. Lines = 1 .. Len(file) /\ Len(file) \in Nat
    BY DEF BulkTypeOK, Lines
  <2> QED BY <2>1, FS_Interval DEF Numbered
<1> QED BY <1>1, FS_Subset, FS_CardinalityType

\* One line further.
LEMMA NumberedNext ==
  ASSUME BulkTypeOK, NEW n \in Lines
  PROVE  /\ file[n] = "empty" => Numbered(n + 1) = Numbered(n)
         /\ file[n] # "empty" =>
              Cardinality(Numbered(n + 1)) = Cardinality(Numbered(n)) + 1
         /\ EmptyAbove(n + 1) <=> EmptyAbove(n) \/ file[n] = "empty"
<1>1. \A l \in Lines : l < n + 1 <=> l < n \/ l = n
  BY DEF BulkTypeOK, Lines
<1>2. ~(n < n)
  BY DEF BulkTypeOK, Lines
<1>3. file[n] # "empty" => Numbered(n + 1) = Numbered(n) \cup {n} /\ n \notin Numbered(n)
  BY <1>1, <1>2 DEF Numbered
<1>4. file[n] = "empty" => Numbered(n + 1) = Numbered(n)
  BY <1>1 DEF Numbered
<1> QED BY <1>1, <1>3, <1>4, NumberedFinite, FS_AddElement DEF EmptyAbove

LEMMA NumberInvStep ==
  ASSUME BulkTypeOK, NumberInv, [BulkNext]_uploadVars
  PROVE  NumberInv'
<1> USE NumberedFinite, CsvAssumption DEF UploadTo, Lines, BulkTypeOK, NumberInv
<1>1. CASE BeginUpload
  <2>1. Numbered(rowAt.line)' = Numbered(rowAt.line)
    BY <1>1 DEF Numbered, BeginUpload
  <2>2. EmptyAbove(rowAt.line)' = EmptyAbove(rowAt.line)
    BY <1>1 DEF EmptyAbove, BeginUpload
  <2>3. UNCHANGED <<file, rowAt>> /\ (upload'.at = "rows" => upload.at \in {"rows", "lookup"})
    BY <1>1 DEF BeginUpload
  <2>4. upload'.at \in {"idle", "lookup"} => upload.at \in {"idle", "lookup"}
    BY <1>1 DEF BeginUpload
  <2> QED BY <2>1, <2>2, <2>3, <2>4
<1>2. CASE CategoryLookup
  <2>1. Numbered(rowAt.line)' = Numbered(rowAt.line)
    BY <1>2 DEF Numbered, CategoryLookup
  <2>2. EmptyAbove(rowAt.line)' = EmptyAbove(rowAt.line)
    BY <1>2 DEF EmptyAbove, CategoryLookup
  <2>3. UNCHANGED <<file, rowAt>> /\ (upload'.at = "rows" => upload.at \in {"rows", "lookup"})
    BY <1>2 DEF CategoryLookup
  <2>4. upload'.at \in {"idle", "lookup"} => upload.at \in {"idle", "lookup"}
    BY <1>2 DEF CategoryLookup
  <2> QED BY <2>1, <2>2, <2>3, <2>4
<1>3. CASE ReadRow
  <2>1. /\ rowAt.line \in Lines /\ file' = file
        /\ rowAt'.line = rowAt.line + 1
        /\ rowAt'.index = rowAt.index + IF file[rowAt.line] = "empty" THEN 0 ELSE 1
    BY <1>3 DEF ReadRow
  <2>2. Numbered(rowAt.line)' = Numbered(rowAt.line + 1)
    BY <2>1 DEF Numbered
  <2>3. EmptyAbove(rowAt.line)' <=> EmptyAbove(rowAt.line + 1)
    BY <2>1 DEF EmptyAbove
  <2>4. rowAt'.line \in 1 .. Len(file') + 1
    BY <2>1
  <2>5. rowAt'.index = Cardinality(Numbered(rowAt.line)') + 2
    BY <2>1, <2>2, NumberedNext
  <2>6. rowAt'.index = rowAt'.line + 1 \/ EmptyAbove(rowAt.line)'
    BY <2>1, <2>3, NumberedNext
  <2>7. upload'.at = "rows" => rowAt'.index <= CsvMaxRows + 2
    BY <1>3, <2>1 DEF ReadRow
  <2>8. upload'.at \notin {"idle", "lookup"}
    BY <1>3 DEF ReadRow
  <2> QED BY <2>4, <2>5, <2>6, <2>7, <2>8
<1>4. CASE EndRows
  <2>1. Numbered(rowAt.line)' = Numbered(rowAt.line)
    BY <1>4 DEF Numbered, EndRows
  <2>2. EmptyAbove(rowAt.line)' = EmptyAbove(rowAt.line)
    BY <1>4 DEF EmptyAbove, EndRows
  <2>3. UNCHANGED <<file, rowAt>> /\ (upload'.at = "rows" => upload.at \in {"rows", "lookup"})
    BY <1>4 DEF EndRows
  <2>4. upload'.at \in {"idle", "lookup"} => upload.at \in {"idle", "lookup"}
    BY <1>4 DEF EndRows
  <2> QED BY <2>1, <2>2, <2>3, <2>4
<1>5. CASE SaveRow
  <2>1. Numbered(rowAt.line)' = Numbered(rowAt.line)
    BY <1>5 DEF Numbered, SaveRow
  <2>2. EmptyAbove(rowAt.line)' = EmptyAbove(rowAt.line)
    BY <1>5 DEF EmptyAbove, SaveRow
  <2>3. UNCHANGED <<file, rowAt>> /\ (upload'.at = "rows" => upload.at \in {"rows", "lookup"})
    BY <1>5 DEF SaveRow
  <2>4. upload'.at \in {"idle", "lookup"} => upload.at \in {"idle", "lookup"}
    BY <1>5 DEF SaveRow
  <2> QED BY <2>1, <2>2, <2>3, <2>4
<1>6. CASE CommitRows
  <2>1. Numbered(rowAt.line)' = Numbered(rowAt.line)
    BY <1>6 DEF Numbered, CommitRows
  <2>2. EmptyAbove(rowAt.line)' = EmptyAbove(rowAt.line)
    BY <1>6 DEF EmptyAbove, CommitRows
  <2>3. UNCHANGED <<file, rowAt>> /\ (upload'.at = "rows" => upload.at \in {"rows", "lookup"})
    BY <1>6 DEF CommitRows
  <2>4. upload'.at \in {"idle", "lookup"} => upload.at \in {"idle", "lookup"}
    BY <1>6 DEF CommitRows
  <2> QED BY <2>1, <2>2, <2>3, <2>4
<1>7. CASE LoseUpload
  <2>1. Numbered(rowAt.line)' = Numbered(rowAt.line)
    BY <1>7 DEF Numbered, LoseUpload
  <2>2. EmptyAbove(rowAt.line)' = EmptyAbove(rowAt.line)
    BY <1>7 DEF EmptyAbove, LoseUpload
  <2>3. UNCHANGED <<file, rowAt>> /\ (upload'.at = "rows" => upload.at \in {"rows", "lookup"})
    BY <1>7 DEF LoseUpload
  <2>4. upload'.at \in {"idle", "lookup"} => upload.at \in {"idle", "lookup"}
    BY <1>7 DEF LoseUpload
  <2> QED BY <2>1, <2>2, <2>3, <2>4
<1>8. CASE DeleteCategory
  <2>1. Numbered(rowAt.line)' = Numbered(rowAt.line)
    BY <1>8 DEF Numbered, DeleteCategory
  <2>2. EmptyAbove(rowAt.line)' = EmptyAbove(rowAt.line)
    BY <1>8 DEF EmptyAbove, DeleteCategory
  <2>3. UNCHANGED <<file, rowAt>> /\ (upload'.at = "rows" => upload.at \in {"rows", "lookup"})
    BY <1>8 DEF DeleteCategory
  <2>4. upload'.at \in {"idle", "lookup"} => upload.at \in {"idle", "lookup"}
    BY <1>8 DEF DeleteCategory
  <2> QED BY <2>1, <2>2, <2>3, <2>4
<1>9. CASE DeleteShop
  <2>1. Numbered(rowAt.line)' = Numbered(rowAt.line)
    BY <1>9 DEF Numbered, DeleteShop
  <2>2. EmptyAbove(rowAt.line)' = EmptyAbove(rowAt.line)
    BY <1>9 DEF EmptyAbove, DeleteShop
  <2>3. UNCHANGED <<file, rowAt>> /\ (upload'.at = "rows" => upload.at \in {"rows", "lookup"})
    BY <1>9 DEF DeleteShop
  <2>4. upload'.at \in {"idle", "lookup"} => upload.at \in {"idle", "lookup"}
    BY <1>9 DEF DeleteShop
  <2> QED BY <2>1, <2>2, <2>3, <2>4
<1>10. CASE UNCHANGED uploadVars
  BY <1>10 DEF uploadVars, Numbered, EmptyAbove
<1> QED BY <1>1, <1>2, <1>3, <1>4, <1>5, <1>6, <1>7, <1>8, <1>9, <1>10 DEF BulkNext

LEMMA ReadInvStep ==
  ASSUME BulkTypeOK, NumberInv, ReadInv, [BulkNext]_uploadVars
  PROVE  ReadInv'
<1> USE CsvAssumption DEF UploadTo, Lines, BulkTypeOK, NumberInv, ReadInv, Rows, EmptyAbove
<1>1. CASE BeginUpload
  BY <1>1 DEF BeginUpload
<1>2. CASE CategoryLookup
  BY <1>2 DEF CategoryLookup
<1>3. CASE ReadRow
  <2>1. /\ upload.at = "rows" /\ rowAt.line \in Lines /\ file' = file
        /\ rowAt'.line = rowAt.line + 1
    BY <1>3 DEF ReadRow
  <2>2. Rows' = Rows
    BY <2>1
  <2>3. \A l \in Rows : l < rowAt'.line => l < rowAt.line \/ l = rowAt.line
    BY <2>1
  <2>4. CASE upload'.at # "rows"
    <3>1. upload' = [upload EXCEPT !.at = "refused"]
      BY <1>3, <2>1, <2>4 DEF ReadRow
    <3> QED BY <2>1, <3>1
  <2>5. CASE upload' = upload /\ file[rowAt.line] \in {"empty", "blank"}
    BY <2>1, <2>3, <2>5
  <2>6. CASE /\ Faulty(file[rowAt.line]) /\ rowAt.line \in Rows
             /\ upload' = [upload EXCEPT
                  !.errors = @ \cup {[line |-> rowAt.line, row |-> rowAt.index]}]
    <3>1. /\ upload'.errors = upload.errors \cup {[line |-> rowAt.line, row |-> rowAt.index]}
          /\ upload'.valid = upload.valid /\ upload'.at = "rows"
      BY <2>1, <2>6
    <3>2. \A e \in upload'.errors :
            e \in upload.errors \/ (e.line = rowAt.line /\ e.row = rowAt.index)
      BY <3>1
    <3>3. \E e \in upload'.errors : e.line = rowAt.line
      <4>1. [line |-> rowAt.line, row |-> rowAt.index] \in upload'.errors
        BY <3>1
      <4> QED BY <4>1
    <3> QED BY <2>1, <2>2, <2>3, <2>6, <3>1, <3>2, <3>3 DEF Faulty
  <2>7. CASE /\ ~Faulty(file[rowAt.line]) /\ rowAt.line \in Rows
             /\ upload' = [upload EXCEPT !.valid = @ \cup {rowAt.line}]
    <3>1. file[rowAt.line] \in {"good", "category"}
      BY <2>1, <2>7 DEF Faulty, LineKinds
    <3> QED BY <2>1, <2>2, <2>3, <2>7, <3>1
  <2> QED BY <1>3, <2>1, <2>4, <2>5, <2>6, <2>7 DEF ReadRow
<1>4. CASE EndRows
  BY <1>4 DEF EndRows
<1>5. CASE SaveRow
  BY <1>5 DEF SaveRow
<1>6. CASE CommitRows
  BY <1>6 DEF CommitRows
<1>7. CASE LoseUpload
  BY <1>7 DEF LoseUpload
<1>8. CASE DeleteCategory
  BY <1>8 DEF DeleteCategory
<1>9. CASE DeleteShop
  BY <1>9 DEF DeleteShop
<1>10. CASE UNCHANGED uploadVars
  BY <1>10 DEF uploadVars
<1> QED BY <1>1, <1>2, <1>3, <1>4, <1>5, <1>6, <1>7, <1>8, <1>9, <1>10 DEF BulkNext

LEMMA WholeInvStep ==
  ASSUME BulkInv, [BulkNext]_uploadVars
  PROVE  WholeInv'
<1> USE CsvAssumption DEF UploadTo, Lines, BulkInv, BulkTypeOK, WholeInv
<1>1. CASE BeginUpload
  <2>1. UNCHANGED file
    BY <1>1 DEF BeginUpload
  <2>2. Rows' = Rows /\ Numbered(Len(file) + 1)' = Numbered(Len(file) + 1)
    BY <2>1 DEF Rows, Numbered
  <2> QED BY <1>1, <2>2 DEF BeginUpload
<1>2. CASE CategoryLookup
  <2>1. UNCHANGED file
    BY <1>2 DEF CategoryLookup
  <2>2. Rows' = Rows /\ Numbered(Len(file) + 1)' = Numbered(Len(file) + 1)
    BY <2>1 DEF Rows, Numbered
  <2> QED BY <1>2, <2>2 DEF CategoryLookup
<1>3. CASE ReadRow
  <2>1. UNCHANGED <<file, saved, imported, shopThere>> /\ upload.at = "rows"
    BY <1>3 DEF ReadRow
  <2>2. Rows' = Rows /\ Numbered(Len(file) + 1)' = Numbered(Len(file) + 1)
    BY <2>1 DEF Rows, Numbered
  <2>3. upload.valid \subseteq upload'.valid /\ upload'.at \in {"rows", "refused"}
    <3>1. \/ upload' = upload
          \/ upload' = [upload EXCEPT !.at = "refused"]
          \/ upload' = [upload EXCEPT
               !.errors = @ \cup {[line |-> rowAt.line, row |-> rowAt.index]}]
          \/ upload' = [upload EXCEPT !.valid = @ \cup {rowAt.line}]
      BY <1>3 DEF ReadRow
    <3> QED BY <2>1, <3>1
  <2> QED BY <2>1, <2>2, <2>3
<1>4. CASE EndRows
  <2>1. /\ upload.at = "rows" /\ rowAt.line \notin Lines
        /\ UNCHANGED <<file, saved, imported, shopThere>>
        /\ upload' = [upload EXCEPT !.at =
             IF upload.errors # {} \/ upload.valid = {} THEN "refused" ELSE "saving"]
    BY <1>4 DEF EndRows
  <2>2. Rows' = Rows /\ Numbered(Len(file) + 1)' = Numbered(Len(file) + 1)
    BY <2>1 DEF Rows, Numbered
  <2>3. rowAt.line = Len(file) + 1
    BY <2>1 DEF NumberInv
  <2>4. CASE upload.errors = {} /\ upload.valid # {}
    <3>1. upload.valid = Rows
      BY <2>1, <2>3, <2>4 DEF ReadInv, Rows
    <3>2. Cardinality(Numbered(Len(file) + 1)) <= CsvMaxRows
      BY <2>1, <2>3, NumberedFinite DEF NumberInv
    <3> QED BY <2>1, <2>2, <2>4, <3>1, <3>2
  <2>5. CASE ~(upload.errors = {} /\ upload.valid # {})
    BY <2>1, <2>2, <2>5
  <2> QED BY <2>4, <2>5
<1>5. CASE SaveRow
  <2>1. UNCHANGED file
    BY <1>5 DEF SaveRow
  <2>2. Rows' = Rows /\ Numbered(Len(file) + 1)' = Numbered(Len(file) + 1)
    BY <2>1 DEF Rows, Numbered
  <2> QED BY <1>5, <2>2 DEF SaveRow
<1>6. CASE CommitRows
  <2>1. UNCHANGED file
    BY <1>6 DEF CommitRows
  <2>2. Rows' = Rows /\ Numbered(Len(file) + 1)' = Numbered(Len(file) + 1)
    BY <2>1 DEF Rows, Numbered
  <2> QED BY <1>6, <2>2 DEF CommitRows
<1>7. CASE LoseUpload
  <2>1. UNCHANGED file
    BY <1>7 DEF LoseUpload
  <2>2. Rows' = Rows /\ Numbered(Len(file) + 1)' = Numbered(Len(file) + 1)
    BY <2>1 DEF Rows, Numbered
  <2> QED BY <1>7, <2>2 DEF LoseUpload
<1>8. CASE DeleteCategory
  <2>1. UNCHANGED file
    BY <1>8 DEF DeleteCategory
  <2>2. Rows' = Rows /\ Numbered(Len(file) + 1)' = Numbered(Len(file) + 1)
    BY <2>1 DEF Rows, Numbered
  <2> QED BY <1>8, <2>2 DEF DeleteCategory
<1>9. CASE DeleteShop
  <2>1. UNCHANGED file
    BY <1>9 DEF DeleteShop
  <2>2. Rows' = Rows /\ Numbered(Len(file) + 1)' = Numbered(Len(file) + 1)
    BY <2>1 DEF Rows, Numbered
  <2> QED BY <1>9, <2>2 DEF DeleteShop
<1>10. CASE UNCHANGED uploadVars
  BY <1>10 DEF uploadVars, Rows, Numbered
<1> QED BY <1>1, <1>2, <1>3, <1>4, <1>5, <1>6, <1>7, <1>8, <1>9, <1>10 DEF BulkNext

\* The whole file or nothing of it is imported, whatever its lines, what is deleted
\* meanwhile and where the request stops.
THEOREM BulkCorrect == BulkSpec => []BulkUploadWhole
<1>1. BulkInit => BulkInv
  <2> SUFFICES ASSUME BulkInit PROVE BulkInv
    OBVIOUS
  <2> USE CsvAssumption DEF BulkInit, NoUpload, Lines
  <2>1. file \in Seq(LineKinds)
    OBVIOUS
  <2>2. BulkTypeOK
    BY <2>1 DEF BulkTypeOK
  <2>3. Numbered(1) = {} /\ Cardinality({}) = 0
    BY <2>1, FS_EmptySet DEF Numbered
  <2>4. NumberInv
    <3>1. rowAt.line = 1 /\ rowAt.index = 2 /\ Len(file) \in Nat /\ upload.at = "idle"
      BY <2>1
    <3>2. Cardinality(Numbered(rowAt.line)) = 0
      BY <2>3, <3>1
    <3> QED BY <3>1, <3>2 DEF NumberInv
  <2>5. ReadInv /\ WholeInv
    BY DEF ReadInv, WholeInv
  <2> QED BY <2>2, <2>4, <2>5 DEF BulkInv
<1>2. BulkInv /\ [BulkNext]_uploadVars => BulkInv'
  BY BulkTypeStep, NumberInvStep, ReadInvStep, WholeInvStep DEF BulkInv
<1>3. BulkInv => BulkUploadWhole
  <2> SUFFICES ASSUME BulkInv PROVE BulkUploadWhole
    OBVIOUS
  <2> USE DEF BulkInv
  <2>1. Lines = 1 .. Len(file) /\ Len(file) \in Nat
    BY DEF BulkTypeOK, Lines
  <2>2. Numbered(Len(file) + 1) = {l \in Lines : file[l] # "empty"}
    BY <2>1 DEF Numbered
  <2>3. ASSUME NEW n \in Lines, EmptyAbove(n) PROVE \E l \in 1 .. n : file[l] = "empty"
    BY <2>1, <2>3 DEF EmptyAbove
  <2>4. ASSUME NEW e \in upload.errors
        PROVE  /\ file[e.line] \in {"bad", "category"}
               /\ e.row = e.line + 1 \/ (\E l \in 1 .. e.line : file[l] = "empty")
    BY <2>3 DEF ReadInv, BulkTypeOK
  <2>5. imported # {} =>
          /\ upload.at = "created" /\ imported = Rows
          /\ \A l \in Rows : file[l] # "bad"
          /\ Cardinality({l \in Lines : file[l] # "empty"}) <= CsvMaxRows
    BY <2>2 DEF WholeInv, ReadInv
  <2>6. upload.at = "created" /\ shopThere => imported # {}
    BY DEF WholeInv
  <2> QED BY <2>4, <2>5, <2>6 DEF BulkUploadWhole
<1> QED BY <1>1, <1>2, <1>3, PTL DEF BulkSpec

-----------------------------------------------------------------------------
(* MapLayers                                                                *)

MapTypeOK ==
  /\ agentFile \in AgentFiles
  /\ source \in {"absent", "pending", "uploaded", "deleted"}
  /\ stored \in BOOLEAN
  /\ drawn \in {0, 1}
  /\ making \in {"fetched", "refused", "dataset", "upload", "uploaded", "features", "layer",
                 "insert", "notify", "visible", "raised"}
  /\ DOMAIN layer = Owners

\* How far the tool is, the row, the object and the features tell together.
Made == agentFile.ext = "geojson" /\ agentFile.items = "some" => drawn = 1

MakingInv ==
  /\ making \in {"fetched", "dataset"} => source = "absent"
  /\ making \in {"upload", "uploaded"} => source \in {"pending", "deleted"}
  /\ making \in {"features", "layer", "insert", "notify", "visible"} =>
       source \in {"uploaded", "deleted"}
  /\ making = "uploaded" /\ source = "pending" => stored
  /\ source = "uploaded" => stored
  /\ making \in {"layer", "insert", "notify", "visible"} /\ source = "uploaded" => Made

\* The agent's layer is saved at the tool's own pace, and goes with its source.
AgentLayerInv ==
  /\ layer["agent"].at = "prepared" => making = "insert"
  /\ layer["agent"].at \in {"shown", "deleted"} => making \in {"notify", "visible", "raised"}
  /\ layer["agent"].at = "shown" => source = "uploaded" /\ Made

\* Metadata is written once, and a style that knew it agrees with it.
StyleInv ==
  /\ metadata.kind = "unknown" => metadata = NoMetadata
  /\ metadata # NoMetadata =>
       metadata.kind = KindOf(agentFile.bands) /\ metadata.count = agentFile.bands
  /\ \A o \in Owners : layer[o].known =>
       /\ metadata # NoMetadata
       /\ layer[o].style \in {"hillshade", "raster"} =>
            (layer[o].style = "hillshade" <=> agentFile.bands = 1)

MapInv == MapTypeOK /\ MakingInv /\ AgentLayerInv /\ StyleInv

LEMMA StyledIs ==
  ASSUME NEW label
  PROVE  /\ Styled(label).at = label /\ Styled(label).style = DefaultStyle
         /\ Styled(label).known <=> metadata # NoMetadata
<1>1. Styled(label).at = label /\ Styled(label).style = DefaultStyle
  BY DEF Styled
<1>2. Styled(label).known <=> metadata # NoMetadata
  BY Zenon DEF Styled
<1> QED BY <1>1, <1>2

LEMMA DefaultStyleIs ==
  ASSUME StyleInv, metadata # NoMetadata, DefaultStyle \in {"hillshade", "raster"}
  PROVE  DefaultStyle = "hillshade" <=> agentFile.bands = 1
BY DEF StyleInv, DefaultStyle, KindOf

LEMMA MapTypeStep ==
  ASSUME MapTypeOK, [MapNext]_mapVars
  PROVE  MapTypeOK'
<1> USE MapAssumption DEF MakingTo, NoLayer, MapTypeOK
<1>1. CASE InsertNode
  BY <1>1 DEF InsertNode
<1>2. CASE InsertDataset
  BY <1>2 DEF InsertDataset
<1>3. CASE PutFile
  BY <1>3 DEF PutFile
<1>4. CASE MarkUploaded
  BY <1>4 DEF MarkUploaded
<1>5. CASE InsertDrawn
  BY <1>5 DEF InsertDrawn
<1>6. CASE PrepareLayer
  BY <1>6 DEF PrepareLayer
<1>7. CASE NotifyLayer
  BY <1>7 DEF NotifyLayer
<1>8. CASE LoseMaking
  BY <1>8 DEF LoseMaking
<1>9. CASE PublishTiles
  BY <1>9 DEF PublishTiles
<1>10. CASE WriteMetadata
  BY <1>10 DEF WriteMetadata
<1>11. CASE PostLayer
  BY <1>11 DEF PostLayer
<1>12. CASE PointLayerHere
  BY <1>12 DEF PointLayerHere
<1>13. CASE DeleteSource
  BY <1>13 DEF DeleteSource
<1>14. ASSUME NEW o \in Owners, InsertLayer(o) PROVE MapTypeOK'
  BY <1>14 DEF InsertLayer
<1>15. ASSUME NEW o \in Owners, RestyleLayer(o) PROVE MapTypeOK'
  BY <1>15 DEF RestyleLayer
<1>16. ASSUME NEW o \in Owners, DeleteLayer(o) PROVE MapTypeOK'
  BY <1>16 DEF DeleteLayer
<1>17. CASE UNCHANGED mapVars
  BY <1>17 DEF mapVars
<1> QED BY <1>1, <1>2, <1>3, <1>4, <1>5, <1>6, <1>7, <1>8, <1>9, <1>10, <1>11, <1>12,
       <1>13, <1>14, <1>15, <1>16, <1>17 DEF MapNext

LEMMA MakingInvStep ==
  ASSUME MapTypeOK, MakingInv, AgentLayerInv, [MapNext]_mapVars
  PROVE  MakingInv'
<1> USE MapAssumption DEF MakingTo, NoLayer, MapTypeOK, MakingInv, Made, AgentLayerInv
<1>1. CASE InsertNode
  BY <1>1 DEF InsertNode
<1>2. CASE InsertDataset
  BY <1>2 DEF InsertDataset
<1>3. CASE PutFile
  BY <1>3 DEF PutFile
<1>4. CASE MarkUploaded
  BY <1>4 DEF MarkUploaded
<1>5. CASE InsertDrawn
  BY <1>5 DEF InsertDrawn
<1>6. CASE PrepareLayer
  BY <1>6 DEF PrepareLayer
<1>7. CASE NotifyLayer
  BY <1>7 DEF NotifyLayer
<1>8. CASE LoseMaking
  BY <1>8 DEF LoseMaking
<1>9. CASE PublishTiles
  BY <1>9 DEF PublishTiles
<1>10. CASE WriteMetadata
  BY <1>10 DEF WriteMetadata
<1>11. CASE PostLayer
  BY <1>11, StyledIs DEF PostLayer
<1>12. CASE PointLayerHere
  BY <1>12 DEF PointLayerHere
<1>13. CASE DeleteSource
  BY <1>13 DEF DeleteSource
<1>14. ASSUME NEW o \in Owners, InsertLayer(o) PROVE MakingInv'
  BY <1>14 DEF InsertLayer
<1>15. ASSUME NEW o \in Owners, RestyleLayer(o) PROVE MakingInv'
  <2> DEFINE later == Styled("shown")
  <2> HIDE DEF later
  <2>1. later.at = "shown" /\ layer[o].at = "shown"
    BY <1>15, StyledIs DEF later, RestyleLayer
  <2>2. CASE layer' = [layer EXCEPT ![o] = later]
    BY <1>15, <2>1, <2>2 DEF RestyleLayer
  <2>3. CASE layer' = [layer EXCEPT ![o].style = "custom"]
    BY <1>15, <2>3 DEF RestyleLayer
  <2> QED BY <1>15, <2>2, <2>3 DEF RestyleLayer, later
<1>16. ASSUME NEW o \in Owners, DeleteLayer(o) PROVE MakingInv'
  BY <1>16 DEF DeleteLayer
<1>17. CASE UNCHANGED mapVars
  BY <1>17 DEF mapVars
<1> QED BY <1>1, <1>2, <1>3, <1>4, <1>5, <1>6, <1>7, <1>8, <1>9, <1>10, <1>11, <1>12,
       <1>13, <1>14, <1>15, <1>16, <1>17 DEF MapNext

LEMMA AgentLayerStep ==
  ASSUME MapTypeOK, MakingInv, AgentLayerInv, [MapNext]_mapVars
  PROVE  AgentLayerInv'
<1> USE MapAssumption DEF MakingTo, NoLayer, MapTypeOK, MakingInv, Made, AgentLayerInv
<1>1. CASE InsertNode
  BY <1>1 DEF InsertNode
<1>2. CASE InsertDataset
  BY <1>2 DEF InsertDataset
<1>3. CASE PutFile
  BY <1>3 DEF PutFile
<1>4. CASE MarkUploaded
  BY <1>4 DEF MarkUploaded
<1>5. CASE InsertDrawn
  BY <1>5 DEF InsertDrawn
<1>6. CASE PrepareLayer
  BY <1>6 DEF PrepareLayer
<1>7. CASE NotifyLayer
  BY <1>7 DEF NotifyLayer
<1>8. CASE LoseMaking
  BY <1>8 DEF LoseMaking
<1>9. CASE PublishTiles
  BY <1>9 DEF PublishTiles
<1>10. CASE WriteMetadata
  BY <1>10 DEF WriteMetadata
<1>11. CASE PostLayer
  BY <1>11, StyledIs DEF PostLayer
<1>12. CASE PointLayerHere
  BY <1>12 DEF PointLayerHere
<1>13. CASE DeleteSource
  BY <1>13 DEF DeleteSource
<1>14. ASSUME NEW o \in Owners, InsertLayer(o) PROVE AgentLayerInv'
  BY <1>14 DEF InsertLayer
<1>15. ASSUME NEW o \in Owners, RestyleLayer(o) PROVE AgentLayerInv'
  <2> DEFINE later == Styled("shown")
  <2> HIDE DEF later
  <2>1. later.at = "shown" /\ layer[o].at = "shown"
    BY <1>15, StyledIs DEF later, RestyleLayer
  <2>2. CASE layer' = [layer EXCEPT ![o] = later]
    BY <1>15, <2>1, <2>2 DEF RestyleLayer
  <2>3. CASE layer' = [layer EXCEPT ![o].style = "custom"]
    BY <1>15, <2>3 DEF RestyleLayer
  <2> QED BY <1>15, <2>2, <2>3 DEF RestyleLayer, later
<1>16. ASSUME NEW o \in Owners, DeleteLayer(o) PROVE AgentLayerInv'
  BY <1>16 DEF DeleteLayer
<1>17. CASE UNCHANGED mapVars
  BY <1>17 DEF mapVars
<1> QED BY <1>1, <1>2, <1>3, <1>4, <1>5, <1>6, <1>7, <1>8, <1>9, <1>10, <1>11, <1>12,
       <1>13, <1>14, <1>15, <1>16, <1>17 DEF MapNext

LEMMA StyleInvStep ==
  ASSUME MapTypeOK, StyleInv, [MapNext]_mapVars
  PROVE  StyleInv'
<1> USE MapAssumption DEF MakingTo, NoLayer, MapTypeOK, StyleInv, NoMetadata, KindOf
<1>1. CASE InsertNode
  BY <1>1 DEF InsertNode
<1>2. CASE InsertDataset
  BY <1>2 DEF InsertDataset
<1>3. CASE PutFile
  BY <1>3 DEF PutFile
<1>4. CASE MarkUploaded
  BY <1>4 DEF MarkUploaded
<1>5. CASE InsertDrawn
  BY <1>5 DEF InsertDrawn
<1>6. CASE PrepareLayer
  BY <1>6 DEF PrepareLayer
<1>7. CASE NotifyLayer
  BY <1>7 DEF NotifyLayer
<1>8. CASE LoseMaking
  BY <1>8 DEF LoseMaking
<1>9. CASE PublishTiles
  BY <1>9 DEF PublishTiles
<1>10. CASE WriteMetadata
  BY <1>10 DEF WriteMetadata
<1>11. CASE PostLayer
  <2> DEFINE later == Styled("prepared")
  <2> HIDE DEF later, NoMetadata
  <2>1. /\ later.style = DefaultStyle /\ (later.known <=> metadata # NoMetadata)
    BY StyledIs DEF later
  <2>2. layer' = [layer EXCEPT !["user"] = later]
    BY <1>11 DEF PostLayer, later
  <2> QED BY <1>11, <2>1, <2>2, DefaultStyleIs DEF PostLayer
<1>12. CASE PointLayerHere
  BY <1>12 DEF PointLayerHere
<1>13. CASE DeleteSource
  BY <1>13 DEF DeleteSource
<1>14. ASSUME NEW o \in Owners, InsertLayer(o) PROVE StyleInv'
  BY <1>14 DEF InsertLayer
<1>15. ASSUME NEW o \in Owners, RestyleLayer(o) PROVE StyleInv'
  <2> DEFINE later == Styled("shown")
  <2> HIDE DEF later, NoMetadata
  <2>1. /\ later.style = DefaultStyle /\ (later.known <=> metadata # NoMetadata)
    BY StyledIs DEF later
  <2>2. CASE layer' = [layer EXCEPT ![o] = later]
    BY <1>15, <2>1, <2>2, DefaultStyleIs DEF RestyleLayer
  <2>3. CASE layer' = [layer EXCEPT ![o].style = "custom"]
    BY <1>15, <2>3 DEF RestyleLayer
  <2> QED BY <1>15, <2>2, <2>3 DEF RestyleLayer, later
<1>16. ASSUME NEW o \in Owners, DeleteLayer(o) PROVE StyleInv'
  BY <1>16 DEF DeleteLayer
<1>17. CASE UNCHANGED mapVars
  BY <1>17 DEF mapVars
<1> QED BY <1>1, <1>2, <1>3, <1>4, <1>5, <1>6, <1>7, <1>8, <1>9, <1>10, <1>11, <1>12,
       <1>13, <1>14, <1>15, <1>16, <1>17 DEF MapNext

\* A layer of the agent has its data behind it, and a style that was chosen from the
\* metadata is the one the tiles are encoded for.
THEOREM MapCorrect == MapSpec => []LayerShowsItsData
<1>1. MapInit => MapInv
  <2> SUFFICES ASSUME MapInit PROVE MapInv
    OBVIOUS
  <2>1. \A o \in Owners : layer[o].at = "none" /\ ~layer[o].known
    BY DEF MapInit, NoLayer
  <2>2. MapTypeOK /\ MakingInv
    BY DEF MapInit, MapTypeOK, MakingInv
  <2>3. AgentLayerInv
    BY <2>1, MapAssumption DEF AgentLayerInv
  <2>4. StyleInv
    BY <2>1 DEF MapInit, StyleInv, NoMetadata
  <2> QED BY <2>2, <2>3, <2>4 DEF MapInv
<1>2. MapInv /\ [MapNext]_mapVars => MapInv'
  BY MapTypeStep, MakingInvStep, AgentLayerStep, StyleInvStep DEF MapInv
<1>3. MapInv => LayerShowsItsData
  BY MapAssumption DEF MapInv, MapTypeOK, MakingInv, AgentLayerInv, StyleInv, Made,
     NoMetadata, KindOf, LayerShowsItsData, TerrainTile, VectorTile
<1> QED BY <1>1, <1>2, <1>3, PTL DEF MapSpec

-----------------------------------------------------------------------------
(* HistoryCompaction                                                        *)

HistoryTypeOK ==
  /\ history \in Seq(Nat)
  /\ first \in Nat \ {0} /\ first <= Len(history) + 1
  /\ emptied \in BOOLEAN
  /\ DOMAIN turn = {"at", "asked", "from", "draft", "loops"}
  /\ turn.at \in {"idle", "compaction", "route", "expert", "join", "respond"}
  /\ turn.asked \in Nat /\ turn.from \in Nat /\ turn.loops \in Nat
  /\ turn.draft \in Seq(Nat)

\* The question stays in the state, and is its last message until the expert is done.
TurnInv ==
  /\ turn.at \notin {"expert", "join"} => turn.draft = <<>>
  /\ turn.at # "idle" => first <= turn.asked /\ turn.asked <= Len(history)
  /\ turn.at \in {"compaction", "route", "expert", "join"} => turn.asked = Len(history)
  /\ turn.at = "expert" => 1 <= turn.from /\ turn.from <= turn.asked

\* What was removed is told.
ToldInv == ~emptied => \A i \in 1 .. first - 1 : i \in told

\* Between a call and its answer there are only answers to that call.
Answers(s) ==
  \A i \in 1 .. Len(s) :
    s[i] # 0 => /\ 1 <= s[i] /\ s[i] < i
                /\ \A j \in 1 .. Len(s) : s[i] < j /\ j < i => s[j] = s[i]

HistoryInv == HistoryTypeOK /\ TurnInv /\ ToldInv /\ Answers(Conversation)

LEMMA LastOfIs ==
  ASSUME HistoryTypeOK, NEW n \in Nat
  PROVE  LastOf(n) = IF first > Len(history) - n + 1 THEN first ELSE Len(history) - n + 1
<1> DEFINE a == first
           b == Len(history) - n + 1
<1>1. a \in Int /\ b \in Int
  BY DEF HistoryTypeOK
<1> HIDE DEF a, b
<1>2. Max({a, b}) \in {a, b} /\ \A x \in {a, b} : Max({a, b}) >= x
  <2>1. \E x \in {a, b} : \A y \in {a, b} : x >= y
    BY <1>1
  <2> QED BY <2>1 DEF Max
<1>3. Max({a, b}) = IF a > b THEN a ELSE b
  BY <1>1, <1>2
<1> QED BY <1>3 DEF a, b, LastOf

LEMMA TrimIs ==
  ASSUME HistoryTypeOK
  PROVE  /\ TrimMessages \in Nat \ {0}
         /\ \E n \in Nat : /\ n >= RecentMessages
                           /\ TrimMessages = LastOf(n)
<1>1. \E n \in Nat : n >= RecentMessages /\ TrimMessages = LastOf(n)
  BY ContextAssumption DEF TrimMessages
<1>2. ASSUME NEW n \in Nat PROVE LastOf(n) \in Nat \ {0}
  <2>1. LastOf(n) = IF first > Len(history) - n + 1 THEN first ELSE Len(history) - n + 1
    BY LastOfIs
  <2> QED BY <2>1 DEF HistoryTypeOK
<1> QED BY <1>1, <1>2

LEMMA AnswersPrefix ==
  ASSUME NEW s \in Seq(Nat), NEW t \in Seq(Nat), Answers(s \o t)
  PROVE  Answers(s)
<1>1. /\ Len(s \o t) = Len(s) + Len(t)
      /\ \A i \in 1 .. Len(s) : (s \o t)[i] = s[i]
  BY ConcatProperties
<1> DEFINE u == s \o t
<1> HIDE DEF u
<1>2. \A i \in 1 .. Len(s) : i \in 1 .. Len(u) /\ u[i] = s[i]
  BY <1>1 DEF u
<1>3. Answers(u)
  BY DEF u
<1> QED BY <1>2, <1>3 DEF Answers

LEMMA AnswersRound ==
  ASSUME NEW s \in Seq(Nat), NEW calls \in Nat, Answers(s)
  PROVE  Answers((s \o <<0>>) \o [c \in 1 .. calls |-> Len(s) + 1])
<1> DEFINE answers == [c \in 1 .. calls |-> Len(s) + 1]
           round == (s \o <<0>>) \o answers
<1>1. answers \in Seq(Nat) /\ Len(answers) = calls
  OBVIOUS
<1>2. /\ s \o <<0>> \in Seq(Nat) /\ Len(s \o <<0>>) = Len(s) + 1
      /\ \A i \in 1 .. Len(s) + 1 : (s \o <<0>>)[i] = IF i <= Len(s) THEN s[i] ELSE 0
  OBVIOUS
<1>3. /\ Len(round) = Len(s) + 1 + calls
      /\ \A i \in 1 .. Len(s) + 1 + calls :
           round[i] = IF i <= Len(s) THEN s[i] ELSE IF i = Len(s) + 1 THEN 0 ELSE Len(s) + 1
  <2> DEFINE base == s \o <<0>>
  <2> HIDE DEF answers, base
  <2>0. base \in Seq(Nat) /\ Len(base) = Len(s) + 1
    BY <1>2 DEF base
  <2>1. /\ Len(round) = Len(s) + 1 + calls
        /\ \A i \in 1 .. Len(s) + 1 + calls :
             round[i] = IF i <= Len(s) + 1 THEN (s \o <<0>>)[i] ELSE answers[i - (Len(s) + 1)]
    BY <1>1, <2>0, ConcatProperties DEF base
  <2>2. \A i \in Len(s) + 2 .. Len(s) + 1 + calls : answers[i - (Len(s) + 1)] = Len(s) + 1
    BY DEF answers
  <2> QED BY <1>2, <2>1, <2>2
<1> HIDE DEF round, answers
<1>4. Answers(round)
  <2> SUFFICES ASSUME NEW i \in 1 .. Len(round), round[i] # 0
               PROVE  /\ 1 <= round[i] /\ round[i] < i
                      /\ \A j \in 1 .. Len(round) :
                           round[i] < j /\ j < i => round[j] = round[i]
    BY DEF Answers
  <2>1. CASE i <= Len(s)
    BY <1>3, <2>1 DEF Answers
  <2>2. CASE i > Len(s) + 1
    BY <1>3, <2>2
  <2> QED BY <1>3, <2>1, <2>2
<1> QED BY <1>4 DEF round, answers

LEMMA TurnFields ==
  ASSUME HistoryTypeOK
  PROVE  /\ Ask => /\ turn'.at = "compaction" /\ turn'.asked = Len(history) + 1
                   /\ turn'.from = 0 /\ turn'.loops = 0 /\ turn'.draft = <<>>
                   /\ DOMAIN turn' = DOMAIN turn
         /\ Compact => /\ turn'.at = "route" /\ turn'.asked = turn.asked
                       /\ turn'.from = turn.from /\ turn'.loops = turn.loops
                       /\ turn'.draft = turn.draft /\ DOMAIN turn' = DOMAIN turn
         /\ Route => /\ \/ turn'.at = "expert" /\ turn'.from = TrimMessages
                        \/ turn'.at = "respond" /\ turn'.from = turn.from
                     /\ turn'.asked = turn.asked /\ turn'.loops = turn.loops
                     /\ turn'.draft = turn.draft /\ DOMAIN turn' = DOMAIN turn
         /\ JoinExpert => /\ turn'.at = "respond" /\ turn'.asked = turn.asked
                          /\ turn'.from = turn.from /\ turn'.loops = turn.loops
                          /\ turn'.draft = <<>> /\ DOMAIN turn' = DOMAIN turn
         /\ (Respond \/ EndTurn) =>
               /\ turn'.at = "idle" /\ turn'.asked = 0 /\ turn'.from = 0 /\ turn'.loops = 0
               /\ turn'.draft = <<>> /\ DOMAIN turn' = DOMAIN turn
<1>1. ASSUME Ask
      PROVE  /\ turn'.at = "compaction" /\ turn'.asked = Len(history) + 1
             /\ turn'.from = 0 /\ turn'.loops = 0 /\ turn'.draft = <<>>
             /\ DOMAIN turn' = DOMAIN turn
  <2>1. Len(history') = Len(history) + 1
    BY <1>1 DEF Ask, HistoryTypeOK
  <2>2. /\ turn'.at = "compaction" /\ turn'.asked = Len(history')
        /\ turn'.from = 0 /\ turn'.loops = 0 /\ turn'.draft = <<>>
        /\ DOMAIN turn' = {"at", "asked", "from", "draft", "loops"}
    BY <1>1 DEF Ask, NoTurn
  <2> QED BY <2>1, <2>2 DEF HistoryTypeOK
<1>2. ASSUME Compact
      PROVE  /\ turn'.at = "route" /\ turn'.asked = turn.asked
             /\ turn'.from = turn.from /\ turn'.loops = turn.loops
             /\ turn'.draft = turn.draft /\ DOMAIN turn' = DOMAIN turn
  <2>1. turn' = [turn EXCEPT !.at = "route"]
    BY <1>2 DEF Compact
  <2> QED BY <2>1 DEF HistoryTypeOK
<1>3. ASSUME Route
      PROVE  /\ \/ turn'.at = "expert" /\ turn'.from = TrimMessages
                \/ turn'.at = "respond" /\ turn'.from = turn.from
             /\ turn'.asked = turn.asked /\ turn'.loops = turn.loops
             /\ turn'.draft = turn.draft /\ DOMAIN turn' = DOMAIN turn
  <2>1. CASE turn' = [turn EXCEPT !.at = "expert", !.from = TrimMessages]
    BY <2>1 DEF HistoryTypeOK
  <2>2. CASE turn' = [turn EXCEPT !.at = "respond"]
    BY <2>2 DEF HistoryTypeOK
  <2> QED BY <1>3, <2>1, <2>2 DEF Route
<1>4. ASSUME JoinExpert
      PROVE  /\ turn'.at = "respond" /\ turn'.asked = turn.asked
             /\ turn'.from = turn.from /\ turn'.loops = turn.loops
             /\ turn'.draft = <<>> /\ DOMAIN turn' = DOMAIN turn
  <2>1. turn' = [turn EXCEPT !.draft = <<>>, !.at = "respond"]
    BY <1>4 DEF JoinExpert
  <2> QED BY <2>1 DEF HistoryTypeOK
<1>5. ASSUME Respond \/ EndTurn
      PROVE  /\ turn'.at = "idle" /\ turn'.asked = 0 /\ turn'.from = 0 /\ turn'.loops = 0
             /\ turn'.draft = <<>> /\ DOMAIN turn' = DOMAIN turn
  <2>1. turn' = NoTurn
    BY <1>5 DEF Respond, EndTurn
  <2> QED BY <2>1 DEF HistoryTypeOK, NoTurn
<1> QED BY <1>1, <1>2, <1>3, <1>4, <1>5

LEMMA RoundJoins ==
  ASSUME HistoryTypeOK, NEW answers \in Seq(Nat)
  PROVE  ((history \o turn.draft) \o <<0>>) \o answers
           = history \o ((turn.draft \o <<0>>) \o answers)
<1> DEFINE said == <<0>>
           draft == turn.draft
           round == draft \o said
<1>1. history \in Seq(Nat) /\ draft \in Seq(Nat) /\ said \in Seq(Nat)
  BY DEF HistoryTypeOK
<1> HIDE DEF said, draft
<1>2. (history \o draft) \o said = history \o round
  BY SMTT(30), <1>1, ConcatAssociative
<1>3. round \in Seq(Nat)
  BY <1>1, ConcatProperties
<1> HIDE DEF round
<1>4. (history \o round) \o answers = history \o (round \o answers)
  BY SMTT(30), <1>1, <1>3, ConcatAssociative
<1> QED BY <1>2, <1>4 DEF said, draft, round

\* A response of the expert's model is a round: the message, and the answers to its calls.
LEMMA ExpertRound ==
  ASSUME HistoryTypeOK, CallExpert
  PROVE  \E calls \in Nat :
           /\ turn'.draft = (turn.draft \o <<0>>)
                              \o [c \in 1 .. calls |-> Len(history) + Len(turn.draft) + 1]
           /\ turn'.draft \in Seq(Nat)
           /\ turn.at = "expert" /\ turn'.at \in {"join", "expert"}
           /\ turn'.asked = turn.asked /\ turn'.from = turn.from /\ turn'.loops \in Nat
           /\ DOMAIN turn' = DOMAIN turn
           /\ UNCHANGED <<history, first, told, emptied>>
<1>1. PICK calls \in 0 .. MaxCalls :
        LET response == Len(history) + Len(turn.draft) + 1
            loops == IF calls = 0 THEN turn.loops ELSE turn.loops + 1
        IN turn' = [turn EXCEPT
             !.draft = (@ \o <<0>>) \o [c \in 1 .. calls |-> response],
             !.loops = loops,
             !.at = IF calls = 0 \/ loops = MaxIterations THEN "join" ELSE "expert"]
  BY DEF CallExpert
<1> DEFINE loops == IF calls = 0 THEN turn.loops ELSE turn.loops + 1
           label == IF calls = 0 \/ loops = MaxIterations THEN "join" ELSE "expert"
           answers == [c \in 1 .. calls |-> Len(history) + Len(turn.draft) + 1]
           draft == (turn.draft \o <<0>>) \o answers
<1>2. turn' = [turn EXCEPT !.draft = draft, !.loops = loops, !.at = label]
  BY <1>1
<1>3. loops \in Nat /\ label \in {"join", "expert"} /\ calls \in Nat
  BY DEF HistoryTypeOK
<1>4. draft \in Seq(Nat)
  <2>1. answers \in Seq(Nat) /\ turn.draft \o <<0>> \in Seq(Nat)
    BY DEF HistoryTypeOK
  <2> QED BY <2>1
<1>5. UNCHANGED <<history, first, told, emptied>> /\ turn.at = "expert"
  BY DEF CallExpert
<1> HIDE DEF loops, label, draft
<1>6. /\ turn'.draft = draft /\ turn'.loops = loops /\ turn'.at = label
      /\ turn'.asked = turn.asked /\ turn'.from = turn.from /\ DOMAIN turn' = DOMAIN turn
  BY <1>2 DEF HistoryTypeOK
<1> QED BY <1>3, <1>4, <1>5, <1>6 DEF draft

LEMMA HistoryTypeStep ==
  ASSUME HistoryTypeOK, TurnInv, [HistoryNext]_chatVars
  PROVE  HistoryTypeOK'
<1> USE TurnFields, ContextAssumption DEF HistoryTypeOK, TurnInv, Respond, EndTurn
<1>1. CASE Ask
  <2>1. history' \in Seq(Nat) /\ Len(history') = Len(history) + 1
    BY <1>1 DEF Ask
  <2> QED BY <1>1, <2>1 DEF Ask
<1>2. CASE Compact
  <2>1. /\ turn.at = "compaction" /\ UNCHANGED history
        /\ \/ UNCHANGED <<first, told, emptied>>
           \/ /\ first' = LastOf(RecentMessages) /\ ShouldCompact
              /\ \/ told' = told \cup (first .. first' - 1) /\ emptied' = emptied
                 \/ told' = {} /\ emptied' = TRUE
    BY <1>2 DEF Compact
  <2>2. LastOf(RecentMessages) = IF first > Len(history) - RecentMessages + 1 THEN first
                                 ELSE Len(history) - RecentMessages + 1
    BY LastOfIs, ContextAssumption
  <2>3. emptied' \in BOOLEAN
    BY <2>1, Zenon
  <2> QED BY <1>2, <2>1, <2>2, <2>3
<1>3. CASE Route
  <2>1. PICK n \in Nat : n >= RecentMessages /\ TrimMessages = LastOf(n)
    BY TrimIs
  <2>2. TrimMessages = IF first > Len(history) - n + 1 THEN first ELSE Len(history) - n + 1
    BY <2>1, LastOfIs
  <2> QED BY <1>3, <2>1, <2>2 DEF Route
<1>4. CASE CallExpert
  <2> QED BY <1>4, ExpertRound
<1>5. CASE JoinExpert
  <2>1. history \o turn.draft \in Seq(Nat)
        /\ Len(history \o turn.draft) = Len(history) + Len(turn.draft)
    BY ConcatProperties
  <2> QED BY <1>5, <2>1 DEF JoinExpert
<1>6. CASE Respond
  BY <1>6 DEF Respond
<1>7. CASE EndTurn
  <2>1. /\ turn'.at = "idle" /\ turn'.asked = 0 /\ turn'.from = 0 /\ turn'.loops = 0
        /\ turn'.draft = <<>> /\ DOMAIN turn' = DOMAIN turn
        /\ UNCHANGED <<history, first, emptied>>
    BY <1>7
  <2> QED BY <2>1
<1>8. CASE UNCHANGED chatVars
  BY <1>8 DEF chatVars
<1> QED BY <1>1, <1>2, <1>3, <1>4, <1>5, <1>6, <1>7, <1>8 DEF HistoryNext

LEMMA TurnInvStep ==
  ASSUME HistoryTypeOK, TurnInv, [HistoryNext]_chatVars
  PROVE  TurnInv'
<1> USE TurnFields, ContextAssumption DEF HistoryTypeOK, TurnInv, Respond, EndTurn
<1>1. CASE Ask
  <2>1. history' \in Seq(Nat) /\ Len(history') = Len(history) + 1
    BY <1>1 DEF Ask
  <2> QED BY <1>1, <2>1 DEF Ask
<1>2. CASE Compact
  <2>1. /\ turn.at = "compaction" /\ UNCHANGED history
        /\ \/ UNCHANGED <<first, told, emptied>>
           \/ /\ first' = LastOf(RecentMessages) /\ ShouldCompact
              /\ \/ told' = told \cup (first .. first' - 1) /\ emptied' = emptied
                 \/ told' = {} /\ emptied' = TRUE
    BY <1>2 DEF Compact
  <2>2. LastOf(RecentMessages) = IF first > Len(history) - RecentMessages + 1 THEN first
                                 ELSE Len(history) - RecentMessages + 1
    BY LastOfIs, ContextAssumption
  <2>3. emptied' \in BOOLEAN
    BY <2>1, Zenon
  <2> QED BY <1>2, <2>1, <2>2, <2>3
<1>3. CASE Route
  <2>1. PICK n \in Nat : n >= RecentMessages /\ TrimMessages = LastOf(n)
    BY TrimIs
  <2>2. TrimMessages = IF first > Len(history) - n + 1 THEN first ELSE Len(history) - n + 1
    BY <2>1, LastOfIs
  <2> QED BY SMTT(30), <1>3, <2>1, <2>2 DEF Route
<1>4. CASE CallExpert
  <2> QED BY <1>4, ExpertRound
<1>5. CASE JoinExpert
  <2>1. history \o turn.draft \in Seq(Nat)
        /\ Len(history \o turn.draft) = Len(history) + Len(turn.draft)
    BY ConcatProperties
  <2> QED BY <1>5, <2>1 DEF JoinExpert
<1>6. CASE Respond
  BY <1>6 DEF Respond
<1>7. CASE EndTurn
  <2>1. /\ turn'.at = "idle" /\ turn'.asked = 0 /\ turn'.from = 0 /\ turn'.loops = 0
        /\ turn'.draft = <<>> /\ DOMAIN turn' = DOMAIN turn
        /\ UNCHANGED <<history, first, emptied>>
    BY <1>7
  <2> QED BY <2>1
<1>8. CASE UNCHANGED chatVars
  BY <1>8 DEF chatVars
<1> QED BY <1>1, <1>2, <1>3, <1>4, <1>5, <1>6, <1>7, <1>8 DEF HistoryNext

LEMMA ToldInvStep ==
  ASSUME HistoryTypeOK, ToldInv, [HistoryNext]_chatVars
  PROVE  ToldInv'
<1> USE TurnFields, ContextAssumption DEF HistoryTypeOK, ToldInv
<1>1. CASE Ask
  BY <1>1 DEF Ask
<1>2. CASE Compact
  BY <1>2 DEF Compact
<1>3. CASE Route
  BY <1>3 DEF Route
<1>4. CASE CallExpert
  BY <1>4 DEF CallExpert
<1>5. CASE JoinExpert
  BY <1>5 DEF JoinExpert
<1>6. CASE Respond
  BY <1>6 DEF Respond
<1>7. CASE EndTurn
  BY <1>7 DEF EndTurn
<1>8. CASE UNCHANGED chatVars
  BY <1>8 DEF chatVars
<1> QED BY <1>1, <1>2, <1>3, <1>4, <1>5, <1>6, <1>7, <1>8 DEF HistoryNext

LEMMA AnswersStep ==
  ASSUME HistoryTypeOK, TurnInv, Answers(Conversation), [HistoryNext]_chatVars
  PROVE  Answers(Conversation)'
<1> USE TurnFields, ContextAssumption DEF HistoryTypeOK, TurnInv, Conversation
<1>1. CASE Ask
  <2>1. turn.draft = <<>> /\ turn'.draft = <<>> /\ history' = Append(history, 0)
    BY <1>1 DEF Ask
  <2>2. Conversation = history /\ Conversation' = history \o <<0>>
    BY SMTT(30), <1>1, <2>1
  <2>3. Answers((history \o <<0>>) \o [c \in 1 .. 0 |-> Len(history) + 1])
    BY <1>1, <2>2, AnswersRound
  <2>4. (history \o <<0>>) \o [c \in 1 .. 0 |-> Len(history) + 1] = history \o <<0>>
    OBVIOUS
  <2> QED BY <2>2, <2>3, <2>4
<1>2. CASE Compact
  <2>1. UNCHANGED history
    BY <1>2 DEF Compact
  <2>2. Conversation' = Conversation
    BY <1>2, <2>1
  <2> QED BY <1>2, <2>2 DEF Answers
<1>3. CASE Route
  <2>1. UNCHANGED history
    BY <1>3 DEF Route
  <2>2. Conversation' = Conversation
    BY <1>3, <2>1
  <2> QED BY <1>3, <2>2 DEF Answers
<1>4. CASE CallExpert
  <2>1. PICK calls \in Nat :
          /\ turn'.draft = (turn.draft \o <<0>>)
                             \o [c \in 1 .. calls |-> Len(history) + Len(turn.draft) + 1]
          /\ UNCHANGED history
    BY <1>4, ExpertRound
  <2> DEFINE answers == [c \in 1 .. calls |-> Len(history) + Len(turn.draft) + 1]
  <2>2. answers \in Seq(Nat) /\ <<0>> \in Seq(Nat) /\ turn.draft \o <<0>> \in Seq(Nat)
    BY <1>4
  <2>3. /\ Len(history \o turn.draft) = Len(history) + Len(turn.draft)
        /\ history \o turn.draft \in Seq(Nat)
    BY <1>4, ConcatProperties
  <2>4. Answers(((history \o turn.draft) \o <<0>>) \o answers)
    BY <1>4, <2>3, AnswersRound
  <2> HIDE DEF answers
  <2>5. ((history \o turn.draft) \o <<0>>) \o answers
          = history \o ((turn.draft \o <<0>>) \o answers)
    BY <2>2, RoundJoins
  <2>6. Conversation' = history \o ((turn.draft \o <<0>>) \o answers)
    BY <1>4, <2>1 DEF answers
  <2> QED BY <2>4, <2>5, <2>6
<1>5. CASE JoinExpert
  <2>1. history' = history \o turn.draft /\ turn'.draft = <<>>
    BY <1>5 DEF JoinExpert
  <2>2. history' \in Seq(Nat)
    BY <1>5, <2>1
  <2>3. Conversation' = Conversation
    BY <1>5, <2>1, <2>2
  <2> QED BY <1>5, <2>3
<1>6. CASE Respond
  <2>1. UNCHANGED history /\ turn'.draft = <<>>
    BY <1>6 DEF EndTurn, Respond
  <2>2. Conversation' = history
    BY <1>6, <2>1
  <2>3. Answers(history)
    BY <1>6, AnswersPrefix
  <2> QED BY <1>6, <2>2, <2>3
<1>7. CASE EndTurn
  <2>1. UNCHANGED history /\ turn'.draft = <<>>
    BY <1>7 DEF EndTurn, Respond
  <2>2. Conversation' = history
    BY <1>7, <2>1
  <2>3. Answers(history)
    BY <1>7, AnswersPrefix
  <2> QED BY <1>7, <2>2, <2>3
<1>8. CASE UNCHANGED chatVars
  BY <1>8 DEF chatVars
<1> QED BY <1>1, <1>2, <1>3, <1>4, <1>5, <1>6, <1>7, <1>8 DEF HistoryNext

\* Whatever is compacted and trimmed, a model sees the question of its turn and the calls
\* of the answers it sees, and what it does not see it is told of.
THEOREM HistoryCorrect == HistorySpec => []ContextKeepsTurn
<1>1. HistoryInit => HistoryInv
  <2> SUFFICES ASSUME HistoryInit PROVE HistoryInv
    OBVIOUS
  <2>1. /\ turn.at = "idle" /\ turn.asked = 0 /\ turn.from = 0 /\ turn.loops = 0
        /\ turn.draft = <<>> /\ DOMAIN turn = {"at", "asked", "from", "draft", "loops"}
    BY DEF HistoryInit, NoTurn
  <2>2. history = <<>> /\ first = 1 /\ emptied = FALSE
    BY DEF HistoryInit
  <2>3. HistoryTypeOK
    <3>1. emptied \in BOOLEAN
      BY <2>2, Zenon
    <3> QED BY <2>1, <2>2, <3>1 DEF HistoryTypeOK
  <2>5. TurnInv /\ ToldInv
    BY <2>1, <2>2 DEF TurnInv, ToldInv
  <2>4. Answers(Conversation)
    BY <2>1, <2>2 DEF Answers, Conversation
  <2> QED BY <2>3, <2>4, <2>5 DEF HistoryInv
<1>2. HistoryInv /\ [HistoryNext]_chatVars => HistoryInv'
  BY HistoryTypeStep, TurnInvStep, ToldInvStep, AnswersStep DEF HistoryInv
<1>3. HistoryInv => ContextKeepsTurn
  <2> SUFFICES ASSUME HistoryInv, turn.at \in {"route", "expert", "respond"}
               PROVE  ContextKeepsTurn
    BY DEF ContextKeepsTurn
  <2> DEFINE start == IF turn.at = "expert" THEN turn.from ELSE TrimMessages
  <2>0. Seen = start .. Len(Conversation)
    BY DEF Seen
  <2>1. start \in Nat \ {0}
    BY TrimIs DEF HistoryInv, HistoryTypeOK, TurnInv
  <2>2. Conversation \in Seq(Nat) /\ Len(Conversation) = Len(history) + Len(turn.draft)
    BY ConcatProperties DEF HistoryInv, HistoryTypeOK, Conversation
  <2>3. \/ turn.asked \in Seen
        \/ turn.at = "respond" /\ Len(history) - turn.asked >= RecentMessages
    <3>1. CASE turn.at = "expert"
      BY <3>1, <2>0, <2>2 DEF HistoryInv, HistoryTypeOK, TurnInv
    <3>2. CASE turn.at # "expert"
      <4>1. PICK n \in Nat : n >= RecentMessages /\ TrimMessages = LastOf(n)
        BY TrimIs DEF HistoryInv
      <4>2. start = IF first > Len(history) - n + 1 THEN first ELSE Len(history) - n + 1
        BY <3>2, <4>1, LastOfIs DEF HistoryInv
      <4>3. /\ first <= turn.asked /\ turn.asked <= Len(history) /\ turn.asked \in Nat
            /\ turn.at = "route" => turn.asked = Len(history)
            /\ Len(Conversation) = Len(history) /\ Len(history) \in Nat /\ first \in Nat
            /\ turn.at \in {"route", "respond"}
        BY SMTT(30), <3>2, <2>2 DEF HistoryInv, HistoryTypeOK, TurnInv
      <4> HIDE DEF start
      <4>4. CASE start <= turn.asked
        BY <2>0, <2>1, <4>3, <4>4
      <4>5. CASE ~ start <= turn.asked
        BY <2>1, <4>1, <4>2, <4>3, <4>5, ContextAssumption
      <4> QED BY <4>4, <4>5
    <3> QED BY <3>1, <3>2
  <2> HIDE DEF start
  <2>4. \A i \in Seen : Conversation[i] # 0 =>
          \/ Conversation[i] \in Seen
          \/ \A j \in Seen : j < i => Conversation[j] = Conversation[i]
    BY <2>0, <2>1, <2>2 DEF HistoryInv, Answers
  <2>5. \A i \in 1 .. Len(Conversation) : i \in Seen \cup told \/ i >= first \/ emptied
    BY <2>2 DEF HistoryInv, HistoryTypeOK, ToldInv
  <2> QED BY <2>3, <2>4, <2>5 DEF ContextKeepsTurn
<1> QED BY <1>1, <1>2, <1>3, PTL DEF HistorySpec

-----------------------------------------------------------------------------
(* DocumentIngest                                                           *)

DocTypeOK ==
  /\ document \in [status : {"absent", "pending", "processing", "ready", "failed", "deleted"},
                   path : {Key, NoPath}]
  /\ chunks \in Nat
  /\ bucket \subseteq {Key}
  /\ posting \in {"idle", "inserted", "uploaded", "except", "saved", "answered", "unsent",
                  "refused", "lost"}
  /\ removal \in [at : {"idle", "chunks", "row", "object", "answered", "leftBehind", "lost"},
                  path : {Key, NoPath}]
  /\ patch \in [at : {"idle", "save", "done", "revived"},
                row : [status : {"absent", "pending", "processing", "ready", "failed"},
                       path : {Key, NoPath}]]
  /\ task \in [Messages -> [at : {"unsent", "queued", "skipped", "raised", "done", "gaveUp",
                                  "killed"} \cup Working,
                            path : {Key, NoPath}, tries : Nat]]

\* The path is saved after the upload, so that no upload follows what read it; and a
\* deleted row is back only by a PATCH.  Both begin after the row is inserted.
PathInv ==
  /\ Key \in {document.path, removal.path, patch.row.path} =>
       posting \in {"saved", "answered", "unsent", "lost"}
  /\ removal.at = "answered" /\ Key \in bucket => removal.path = NoPath
  /\ removal.at \in {"object", "answered", "leftBehind"} =>
       document.status = "deleted" \/ patch.at = "revived"
  /\ posting = "idle" => /\ document.status = "absent"
                         /\ removal.at = "idle" /\ patch.at = "idle"

\* The chunks were deleted, or their deletion was lost.
Purged == removal.at \in {"row", "object", "answered", "leftBehind", "lost"}

\* Whoever takes the document for ready comes after its chunks.
ReadyInv ==
  /\ document.status = "ready" => chunks > 0 \/ Purged
  /\ patch.row.status = "ready" => chunks > 0 \/ Purged
  /\ \A m \in Messages : task[m].at = "ready" => chunks > 0 \/ Purged
  /\ document.status = "deleted" => chunks = 0

\* A delivery that can have inserted the chunks.
MayHaveInserted(m) ==
  task[m].at \in {"ready", "notify", "done", "except", "retry", "gaveUp", "killed"}

\* The message is sent once; a delivery inserts the chunks once, unless it is retried.
OnceInv ==
  /\ posting \in {"idle", "inserted", "uploaded", "except", "saved", "refused"} =>
       \A m \in Messages : task[m].at = "unsent"
  /\ \A m \in Messages : task[m].at = "unsent" => task[m].tries = 0
  /\ ~Repeated => chunks <= 1
  /\ ~Repeated /\ chunks > 0 => \E m \in Messages : MayHaveInserted(m)

DocInv == DocTypeOK /\ PathInv /\ ReadyInv /\ OnceInv

LEMMA DocTypeStep ==
  ASSUME DocTypeOK, [DocNext]_docVars
  PROVE  DocTypeOK'
<1> USE DEF SetStatus, RemovalTo, TaskTo, DocumentGone, NoDocument, Key, NoPath, Working,
          DocTypeOK
<1>1. CASE InsertDocument
  BY <1>1 DEF InsertDocument
<1>2. CASE UploadFile
  <2>1. bucket' \subseteq {Key}
    BY <1>2 DEF UploadFile, UploadObject, UploadRaised
  <2>2. posting' \in {"uploaded", "except"}
    BY <1>2 DEF UploadFile
  <2> QED BY <2>1, <2>2, <1>2 DEF UploadFile
<1>3. CASE SavePath
  BY <1>3 DEF SavePath
<1>4. CASE FailUpload
  BY <1>4 DEF FailUpload
<1>5. CASE SendMessage
  BY <1>5 DEF SendMessage
<1>6. CASE LosePost
  BY <1>6 DEF LosePost
<1>7. CASE ReadForRemoval
  BY <1>7 DEF ReadForRemoval
<1>8. CASE DeleteChunks
  BY <1>8 DEF DeleteChunks
<1>9. CASE DeleteDocument
  BY <1>9 DEF DeleteDocument
<1>10. CASE DeleteFile
  BY <1>10 DEF DeleteFile, DeleteObject, DeleteRaised
<1>11. CASE LoseRemoval
  BY <1>11 DEF LoseRemoval
<1>12. CASE ReadForPatch
  BY <1>12 DEF ReadForPatch
<1>13. CASE SavePatch
  BY <1>13 DEF SavePatch
<1>14. ASSUME NEW m \in Messages, LoadDocument(m) PROVE DocTypeOK'
  BY <1>14 DEF LoadDocument
<1>15. ASSUME NEW m \in Messages, MarkProcessing(m) PROVE DocTypeOK'
  BY <1>15 DEF MarkProcessing
<1>16. ASSUME NEW m \in Messages, DownloadFile(m) PROVE DocTypeOK'
  BY <1>16 DEF DownloadFile
<1>17. ASSUME NEW m \in Messages, ConvertAndEmbed(m) PROVE DocTypeOK'
  BY <1>17 DEF ConvertAndEmbed
<1>18. ASSUME NEW m \in Messages, InsertChunks(m) PROVE DocTypeOK'
  BY <1>18 DEF InsertChunks
<1>19. ASSUME NEW m \in Messages, SaveReady(m) PROVE DocTypeOK'
  BY <1>19 DEF SaveReady
<1>20. ASSUME NEW m \in Messages, NotifyProcessed(m) PROVE DocTypeOK'
  BY <1>20 DEF NotifyProcessed
<1>21. ASSUME NEW m \in Messages, FailDocument(m) PROVE DocTypeOK'
  BY <1>21 DEF FailDocument
<1>22. ASSUME NEW m \in Messages, RetryDocument(m) PROVE DocTypeOK'
  BY <1>22 DEF RetryDocument
<1>23. ASSUME NEW m \in Messages, KillTask(m) PROVE DocTypeOK'
  BY <1>23 DEF KillTask
<1>24. ASSUME NEW m \in Messages, NEW n \in Messages, RedeliverMessage(m, n) PROVE DocTypeOK'
  BY <1>24 DEF RedeliverMessage
<1>25. CASE UNCHANGED docVars
  BY <1>25 DEF docVars
<1> QED BY <1>1, <1>2, <1>3, <1>4, <1>5, <1>6, <1>7, <1>8, <1>9, <1>10, <1>11, <1>12,
       <1>13, <1>14, <1>15, <1>16, <1>17, <1>18, <1>19, <1>20, <1>21, <1>22, <1>23,
       <1>24, <1>25 DEF DocNext, DocRequest, DocTask

LEMMA PathInvStep ==
  ASSUME DocTypeOK, PathInv, [DocNext]_docVars
  PROVE  PathInv'
<1> USE DEF SetStatus, RemovalTo, TaskTo, DocumentGone, NoDocument, Key, NoPath, Working,
          DocTypeOK, PathInv
<1>1. CASE InsertDocument
  <2>1. posting = "idle" /\ posting' # "idle" /\ bucket' = bucket
        /\ removal' = removal /\ patch' = patch
    BY <1>1 DEF InsertDocument
  <2>2. document'.path = document.path
    BY <1>1 DEF InsertDocument
  <2>3. document.path # Key /\ removal.path # Key /\ patch.row.path # Key
    BY <2>1
  <2> QED BY <2>1, <2>2, <2>3
<1>2. CASE UploadFile
  BY <1>2 DEF UploadFile, UploadObject, UploadRaised
<1>3. CASE SavePath
  BY <1>3 DEF SavePath
<1>4. CASE FailUpload
  BY <1>4 DEF FailUpload
<1>5. CASE SendMessage
  BY <1>5 DEF SendMessage
<1>6. CASE LosePost
  BY <1>6 DEF LosePost
<1>7. CASE ReadForRemoval
  BY <1>7 DEF ReadForRemoval
<1>8. CASE DeleteChunks
  BY <1>8 DEF DeleteChunks
<1>9. CASE DeleteDocument
  BY <1>9 DEF DeleteDocument
<1>10. CASE DeleteFile
  BY <1>10 DEF DeleteFile, DeleteObject, DeleteRaised
<1>11. CASE LoseRemoval
  BY <1>11 DEF LoseRemoval
<1>12. CASE ReadForPatch
  BY <1>12 DEF ReadForPatch
<1>13. CASE SavePatch
  BY <1>13 DEF SavePatch
<1>14. ASSUME NEW m \in Messages, LoadDocument(m) PROVE PathInv'
  BY <1>14 DEF LoadDocument
<1>15. ASSUME NEW m \in Messages, MarkProcessing(m) PROVE PathInv'
  BY <1>15 DEF MarkProcessing
<1>16. ASSUME NEW m \in Messages, DownloadFile(m) PROVE PathInv'
  BY <1>16 DEF DownloadFile
<1>17. ASSUME NEW m \in Messages, ConvertAndEmbed(m) PROVE PathInv'
  BY <1>17 DEF ConvertAndEmbed
<1>18. ASSUME NEW m \in Messages, InsertChunks(m) PROVE PathInv'
  BY <1>18 DEF InsertChunks
<1>19. ASSUME NEW m \in Messages, SaveReady(m) PROVE PathInv'
  BY <1>19 DEF SaveReady
<1>20. ASSUME NEW m \in Messages, NotifyProcessed(m) PROVE PathInv'
  BY <1>20 DEF NotifyProcessed
<1>21. ASSUME NEW m \in Messages, FailDocument(m) PROVE PathInv'
  BY <1>21 DEF FailDocument
<1>22. ASSUME NEW m \in Messages, RetryDocument(m) PROVE PathInv'
  BY <1>22 DEF RetryDocument
<1>23. ASSUME NEW m \in Messages, KillTask(m) PROVE PathInv'
  BY <1>23 DEF KillTask
<1>24. ASSUME NEW m \in Messages, NEW n \in Messages, RedeliverMessage(m, n) PROVE PathInv'
  BY <1>24 DEF RedeliverMessage
<1>25. CASE UNCHANGED docVars
  BY <1>25 DEF docVars
<1> QED BY <1>1, <1>2, <1>3, <1>4, <1>5, <1>6, <1>7, <1>8, <1>9, <1>10, <1>11, <1>12,
       <1>13, <1>14, <1>15, <1>16, <1>17, <1>18, <1>19, <1>20, <1>21, <1>22, <1>23,
       <1>24, <1>25 DEF DocNext, DocRequest, DocTask

LEMMA ReadyInvStep ==
  ASSUME DocTypeOK, ReadyInv, [DocNext]_docVars
  PROVE  ReadyInv'
<1> USE DEF SetStatus, RemovalTo, TaskTo, DocumentGone, NoDocument, Key, NoPath, Working,
          DocTypeOK, ReadyInv, Purged
<1>1. CASE InsertDocument
  BY <1>1 DEF InsertDocument
<1>2. CASE UploadFile
  BY <1>2 DEF UploadFile
<1>3. CASE SavePath
  BY <1>3 DEF SavePath
<1>4. CASE FailUpload
  BY <1>4 DEF FailUpload
<1>5. CASE SendMessage
  BY <1>5 DEF SendMessage
<1>6. CASE LosePost
  BY <1>6 DEF LosePost
<1>7. CASE ReadForRemoval
  BY <1>7 DEF ReadForRemoval
<1>8. CASE DeleteChunks
  BY <1>8 DEF DeleteChunks
<1>9. CASE DeleteDocument
  BY <1>9 DEF DeleteDocument
<1>10. CASE DeleteFile
  BY <1>10 DEF DeleteFile
<1>11. CASE LoseRemoval
  BY <1>11 DEF LoseRemoval
<1>12. CASE ReadForPatch
  BY <1>12 DEF ReadForPatch
<1>13. CASE SavePatch
  BY <1>13 DEF SavePatch
<1>14. ASSUME NEW m \in Messages, LoadDocument(m) PROVE ReadyInv'
  BY <1>14 DEF LoadDocument
<1>15. ASSUME NEW m \in Messages, MarkProcessing(m) PROVE ReadyInv'
  BY <1>15 DEF MarkProcessing
<1>16. ASSUME NEW m \in Messages, DownloadFile(m) PROVE ReadyInv'
  BY <1>16 DEF DownloadFile
<1>17. ASSUME NEW m \in Messages, ConvertAndEmbed(m) PROVE ReadyInv'
  BY <1>17 DEF ConvertAndEmbed
<1>18. ASSUME NEW m \in Messages, InsertChunks(m) PROVE ReadyInv'
  BY <1>18 DEF InsertChunks
<1>19. ASSUME NEW m \in Messages, SaveReady(m) PROVE ReadyInv'
  BY <1>19 DEF SaveReady
<1>20. ASSUME NEW m \in Messages, NotifyProcessed(m) PROVE ReadyInv'
  BY <1>20 DEF NotifyProcessed
<1>21. ASSUME NEW m \in Messages, FailDocument(m) PROVE ReadyInv'
  BY <1>21 DEF FailDocument
<1>22. ASSUME NEW m \in Messages, RetryDocument(m) PROVE ReadyInv'
  BY <1>22 DEF RetryDocument
<1>23. ASSUME NEW m \in Messages, KillTask(m) PROVE ReadyInv'
  BY <1>23 DEF KillTask
<1>24. ASSUME NEW m \in Messages, NEW n \in Messages, RedeliverMessage(m, n) PROVE ReadyInv'
  BY <1>24 DEF RedeliverMessage
<1>25. CASE UNCHANGED docVars
  BY <1>25 DEF docVars
<1> QED BY <1>1, <1>2, <1>3, <1>4, <1>5, <1>6, <1>7, <1>8, <1>9, <1>10, <1>11, <1>12,
       <1>13, <1>14, <1>15, <1>16, <1>17, <1>18, <1>19, <1>20, <1>21, <1>22, <1>23,
       <1>24, <1>25 DEF DocNext, DocRequest, DocTask

LEMMA OnceInvStep ==
  ASSUME DocTypeOK, OnceInv, [DocNext]_docVars
  PROVE  OnceInv'
<1> USE DEF SetStatus, RemovalTo, TaskTo, DocumentGone, NoDocument, Key, NoPath, Working,
          DocTypeOK, OnceInv, MayHaveInserted, Repeated
<1>1. CASE InsertDocument
  BY <1>1 DEF InsertDocument
<1>2. CASE UploadFile
  BY <1>2 DEF UploadFile
<1>3. CASE SavePath
  BY <1>3 DEF SavePath
<1>4. CASE FailUpload
  BY <1>4 DEF FailUpload
<1>5. CASE SendMessage
  BY <1>5 DEF SendMessage
<1>6. CASE LosePost
  BY <1>6 DEF LosePost
<1>7. CASE ReadForRemoval
  BY <1>7 DEF ReadForRemoval
<1>8. CASE DeleteChunks
  BY <1>8 DEF DeleteChunks
<1>9. CASE DeleteDocument
  BY <1>9 DEF DeleteDocument
<1>10. CASE DeleteFile
  BY <1>10 DEF DeleteFile
<1>11. CASE LoseRemoval
  BY <1>11 DEF LoseRemoval
<1>12. CASE ReadForPatch
  BY <1>12 DEF ReadForPatch
<1>13. CASE SavePatch
  BY <1>13 DEF SavePatch
<1>14. ASSUME NEW m \in Messages, LoadDocument(m) PROVE OnceInv'
  BY <1>14 DEF LoadDocument
<1>15. ASSUME NEW m \in Messages, MarkProcessing(m) PROVE OnceInv'
  BY <1>15 DEF MarkProcessing
<1>16. ASSUME NEW m \in Messages, DownloadFile(m) PROVE OnceInv'
  BY <1>16 DEF DownloadFile
<1>17. ASSUME NEW m \in Messages, ConvertAndEmbed(m) PROVE OnceInv'
  BY <1>17 DEF ConvertAndEmbed
<1>18. ASSUME NEW m \in Messages, InsertChunks(m) PROVE OnceInv'
  BY <1>18 DEF InsertChunks
<1>19. ASSUME NEW m \in Messages, SaveReady(m) PROVE OnceInv'
  BY <1>19 DEF SaveReady
<1>20. ASSUME NEW m \in Messages, NotifyProcessed(m) PROVE OnceInv'
  BY <1>20 DEF NotifyProcessed
<1>21. ASSUME NEW m \in Messages, FailDocument(m) PROVE OnceInv'
  BY <1>21 DEF FailDocument
<1>22. ASSUME NEW m \in Messages, RetryDocument(m) PROVE OnceInv'
  BY <1>22 DEF RetryDocument
<1>23. ASSUME NEW m \in Messages, KillTask(m) PROVE OnceInv'
  BY <1>23 DEF KillTask
<1>24. ASSUME NEW m \in Messages, NEW n \in Messages, RedeliverMessage(m, n) PROVE OnceInv'
  BY <1>24 DEF RedeliverMessage
<1>25. CASE UNCHANGED docVars
  BY <1>25 DEF docVars
<1> QED BY <1>1, <1>2, <1>3, <1>4, <1>5, <1>6, <1>7, <1>8, <1>9, <1>10, <1>11, <1>12,
       <1>13, <1>14, <1>15, <1>16, <1>17, <1>18, <1>19, <1>20, <1>21, <1>22, <1>23,
       <1>24, <1>25 DEF DocNext, DocRequest, DocTask

\* The row, its chunks, its file and the deliveries stay in step through every
\* request and every step of the task.
THEOREM DocInvCorrect == DocSpec => []DocInv
<1>1. DocInit => DocInv
  BY DEF DocInit, DocInv, DocTypeOK, PathInv, ReadyInv, OnceInv, NoDocument, Key, NoPath,
         Working, Repeated
<1>2. DocInv /\ [DocNext]_docVars => DocInv'
  BY DocTypeStep, PathInvStep, ReadyInvStep, OnceInvStep DEF DocInv
<1> QED BY <1>1, <1>2, PTL DEF DocSpec

\* What a search returns of a document is the whole of it, once, though its upload,
\* deletion, PATCH and processing overlap and fail at any step.
THEOREM WholeOnceCorrect == DocSpec => []DocumentWholeOnce
<1>1. DocInv => DocumentWholeOnce
  BY DEF DocInv, DocTypeOK, PathInv, ReadyInv, OnceInv, Purged, DocumentWholeOnce, Retrievable
<1> QED BY <1>1, DocInvCorrect, PTL

-----------------------------------------------------------------------------
(* SearchPaging                                                             *)

\* The rows are in the order of the sort: the item i with the key k comes no
\* later than a row of the key high and the id last.
UpTo(k, i, high, last) ==
  \/ IF sort = "recent" THEN k > high ELSE k < high
  \/ k = high /\ i <= last

ShownTwice(i) == \E u \in used : Between(items[i].key, u.v, u.key)
Missed(i) ==
  \/ items[i].key = NullKey /\ used # {}
  \/ \E u \in used : Between(items[i].key, u.key, u.v)

SearchTypeOK ==
  /\ items \in [ItemIds -> [key : 0 .. NullKey, active : BOOLEAN]]
  /\ sort \in {"distance", "price", "recent"}
  /\ limit \in Nat
  /\ cursor \subseteq [v : Int, id : ItemIds]
  /\ used \subseteq [v : Int, key : 0 .. NullKey]
  /\ shown \in [ItemIds -> Nat]
  /\ steady \subseteq ItemIds
  /\ pages \in [asked : Nat, over : BOOLEAN]

\* A cursor holds what CursorValue made of a key; only a price may be null.
UsedInv ==
  /\ \A u \in used : u.v = CursorValue(u.key)
  /\ sort # "price" => \A i \in ItemIds : items[i].key # NullKey

\* While the buyer pages there is one cursor, but before the first page.
CursorInv ==
  /\ \A c, d \in cursor : c = d
  /\ pages.asked = 0 => \A i \in ItemIds : shown[i] = 0
  /\ cursor = {} => pages.asked = 0 \/ pages.over

\* What is up to the row of a cursor was shown, and nothing after it, but for the
\* items whose exception some cursor gave.
ExactUpTo(c, u) ==
  \A i \in steady :
    /\ shown[i] > 1 => ShownTwice(i)
    /\ shown[i] > 0 => UpTo(items[i].key, i, u.key, c.id) \/ ShownTwice(i)
    /\ UpTo(items[i].key, i, u.key, c.id) => shown[i] > 0 \/ Missed(i)

ShownInv ==
  limit > 0 =>
    /\ \A c \in cursor : \E u \in used : u.v = c.v /\ ExactUpTo(c, u)
    /\ pages.over => \A i \in steady : /\ shown[i] > 1 => ShownTwice(i)
                                       /\ shown[i] = 0 => Missed(i)

SearchInv ==
  /\ SearchTypeOK /\ UsedInv /\ CursorInv /\ ShownInv
  /\ \A i \in steady : items[i].active

-----------------------------------------------------------------------------
LEMMA CursorValueInt ==
  ASSUME SearchAssumption, SearchTypeOK, NEW k \in 0 .. NullKey
  PROVE  CursorValue(k) \in Int
<1>1. \A a \in Int, b \in Nat \ {0} : a \div b \in Int
  OBVIOUS
<1>2. /\ 2 * k + Grain \in Int /\ 2 * Grain \in Nat \ {0} /\ Grain \in Int
      /\ k \in Int
  BY DEF SearchAssumption
<1>3. (2 * k + Grain) \div (2 * Grain) \in Int
  BY <1>1, <1>2
<1>4. \A a, b \in Int : a * b \in Int
  OBVIOUS
<1>5. ((2 * k + Grain) \div (2 * Grain)) * Grain \in Int
  BY <1>2, <1>3, <1>4
<1> QED
  BY <1>2, <1>5 DEF CursorValue, SearchTypeOK

LEMMA SearchNumbers ==
  ASSUME SearchAssumption, SearchTypeOK
  PROVE  /\ \A i \in ItemIds : i \in Int /\ items[i].key \in Int
         /\ \A c \in [v : Int, id : ItemIds] : c.v \in Int /\ c.id \in Int
         /\ \A u \in used : u.v \in Int /\ u.key \in Int
<1>1. ItemIds \subseteq Int /\ 0 .. NullKey \subseteq Int
  BY DEF SearchAssumption
<1>2. \A i \in ItemIds : items[i].key \in 0 .. NullKey
  BY DEF SearchTypeOK
<1>3. \A c \in [v : Int, id : ItemIds] : c.v \in Int /\ c.id \in Int
  BY <1>1
<1>4. \A u \in used : u.v \in Int /\ u.key \in 0 .. NullKey
  BY DEF SearchTypeOK
<1> QED
  BY <1>1, <1>2, <1>3, <1>4

\* The order of the rows and the filter of a cursor, by what comes up to a row.
LEMMA PrecedesUpTo ==
  ASSUME SearchAssumption, SearchTypeOK, NEW i \in ItemIds, NEW j \in ItemIds
  PROVE  /\ Precedes(i, j) => UpTo(items[i].key, i, items[j].key, j)
         /\ Precedes(j, i) => ~UpTo(items[i].key, i, items[j].key, j)
<1> DEFINE a == items[i].key
           b == items[j].key
<1>1. a \in Int /\ b \in Int /\ i \in Int /\ j \in Int
  BY SearchNumbers
<1> QED
  BY <1>1 DEF Precedes, UpTo

LEMMA BeyondUpTo ==
  ASSUME SearchAssumption, SearchTypeOK, NEW i \in ItemIds, NEW c \in [v : Int, id : ItemIds]
  PROVE  Beyond(i, c) <=> items[i].key # NullKey /\ ~UpTo(items[i].key, i, c.v, c.id)
BY SearchNumbers DEF Beyond, UpTo

\* The cursor c was written for a row of the key u.key.  What comes up to that row
\* and is beyond c, or the other way round, has the exception.
LEMMA BeyondTwice ==
  ASSUME SearchAssumption, SearchTypeOK, UsedInv, NEW i \in ItemIds,
         NEW c \in cursor, NEW u \in used, u.v = c.v,
         UpTo(items[i].key, i, u.key, c.id), Beyond(i, c)
  PROVE  ShownTwice(i)
<1> DEFINE k == items[i].key
<1>1. k \in Int /\ u.v \in Int /\ u.key \in Int /\ i \in Int /\ c.id \in Int
  BY SearchNumbers DEF SearchTypeOK
<1>2. ~UpTo(k, i, u.v, c.id)
  BY BeyondUpTo DEF SearchTypeOK
<1>3. sort = "recent" => u.v = u.key
  BY DEF UsedInv, CursorValue
<1> HIDE DEF k
<1>4. Between(k, u.v, u.key)
  BY <1>1, <1>2, <1>3 DEF UpTo, Between, k
<1> QED
  BY <1>4 DEF ShownTwice, k

LEMMA NotBeyondMissed ==
  ASSUME SearchAssumption, SearchTypeOK, UsedInv, NEW i \in ItemIds,
         NEW c \in cursor, NEW u \in used, u.v = c.v,
         ~UpTo(items[i].key, i, u.key, c.id), ~Beyond(i, c)
  PROVE  Missed(i)
<1> DEFINE k == items[i].key
<1>1. k \in Int /\ u.v \in Int /\ u.key \in Int /\ i \in Int /\ c.id \in Int
  BY SearchNumbers DEF SearchTypeOK
<1>2. k = NullKey \/ UpTo(k, i, u.v, c.id)
  BY BeyondUpTo DEF SearchTypeOK
<1>3. sort = "recent" => u.v = u.key
  BY DEF UsedInv, CursorValue
<1> HIDE DEF k
<1>4. k = NullKey \/ Between(k, u.key, u.v)
  BY <1>1, <1>2, <1>3 DEF UpTo, Between, k
<1> QED
  BY <1>4 DEF Missed, k

\* An item without a price that a cursor has passed has the exception of that
\* cursor, whose value is 0.
LEMMA NullTwice ==
  ASSUME SearchAssumption, SearchTypeOK, UsedInv, NEW i \in ItemIds,
         NEW c \in cursor, NEW u \in used,
         UpTo(items[i].key, i, u.key, c.id), items[i].key = NullKey
  PROVE  ShownTwice(i)
<1>1. sort = "price"
  BY DEF UsedInv
<1>2. u.key \in 0 .. NullKey /\ NullKey \in Nat \ {0}
  BY DEF SearchTypeOK, SearchAssumption
<1>3. u.key = NullKey
  BY <1>1, <1>2 DEF UpTo
<1>4. u.v = 0
  BY <1>1, <1>3 DEF UsedInv, CursorValue
<1> QED
  BY <1>2, <1>3, <1>4 DEF ShownTwice, Between

\* What the filter of a cursor leaves out comes up to the last row it leaves.
LEMMA LeftOutUpTo ==
  ASSUME SearchAssumption, SearchTypeOK, NEW i \in ItemIds, NEW c \in cursor,
         NEW last \in ItemIds, Beyond(last, c), ~Beyond(i, c), items[i].key # NullKey
  PROVE  UpTo(items[i].key, i, items[last].key, last)
<1> DEFINE k == items[i].key
           high == items[last].key
<1>1. k \in Int /\ high \in Int /\ c.v \in Int /\ i \in Int /\ last \in Int /\ c.id \in Int
  BY SearchNumbers DEF SearchTypeOK
<1>2. UpTo(k, i, c.v, c.id) /\ ~UpTo(high, last, c.v, c.id)
  BY BeyondUpTo DEF SearchTypeOK
<1> HIDE DEF k, high
<1>3. UpTo(k, i, high, last)
  BY <1>1, <1>2 DEF UpTo
<1> QED
  BY <1>3 DEF k, high

\* A page: the first items found in the order of the sort, and the cursor of its
\* last row when there is more and the buyer asked for any.
Found == {i \in ItemIds : items[i].active /\ \A c \in cursor : Beyond(i, c)}

LEMMA AskPageCases ==
  ASSUME SearchAssumption, SearchTypeOK, AskPage
  PROVE  \E page \in SUBSET Found :
           /\ shown' = [i \in ItemIds |-> IF i \in page THEN shown[i] + 1 ELSE shown[i]]
           /\ UNCHANGED <<items, sort, limit, steady>>
           /\ pages' = [asked |-> pages.asked + 1, over |-> cursor' = {}]
           /\ \/ /\ cursor' = {} /\ used' = used
                 /\ limit > 0 => page = Found
              \/ \E last \in page :
                   /\ cursor' = {[v |-> CursorValue(items[last].key), id |-> last]}
                   /\ used' = used \cup {[v |-> CursorValue(items[last].key),
                                          key |-> items[last].key]}
                   /\ \A i \in page \ {last} : Precedes(i, last)
                   /\ \A i \in Found \ page : Precedes(last, i)
<1>1. PICK page \in SUBSET Found :
        /\ Cardinality(page) = IF Cardinality(Found) > limit THEN limit
                               ELSE Cardinality(Found)
        /\ \A i \in page, j \in Found \ page : Precedes(i, j)
        /\ shown' = [i \in ItemIds |-> IF i \in page THEN shown[i] + 1 ELSE shown[i]]
        /\ IF Cardinality(Found) > limit /\ limit > 0
           THEN \E last \in page :
                  /\ \A i \in page \ {last} : Precedes(i, last)
                  /\ cursor' = {[v |-> CursorValue(items[last].key), id |-> last]}
                  /\ used' = used \cup {[v |-> CursorValue(items[last].key),
                                         key |-> items[last].key]}
           ELSE cursor' = {} /\ used' = used
        /\ pages' = [asked |-> pages.asked + 1, over |-> cursor' = {}]
  BY DEF AskPage, Found
<1>2. UNCHANGED <<items, sort, limit, steady>>
  BY DEF AskPage
<1>3. CASE Cardinality(Found) > limit /\ limit > 0
  BY <1>1, <1>2, <1>3
<1>4. CASE ~(Cardinality(Found) > limit /\ limit > 0)
  <2>1. cursor' = {} /\ used' = used
    BY <1>1, <1>4
  <2>2. limit > 0 => page = Found
    <3>1. IsFiniteSet(Found)
      BY FS_Subset DEF Found, SearchAssumption
    <3>2. limit > 0 => Cardinality(page) = Cardinality(Found)
      BY <1>1, <1>4
    <3> QED
      BY <1>1, <3>1, <3>2, FS_Subset
  <2> QED
    BY <1>1, <1>2, <2>1, <2>2
<1> QED
  BY <1>3, <1>4

\* The items a page shows again have the exception, and so do those it leaves out
\* though they do not come after it.
LEMMA PageExact ==
  ASSUME SearchAssumption, SearchInv, limit > 0, NEW i \in steady,
         cursor = {} => pages.asked = 0
  PROVE  /\ shown[i] > 1 => ShownTwice(i)
         /\ i \in Found /\ shown[i] > 0 => ShownTwice(i)
         /\ i \notin Found /\ shown[i] = 0 => Missed(i)
         /\ i \notin Found /\ items[i].key = NullKey /\ shown[i] > 0 => ShownTwice(i)
<1>1. /\ i \in ItemIds /\ items[i].active /\ shown[i] \in Nat
      /\ SearchTypeOK /\ UsedInv
  BY DEF SearchInv, SearchTypeOK
<1>2. CASE cursor = {}
  BY <1>1, <1>2 DEF SearchInv, CursorInv, Found
<1>3. ASSUME NEW c \in cursor
      PROVE  /\ shown[i] > 1 => ShownTwice(i)
             /\ i \in Found /\ shown[i] > 0 => ShownTwice(i)
             /\ i \notin Found /\ shown[i] = 0 => Missed(i)
             /\ i \notin Found /\ items[i].key = NullKey /\ shown[i] > 0 => ShownTwice(i)
  <2>1. i \in Found <=> Beyond(i, c)
    BY <1>1, <1>3 DEF SearchInv, CursorInv, Found
  <2>2. PICK u \in used : u.v = c.v /\ ExactUpTo(c, u)
    BY <1>3 DEF SearchInv, ShownInv
  <2>3. /\ shown[i] > 1 => ShownTwice(i)
        /\ shown[i] > 0 => UpTo(items[i].key, i, u.key, c.id) \/ ShownTwice(i)
        /\ UpTo(items[i].key, i, u.key, c.id) => shown[i] > 0 \/ Missed(i)
    BY <2>2 DEF ExactUpTo
  <2>4. UpTo(items[i].key, i, u.key, c.id) /\ Beyond(i, c) => ShownTwice(i)
    BY <1>1, <1>3, <2>2, BeyondTwice
  <2>5. ~UpTo(items[i].key, i, u.key, c.id) /\ ~Beyond(i, c) => Missed(i)
    BY <1>1, <1>3, <2>2, NotBeyondMissed
  <2>6. UpTo(items[i].key, i, u.key, c.id) /\ items[i].key = NullKey => ShownTwice(i)
    BY <1>1, <1>3, <2>2, NullTwice
  <2> QED
    BY <1>1, <2>1, <2>3, <2>4, <2>5, <2>6
<1> QED
  BY <1>2, <1>3

LEMMA AskPageStep ==
  ASSUME SearchAssumption, SearchInv, AskPage
  PROVE  SearchInv'
<1> SearchTypeOK /\ UsedInv /\ CursorInv /\ ShownInv
  BY DEF SearchInv
<1>1. PICK page \in SUBSET Found :
        /\ shown' = [i \in ItemIds |-> IF i \in page THEN shown[i] + 1 ELSE shown[i]]
        /\ UNCHANGED <<items, sort, limit, steady>>
        /\ pages' = [asked |-> pages.asked + 1, over |-> cursor' = {}]
        /\ \/ /\ cursor' = {} /\ used' = used
              /\ limit > 0 => page = Found
           \/ \E last \in page :
                /\ cursor' = {[v |-> CursorValue(items[last].key), id |-> last]}
                /\ used' = used \cup {[v |-> CursorValue(items[last].key),
                                       key |-> items[last].key]}
                /\ \A i \in page \ {last} : Precedes(i, last)
                /\ \A i \in Found \ page : Precedes(last, i)
  BY AskPageCases
<1>2. /\ cursor = {} => pages.asked = 0
      /\ \A i \in ItemIds : shown'[i] = IF i \in page THEN shown[i] + 1 ELSE shown[i]
  BY <1>1 DEF CursorInv, AskPage
<1>3. /\ page \subseteq ItemIds /\ Found \subseteq ItemIds
      /\ \A i \in ItemIds : items[i].key \in 0 .. NullKey
      /\ \A i \in ItemIds : CursorValue(items[i].key) \in Int
  BY <1>1, CursorValueInt DEF Found, SearchTypeOK
<1>4. shown' \in [ItemIds -> Nat]
  BY <1>1 DEF SearchTypeOK
<1>5. pages' \in [asked : Nat, over : BOOLEAN] /\ pages'.asked # 0
      /\ (pages'.over <=> cursor' = {})
  <2>1. pages.asked + 1 \in Nat /\ pages.asked + 1 # 0
    BY DEF SearchTypeOK
  <2>2. (cursor' = {}) \in BOOLEAN
    OBVIOUS
  <2> QED
    BY <1>1, <2>1, <2>2, Zenon
<1>6. /\ \A i \in steady : ShownTwice(i) => ShownTwice(i)'
      /\ \A i \in steady : Missed(i) => Missed(i)'
      /\ \A k, j, h, l : UpTo(k, j, h, l)' <=> UpTo(k, j, h, l)
      /\ \A k : CursorValue(k)' = CursorValue(k)
  BY <1>1 DEF ShownTwice, Missed, UpTo, CursorValue
<1>7. \A i \in steady' : items'[i].active
  BY <1>1 DEF SearchInv
<1>8. CASE cursor' = {} /\ used' = used /\ (limit > 0 => page = Found)
  <2>1. SearchTypeOK' /\ UsedInv' /\ CursorInv'
    BY <1>1, <1>4, <1>5, <1>6, <1>8 DEF SearchTypeOK, UsedInv, CursorInv
  <2>2. ASSUME limit > 0, NEW i \in steady
        PROVE  /\ shown'[i] > 1 => ShownTwice(i)
               /\ shown'[i] = 0 => Missed(i)
    <3>1. i \in ItemIds /\ shown[i] \in Nat
      BY <2>2 DEF SearchTypeOK
    <3>2. /\ i \in Found /\ shown[i] > 0 => ShownTwice(i)
          /\ i \notin Found /\ shown[i] = 0 => Missed(i)
          /\ shown[i] > 1 => ShownTwice(i)
      BY <1>2, <2>2, PageExact
    <3> QED
      BY <1>2, <1>8, <2>2, <3>1, <3>2
  <2>3. ShownInv'
    BY <1>1, <1>6, <1>8, <2>2 DEF ShownInv
  <2> QED
    BY <1>7, <2>1, <2>3 DEF SearchInv
<1>9. ASSUME NEW last \in page,
             cursor' = {[v |-> CursorValue(items[last].key), id |-> last]},
             used' = used \cup {[v |-> CursorValue(items[last].key),
                                 key |-> items[last].key]},
             \A i \in page \ {last} : Precedes(i, last),
             \A i \in Found \ page : Precedes(last, i)
      PROVE  SearchInv'
  <2> DEFINE c == [v |-> CursorValue(items[last].key), id |-> last]
             u == [v |-> CursorValue(items[last].key), key |-> items[last].key]
  <2>1. /\ last \in ItemIds /\ c \in [v : Int, id : ItemIds]
        /\ u \in [v : Int, key : 0 .. NullKey]
    BY <1>3, <1>9
  <2>2. SearchTypeOK'
    BY <1>1, <1>4, <1>5, <1>9, <2>1 DEF SearchTypeOK
  <2>3. UsedInv'
    BY <1>1, <1>6, <1>9 DEF UsedInv
  <2>4. CursorInv'
    BY <1>5, <1>9 DEF CursorInv
  <2>5. ASSUME limit > 0, NEW i \in steady
        PROVE  LET k == items[i].key
               IN /\ shown'[i] > 1 => ShownTwice(i)
                  /\ shown'[i] > 0 => UpTo(k, i, items[last].key, last) \/ ShownTwice(i)
                  /\ UpTo(k, i, items[last].key, last) => shown'[i] > 0 \/ Missed(i)
    <3>1. i \in ItemIds /\ shown[i] \in Nat
      BY <2>5 DEF SearchTypeOK
    <3>2. /\ i \in Found /\ shown[i] > 0 => ShownTwice(i)
          /\ i \notin Found /\ shown[i] = 0 => Missed(i)
          /\ shown[i] > 1 => ShownTwice(i)
          /\ i \notin Found /\ items[i].key = NullKey /\ shown[i] > 0 => ShownTwice(i)
      BY <1>2, <2>5, PageExact
    <3>3. CASE i \in page
      <4>1. UpTo(items[i].key, i, items[last].key, last)
        <5>1. CASE i = last
          BY <3>1, <5>1, i \in Int, SearchNumbers DEF UpTo
        <5>2. CASE i # last
          BY <1>9, <3>1, <3>3, <5>2, <2>1, PrecedesUpTo
        <5> QED
          BY <5>1, <5>2
      <4> QED
        BY <1>2, <3>1, <3>2, <3>3, <4>1
    <3>4. CASE i \in Found \ page
      <4>1. ~UpTo(items[i].key, i, items[last].key, last)
        BY <1>9, <3>1, <3>4, <2>1, PrecedesUpTo
      <4> QED
        BY <1>2, <3>1, <3>2, <3>4, <4>1
    <3>5. CASE i \notin Found
      <4>1. items[i].key = NullKey \/ UpTo(items[i].key, i, items[last].key, last)
        <5>1. items[i].active
          BY <2>5 DEF SearchInv
        <5>2. PICK d \in cursor : ~Beyond(i, d)
          BY <3>1, <3>5, <5>1 DEF Found
        <5>3. Beyond(last, d)
          BY <5>2 DEF Found
        <5> QED
          BY <2>1, <3>1, <5>2, <5>3, LeftOutUpTo
      <4>2. i \notin page /\ shown'[i] = shown[i]
        BY <1>1, <1>2, <3>1, <3>5
      <4> QED
        BY <3>1, <3>2, <3>5, <4>1, <4>2
    <3> QED
      BY <3>3, <3>4, <3>5
  <2>6. ShownInv'
    <3>1. ~pages'.over
      BY <1>5, <1>9
    <3>2. ASSUME limit > 0, NEW d, NEW w, d.id = last, w.key = items[last].key
          PROVE  ExactUpTo(d, w)'
      <4>1. ASSUME NEW i \in steady'
            PROVE  /\ shown'[i] > 1 => ShownTwice(i)'
                   /\ shown'[i] > 0 => UpTo(items[i].key, i, w.key, d.id) \/ ShownTwice(i)'
                   /\ UpTo(items[i].key, i, w.key, d.id) => shown'[i] > 0 \/ Missed(i)'
        BY <1>1, <1>6, <2>5, <3>2, <4>1
      <4>2. items' = items /\ sort' = sort
        BY <1>1
      <4> QED
        BY <4>1, <4>2 DEF ExactUpTo, UpTo
    <3>4. limit' = limit /\ cursor' = {c} /\ u \in used' /\ u.v = c.v
      BY <1>1, <1>9
    <3> QED
      BY <1>1, <3>1, <3>2, <3>4 DEF ShownInv
  <2> QED
    BY <1>7, <2>2, <2>3, <2>4, <2>6 DEF SearchInv
<1> QED
  BY <1>1, <1>8, <1>9

LEMMA ChangeItemStep ==
  ASSUME SearchAssumption, SearchInv, NEW j \in ItemIds, ChangeItem(j)
  PROVE  SearchInv'
<1> SearchTypeOK /\ UsedInv /\ CursorInv /\ ShownInv
  BY DEF SearchInv
<1>1. /\ UNCHANGED <<sort, limit, cursor, used, shown, pages>>
      /\ steady' = steady \ {j} /\ ~pages.over
  BY DEF ChangeItem
<1>2. /\ items' \in [ItemIds -> [key : 0 .. NullKey, active : BOOLEAN]]
      /\ \A i \in ItemIds \ {j} : items'[i] = items[i]
      /\ items'[j].key # items[j].key => items'[j].key # NullKey
  <2>1. CASE items' = [items EXCEPT ![j].active = ~@]
    BY <2>1 DEF SearchTypeOK
  <2>2. ASSUME NEW k \in SortKeys \ {NullKey}, items' = [items EXCEPT ![j].key = k]
        PROVE  /\ items' \in [ItemIds -> [key : 0 .. NullKey, active : BOOLEAN]]
               /\ \A i \in ItemIds \ {j} : items'[i] = items[i]
               /\ items'[j].key # items[j].key => items'[j].key # NullKey
    BY <2>2 DEF SearchTypeOK, SearchAssumption
  <2> QED
    BY <2>1, <2>2 DEF ChangeItem
<1>3. SearchTypeOK' /\ CursorInv'
  BY <1>1, <1>2 DEF SearchTypeOK, CursorInv
<1>4. UsedInv'
  BY <1>1, <1>2 DEF UsedInv, CursorValue
<1>5. \A i \in steady' : /\ i \in steady /\ items'[i] = items[i]
                         /\ ShownTwice(i)' <=> ShownTwice(i)
                         /\ Missed(i)' <=> Missed(i)
  BY <1>1, <1>2 DEF SearchTypeOK, ShownTwice, Missed
<1>6. \A k, i, h, l : UpTo(k, i, h, l)' <=> UpTo(k, i, h, l)
  BY <1>1 DEF UpTo
<1>7. \A c, u : ExactUpTo(c, u) => ExactUpTo(c, u)'
  BY <1>1, <1>5, <1>6 DEF ExactUpTo
<1>8. ShownInv'
  BY <1>1, <1>7 DEF ShownInv
<1>9. \A i \in steady' : items'[i].active
  BY <1>5 DEF SearchInv
<1> QED
  BY <1>3, <1>4, <1>8, <1>9 DEF SearchInv

\* The property of the pages, for every value of the constants.
THEOREM SearchCorrect == SearchSpec => [](SearchInv /\ PagesExact)
<1> USE SearchAssumption
<1>1. SearchInit => SearchInv
  <2> SUFFICES ASSUME SearchInit PROVE SearchInv
    OBVIOUS
  <2>1. SearchTypeOK
    <3>1. items \in [ItemIds -> [key : 0 .. NullKey, active : BOOLEAN]]
      BY DEF SearchInit, SearchAssumption
    <3> QED
      BY <3>1 DEF SearchInit, SearchAssumption, SearchTypeOK
  <2>2. UsedInv /\ CursorInv /\ ShownInv
    BY DEF SearchInit, UsedInv, CursorInv, ShownInv
  <2>3. \A i \in steady : items[i].active
    BY DEF SearchInit
  <2> QED
    BY <2>1, <2>2, <2>3 DEF SearchInv
<1>2. SearchInv /\ [SearchNext]_searchVars => SearchInv'
  <2> SUFFICES ASSUME SearchInv, [SearchNext]_searchVars PROVE SearchInv'
    OBVIOUS
  <2>1. CASE UNCHANGED searchVars
    BY <2>1 DEF searchVars, SearchInv, SearchTypeOK, UsedInv, CursorInv, ShownInv,
                ExactUpTo, UpTo, ShownTwice, Missed, CursorValue
  <2> QED
    BY <2>1, AskPageStep, ChangeItemStep DEF SearchNext
<1>3. SearchInv => PagesExact
  <2> SUFFICES ASSUME SearchInv, limit > 0, NEW i \in steady
               PROVE  /\ shown[i] > 1 => ShownTwice(i)
                      /\ pages.over /\ shown[i] = 0 => Missed(i)
    BY DEF PagesExact, ShownTwice, Missed
  <2>1. CASE pages.over
    BY <2>1 DEF SearchInv, ShownInv
  <2>2. ASSUME NEW c \in cursor PROVE shown[i] > 1 => ShownTwice(i)
    BY <2>2 DEF SearchInv, ShownInv, ExactUpTo
  <2>3. CASE cursor = {} /\ ~pages.over
    BY <2>3 DEF SearchInv, CursorInv, SearchTypeOK
  <2> QED
    BY <2>1, <2>2, <2>3
<1> QED
  BY <1>1, <1>2, <1>3, PTL DEF SearchSpec

=============================================================================
