# Atlas platform services: specifications, model checking, proofs

This directory holds a TLA+ verification development of the Django services in
`src/`. It models the parts of the platform where several actors share rows,
caches, objects or channels without locks (requests, Celery deliveries, signals,
periodic tasks, WebSocket consumers, event streams), checks them with TLC on small
instances, and proves most of their safety properties with TLAPS for every value of
the constants.

- `<Component>.tla`: state, one action per handler or step, and the properties;
- `MC<Component>.tla` and `*.cfg`: the bounds of the model-checking runs;
- `<Component>_proofs.tla`: theorems with their proofs;
- `PROJECT.json`: components, runs, map to the source lines, hazards, findings,
  theorems, and for each property a plausible bug that breaks it.

## 1. The system

A Django modular monolith: REST views, Celery workers (Redis broker), Channels
consumers, Postgres/PostGIS, an S3 store (SeaweedFS), Redis as cache and as event
channel, an LLM behind LangGraph, and a small service that runs code in
containers. What all models take from its configuration:

- **No request transaction.** `ATOMIC_REQUESTS` is off. A statement commits by
  itself unless a view says `transaction.atomic`; even then, what the view does
  to the object store and to the broker is neither rolled back nor delayed.
- **Early acknowledgement, at-least-once dispatch.** Tasks set no `acks_late`: a
  message is acknowledged when a worker takes it up, so a task whose process
  dies is lost. A message that sits unacknowledged longer than the Redis
  visibility timeout (prefetched or with a countdown) is delivered again, and
  then both deliveries run. There are two worker processes.
- **Column-wise and row-wise saves.** Most saves of tasks name `update_fields`;
  a `PATCH` through a generic view saves the whole row it read, and inserts it
  again if it was deleted meanwhile.
- **No compare-and-set.** Nothing in the modelled components uses
  `select_for_update` or a version column.

### Inventory

| Component | State | Operations | Hard behaviour | Correct when | Module |
|---|---|---|---|---|---|
| Processing jobs (`web_gis_app`) | job row, staging and output datasets, features, object, event stream | create, cancel, run the tool, report progress, publish the output | cancel against completion, redelivery, worker death at every statement, notification failure after publishing, user deletes staging or output meanwhile | a completed job has produced; a published output is whole; progress never goes back; a job settles | `ProcessingJob` |
| Tool registry and schemas (`web_gis_app`) | registry, parameters, payloads, work directory | submit, compose payloads, parse, run the operations, publish | four lists of fields that must agree, operations that rely on what earlier ones leave, tools chained without a look at types | a job of the form fails only for its data; an output is what the registry promises | `ToolPipeline` |
| Workflow runs (`web_gis_app`) | run row, node rows, jobs of nodes | save a definition, submit, cancel, execute the graph, skip | repeated edges, redelivery, cancel during a node, workflow deleted under the executor, datasets deleted between nodes | what is saved is sorted; nodes run after their inputs; run and nodes agree; a run settles | `WorkflowDefinition`, `WorkflowRun`, `DagExecution` |
| Dataset upload and tiling (`web_gis_app`) | dataset and tileset rows, multipart upload, objects | upload, complete, abort, delete, convert, retry | message before commit, repeated completion, abort racing completion, retries, deletion during a conversion | served files exist; abort is final; a status has an owner; conversion ends | `TileUpload` |
| Dataset tree (`web_gis_app`) | parent column, closure table, files | create, move, delete a folder | a move in many statements, cycles, deletion by stale rows | closure equals ancestry; deletion removes exactly the subtree | `DatasetTree` |
| Layers and tiles (`web_gis_app`) | dataset, features, tileset, metadata, layers | create by the agent or the user, restyle, convert, delete | a style chosen once against metadata written later; a layer made in many statements | a layer has its data; style and tiles agree | `MapLayers` |
| Agent chat turns (`agent_manager`) | message rows, graph state, checkpoint | answer, stream, save partially, time out, clean up, compact | overlapping turns on one checkpoint, a save handed to a thread outlives its coroutine, dead consumers, a history cut by count | what is saved follows the stream; settled answers stay; nothing stays pending; the models see the question | `ChatTurn`, `HistoryCompaction` |
| Agent tools and code service (`agent_manager`, `sandbox`) | job table in memory, container, output files | submit, poll, fetch a file, make a layer, delete | two clocks, results forgotten by a restart, deletion with the first layer | what the tool says is what became of the run | `SandboxJob` |
| Documents (`shared/rag`) | document row, chunks, object | upload, process, retry, patch, delete, search | retry after success, redelivery, whole-row save, deletion during processing | a search returns whole documents, once | `DocumentIngest`, `ObjectStorage` |
| Inventory (`dead_stock_app`) | item, images, positions, primary flag, variants, objects | confirm, patch, reorder, delete, refresh, destroy; variants task; sweep; CSV import | check-then-act on positions and primary, task against deletion, sweep against refresh, rows validated long before they are saved | one primary image for serial use; ready means variants written; an import is whole or nothing | `Inventory`, `BulkUpload` |
| Search and nearby shops (`dead_stock_app`) | items, cursors, cached answers | search by keyset, nearby, save a shop | rounding and nulls in a cursor, items that move between pages, a stale answer kept after the invalidation | pages miss and repeat nothing; a change is seen | `SearchPaging`, `NearbyShops` |
| Notifications, leads, event stream (`shared`, `dead_stock_app`) | rows, Redis channel, subscription | send, post, subscribe, list, mark, patch, delete | publish without replay, subscriptions renewed unseen, late saves | who subscribes and then lists misses nothing | `EventStream` |
| To-do list (`todo_app`) | tasks, version and entries in Redis | change, list | version by GET and SET, eviction | a list shows what was over before it | `TodoCache` |
| Shop and cart (`ecommerce_app`) | cart, items, count | post, delete | check-then-create | one cart, counted, with what was asked for | `Cart` |
| Reports, login codes, accounts, workload, notes, expenses, blogs, weather, level-up, URL shortener, chat rooms, device classifier, Kubernetes jobs, settings | single rows or none | CRUD, stateless calls, numerical code | none, or in a library | | not modelled (section 8) |

### Interactions

- A view inserts a row, then calls `.delay()`, then saves the task id: the three
  are separate steps, and the worker may run in between.
- A workflow run executes `execute_processing_job` inline for each node.
  `WorkflowRun` takes that call as one step with the outcomes `ProcessingJob`
  shows it to have (completed; failed by the operation; completed, then failed by
  its notification); what a definition must satisfy to get there is
  `WorkflowDefinition`, what its tools accept is `ToolPipeline`.
- Saving a `Dataset` with status uploaded fires a `post_save` signal that sends
  the conversion message, inside the transaction of the view if it has one. The
  conversion writes the tileset and then the metadata; `MapLayers` takes these two
  statements from it, and a dataset from `create_gis_layer` of the agent.
- Saving a `DatasetNode` fires the signal that maintains the closure table;
  deletion reads that table to know which files to remove.
- The chat consumer streams from the graph and saves through one thread per
  consumer; beat runs a cleanup of pending answers every five minutes. The GIS
  expert of the graph calls `run_python` and `create_gis_layer`, whose state is in
  `SandboxJob`, and searches documents (`DocumentIngest`, `Retrievable`).
- Every task sends notifications by a row and a message on a Redis channel.
  Sending may raise, and the models let it: where that lands in a `try` decides
  the final status. What becomes of the message is `EventStream`.

The hazards of the code, each at its line with the properties that would catch
it, are in `PROJECT.json` under `hazards`.

## 2. Modules and how they correspond to the code

`PROJECT.json` maps each definition to the lines it stands for. In all modules a
program counter per actor holds the *next* statement, an action ends at each
point where another actor can see or disturb the state (a committed statement, a
call of the store, of the broker, of Redis, or of the notification transport), and
code between two such points is part of the same action. Definitions marked
*Mutant* are the bugs the properties are tested against (section 5); no action
uses them.

**ProcessingJob.** Actors: the creating request, cancelling requests, deliveries
of `run_processing_tool`, and the user. `CreateRequest` is `Delay`, `SaveTaskId`,
`LoseCreate` (`processing_views.py`); a cancellation reads, revokes and saves
(`ReadJob`, `Revoke`, `SaveCancelled`), and its revoke may stop a delivery
(`Terminate`) at any label, or be too late. `WorkerStep` follows
`execute_processing_job`: `Start`, `ReportStart`, `BeginOp`, `Report`,
`InsertFeatures` or `UploadRaster`, `FinishOp`, `CreateOutputDataset` (one
transaction), `Complete`, `Announce`; an exception goes to `Raise`, `Fail`,
`ReportFail`. The reporter's throttle is kept (`Passes`). What a tool computes is
"the features of the delivery" and where they are: nowhere, in the staging
dataset, in the output, or withdrawn by the user.

**ToolPipeline.** One submission after the other on a library of datasets. A
request comes from the toolbox (the fields of the form), from a client (any
parameters), or from a workflow node (any dataset). `Submit`, `Load`, `Compose`,
`RunOperation` and `CreateOutput` are the places that must agree on a tool: what the
parameters model takes, the payload of each operation, its strict parsing (`Parses`),
and what an operation finds in the work directory, in `ctx` and in the store. The
library grows by what a job publishes, so that a tool runs on the output of
another. A dataset is its kind, its bands, whether its metadata is known, whether
it has features and an object.

**WorkflowDefinition** is `validate_definition` and `_topological_sort`, one step
per turn of their loops. **WorkflowRun** composes jobs into a graph execution.
Nodes are numbered in the order of the sort, so `edges` goes upwards; the initial
states range over every such graph and every choice of source nodes. `Upsert`,
`MarkSkipped`, `MarkRunning`, `ExecSource`, `CreateJob`, `JobCompletes`,
`JobFails`, `Finish` follow `dag_executor.py`. The user deletes datasets, cancels
jobs of nodes, deletes the workflow (`UserStep`). **DagExecution** is the promise:
a node runs only when all its inputs completed, ends once, and is skipped only if
some node failed. `ImplementsDag` is the refinement, under the mapping `D` of node
rows to node states.

**TileUpload.** `req` says where each request is, `lock` which uncommitted
transaction has written the dataset row; a worker reads only committed state.
Upload in one request (`PutObject`, `SaveCreated`, `Commit`) or in parts
(`CompleteUpload`, `LookUp`, `SaveUploaded`), `AbortUpload`, `Destroy`; the signal
is `Triggers`/`Send`; `generate_cog_task` is `Start`, `Upsert`, `Download`,
`Convert`, `Publish`, `SaveMetadata`, `Notify`, with `Fail` and `Retry`.

**DatasetTree.** `closure` is the table as triples. A move is `SaveParent`,
`DeleteRows`, `CreateRows`, then one `Descend` per descendant; `Accepted` is the
unique constraint with the foreign keys, and what it refuses raises and leaves
the rest undone. `Destroy` commits, `RemoveFiles` follows the closure rows.
`Above(parent, n)`, what the parent column leads to from `n`, is the least set of
nodes that has `n` and is closed under the column: that says what an ancestor is
on a cycle too, and a proof can use it without an induction.

**ChatTurn.** Per turn: the consumer (`pc`), the graph run (`node`, `route`,
`state`), what was streamed and saved. `ckpt` is the checkpoint all turns of the
session share. `handed` is the save waiting in the consumer's thread: it is
executed even if the coroutine was cancelled. `Cleanup` is the periodic task,
`Tick` its clock. **HistoryCompaction** has the messages of a session as a growing
sequence of which the state holds a suffix: `Ask` appends the question, `Compact`
is `compaction_node` with a summarizer that fails, answers, or answers nothing,
`CallExpert` one response with its tool calls, `JoinExpert` the append of what the
expert added; `TrimMessages` is where the slice that a model sees begins.

**Inventory.** A request keeps in `local` what it read and decided. Confirm:
`Demote`, `Place`, `Insert`, `Delay`; patch: `ApplyPatch`; reorder: the two phases
in one transaction (`ApplyReorder`); delete: `DeleteObject`, `DeleteRow`,
`Promote`; also edit, refresh and destroy of the item. The variants task is
`Load`, `WriteVariant` per size, `SaveReady`, with retries; the sweep is a select
and an update (`SweepSelect`, `SweepHide`). `overlap` is a history variable that
tells whether two requests were ever open at once: some properties are promised
by this code only for serial use, and say so. **BulkUpload** is the CSV import:
`CategoryLookup` once, `ReadRow` per line with the reader's numbering, `SaveRow` in
the open transaction, `CommitRows`, while the category or the shop is deleted.

The services below share nothing but the bucket and Redis; each has a specification
of its own, and `MCServices` checks them side by side.

- **DocumentIngest**: `InsertDocument`, `UploadFile`, `SavePath`, `SendMessage`
  (POST), `DeleteChunks`, `DeleteDocument`, `DeleteFile` (DELETE), `ReadForPatch`
  and `SavePatch`; the task is `LoadDocument` to `NotifyProcessed`, then
  `FailDocument` and `RetryDocument`. `Retrievable` is what a search may return.
  **ObjectStorage** gives the results of the storage's calls.
- **SandboxJob**: `Execute`, `StartContainer`, `WriteOutput`, `EndRun`, `StopRun`
  (server.py), `Poll` and `Verdict` (run_python), `FetchOutput`, `MakeLayer`,
  `DeleteResult` (create_gis_layer), and a clock.
- **MapLayers**: `InsertNode` to `NotifyLayer` follow the statements of
  create_gis_layer; `PublishTiles` and `WriteMetadata` are the conversion's;
  `PostLayer`, `RestyleLayer`, `PointLayerHere`, `DeleteLayer`, `DeleteSource` are
  the user's. `TerrainTile` and `VectorTile` are what the tile views decide.
- **SearchPaging**: `AskPage` is `build_search_qs` with a cursor, `Precedes` its
  order, `Beyond` its filter, `CursorValue` what a cursor holds of a key. A page is
  the set of the first `limit` items found; the order within it shows only in
  which item is the last.
- **NearbyShops**: a save is `CheckShop`, `SaveShop`, and the two Redis commands of
  the invalidation; a question is a look into the cache, a read of the table, and
  the write of the cache. **TodoCache**: a change is the commit, `GetForIncrement`,
  `SetIncremented`; a list is `GetVersion`, `SetFirstVersion`, `LookUpList`,
  `ReadTasks`, `StoreList`.
- **Cart**: `FindCart`, `CreateCart`, `AddItem` (with the counting signal, in one
  transaction), `SaveCart`, `AnswerFound`.
- **EventStream**: a sender inserts and then publishes; `Deliver` reaches who is
  subscribed. The client opens its stream, receives, lists, marks, patches,
  deletes; Redis drops the subscription and takes it again.

Abstractions common to all modules: names, geometry, pixel data, message texts
and embeddings are left out; statements of the database succeed, except where a
module says that they may fail and the insertions a constraint refuses;
authorisation is left out.

## 3. The runs

| Run | Instance | Shows |
|---|---|---|
| `ProcessingJob` | vector or raster tool, 2 deliveries, 1 cancellation, reports at 10 and 90 % | `CompletedMeansProduced`, `PublishedWhole`, `StuckOnlyIfKilled`, `OutputMatchesJob`, `ProgressNeverBack`, `JobSettles` under redelivery, crashes, deletions |
| `Definitions` | every list of up to 4 edges on 3 nodes, faulty nodes; every tool on a library of 7 datasets, 2 jobs in a row | a saved definition has an order (`SavedIsSorted`); a job of the form fails only for its data, its output is what the registry promises, elevation tools read elevation |
| `WorkflowRunNodes` | every graph of 3 nodes, 1 delivery, 1 cancellation | the executor implements `DagExecution`; `RunMatchesNodes`; a node blames its input only if the user removed it |
| `WorkflowRunRepeated` | every graph of 2 nodes, 2 deliveries, 1 cancellation | a run is orphaned only by a kill or a lost message; every other run settles |
| `TileUpload` | both kinds of upload, 2 completions, abort, destroy, 2 deliveries, 1 retry | served files exist, abort is final, a tileset processing or failed has an owner or a reason, a missing one has a reason, conversion ends |
| `DatasetTree` | 3 folders and 1 dataset, 1 move at a time | the closure is exact below a root, deletion is exact there, the rebuild ends even on cycles |
| `ChatTurn` | 2 turns, 2 chunks, save every 2 | `SavedFollowsStream`, `TurnKnowsItsExperts` (each responder knows which experts ran for its own question, and an action comes from them), `SettledStays`, `PendingEnds` |
| `Inventory` | 2 requests on an item with at most 1 image, 2 keys, 2 sizes, 1 retry | serial use keeps one primary and never has a confirmation refused; ready means written and unready has a reason; originals kept |
| `Services` | ten small instances side by side (below) | one property for each service |
| `TileUploadUntiled`, `DatasetTreeFiles`, `InventorySweep` | smallest instance of each | the three divergences of section 6 |

`Services` checks the modules that share nothing but the bucket and Redis. Its
variable `part` says which module the behaviour is about; the others stand still
in one initial state, so the states add up (2.1 million) instead of multiplying.

| Part | Property | Instance |
|---|---|---|
| document | `DocumentWholeOnce`: a search returns the whole document and, unless its task ran again, once; a deleted document leaves nothing behind that its deletion could know of | 2 deliveries, 1 retry, a DELETE and a PATCH |
| box | `AnswerMatchesRun`: what the tool tells the agent is what became of the run | deadlines of 3 and 5 intervals, start delay up to 1, 2 files |
| map | `LayerShowsItsData`: a layer of the agent has its object and features, and a style chosen from known metadata is the one the tiles are encoded for | geojson of every kind, GeoPackage, rasters of 1 to 5 bands, 2 owners |
| search | `PagesExact`: an item that stays as it is is shown exactly once, but for the rounding and the nulls of the cursor | 3 items, 5 keys, grain 3, 4 pages, 2 changes |
| nearby | `NearbyStaleForAReason`: an answer shows every change that was over, unless it was put into the cache after the invalidation it raced | 2 creations, 1 change, 2 buyers |
| todo | `TodoFreshAfterChange`: a list shows every change that was over, until the version goes back | 3 changes, 2 lists |
| cart | `CartKept`: one cart, with the item of the request that made it, counted | 3 requests of up to 2 items, 1 deletion |
| chat | `ContextKeepsTurn`: a model sees the question of its turn and each tool answer with its call; what it does not see is summarised or still there | thresholds 4, 4, 2 for 20, 20, 6; 2 rounds of up to 2 calls |
| events | `EventsReachClient`: who subscribes and then lists misses nothing while the subscription holds; no lead is announced that is not there; what was marked seen stays seen but for a PATCH | 1 notification, 2 leads, an inbox of 1 |
| import | `BulkUploadWhole`: all rows or none, whatever fails; reported rows are the faulty ones | up to 4 lines of 5 kinds, limit 3 |

### Bounds

- *Deliveries.* One message is sent; a second delivery is the redelivery. What a
  delivery does to another goes through the shared rows alone, so two are enough
  for one to run at any point of the other. Properties the code keeps only for
  one delivery say so (`DeliveredOnce` in `OutputMatchesJob`, since deliveries share
  the object key, and in `ProgressNeverBack`) or are checked with one
  (`RunMatchesNodes`).
- *Graphs.* Three nodes are the smallest with a diamond's halves, a chain, and a
  node skipped through another; the initial states hold them all. Four edges on
  three nodes include repeated edges, self-loops, and all cycles.
- *Library* (`Uploaded`, `MaxJobs = 2`). A dataset of each kind a tool may meet: with
  and without features, of another user, one and three bands, metadata not yet
  known, a document; the second job may take the output of the first.
- *Retries.* `MAX_RETRIES = 1` and `DocumentRetries = 1` (2 and 3 in the code) have a
  first, a repeated and a given-up attempt.
- *Tree.* Four nodes are the smallest in which a folder moves below its own
  grandchild with a dataset at the end. Two moves at once interleave their
  statements and may leave the closure inexact; `ClosureExact` is a promise for
  one move at a time, and hazards list the other case.
- *Chunks.* Two chunks and an interval of two: one below the interval and one at
  it. `MaxChunks` caps `chunks`, whose extra unit is the final text.
- *Clocks.* `GRAPH_TURN_TIMEOUT = 0` and `STALE_PENDING_THRESHOLD = 1` keep their
  order (180 s and 600 s); `age` stops counting once it is past the threshold.
  `ExecutionTimeout = 3` and `MaxPolls = 5` keep that of 120 s and 150 s;
  `StartLimit` says by how much the container may start late, and `BudgetAssumption`
  that the budget of the tool covers it; `ClockLimit` is beyond both.
- *Inventory.* `OFFSET = 2` stands for 1000, and a `PATCH` may ask exactly for
  that position, where a reordering parks its rows.
- *Search.* Three items on two pages of one, with a third page for what was moved;
  the keys lie below, at and above a multiple of the grain. `EditLimit` counts the
  items changed meanwhile. `NullKey = 1000`, the price that is not there, is above
  every other key, as in an ascending `ORDER BY`.
- *Caches.* Three changes: the version goes back only when one change is overtaken by
  two. A behaviour is not followed beyond that (`setBack`): every later list may
  then be old for as long as an entry lives.
- *History.* `HistoryLimit = 10` begins no turn after so many messages, which is two
  compactions; `MaxIterations = 2` and `MaxCalls = 2` make one turn longer than what
  is kept. `ContextAssumption` states how the constants of the code are ordered.
- *Events.* `StreamLimit` counts openings and drops; `InboxLimit = 1` (100) has an older
  lead outside the inbox.
- *Import.* Four lines hold a row beyond the limit of three, and an empty or blank
  line before a faulty one.

Deadlock is not checked where the actors may stop for good (all of these: a
finished job, run, upload or turn has no step left); the liveness properties say
what must have happened before that.

Symmetry is used in `Inventory` only, which checks invariants alone; liveness
runs use none.

### Fairness

Weak fairness of what the platform runs by itself, never of the user, of a
failure, of a redelivery, or of a crash:

- a request that started goes on to its end or is lost; a worker takes what is
  queued and goes on (`WorkerStep`) until it ends or is killed: Celery has idle
  workers and no step of the modelled tasks waits for another;
- a transaction that wrote commits or is lost (Postgres holds no other lock);
- a moving request finishes its statements;
- the consumer goes on, the clock ticks, and beat runs the cleanup.

The liveness properties name the losses the platform does not repair
(`view = "lost"`, `Killed`), since the code has no watchdog for jobs and runs. The
services of `Services` are checked for safety only: none of them promises to end
anything (a document whose worker dies stays processing).

## 4. Proofs

Eight modules hold theorems. Each states a property that a run checks on a small
instance, for every value of the constants: any number of deliveries, requests,
turns, readers, files or rows, any graph, any retries, limits and thresholds that
meet the named assumptions.

| Module | Theorem | Statement |
|---|---|---|
| `ProcessingJob_proofs` | `TypeCorrect`, `IInvCorrect`, `OnceInvCorrect` | `TypeOK`, `IInv` and `OnceInv` always hold |
| | `CompletedCorrect`, `PublishedCorrect`, `StuckCorrect` | `Spec => []CompletedMeansProduced`, `[]PublishedWhole`, `[]StuckOnlyIfKilled` |
| | `OutputMatchesCorrect` | `Spec => []OutputMatchesJob` |
| | `ProgressCorrect` | `Spec => ProgressNeverBack` (an action property) |
| `WorkflowRun_proofs` | `TypeCorrect`, `OnceInvCorrect` | `TypeOK`, `LocalInv`, `SettleInv` and `OnceInv` always hold |
| | `OrphanedCorrect` | `Spec => []OrphanedOnlyIfKilled` |
| | `NodesCorrect`, `InputFailureCorrect` | `Spec => [](DeliveredOnce => RunMatchesNodes)`, and the same of `InputFailureIsTheUsers` |
| | `DagCorrect` | `Spec /\ []DeliveredOnce => ImplementsDag` (refinement) |
| `TileUpload_proofs` | `IInvCorrect` | the inductive invariant |
| | `ServedCorrect`, `AbortCorrect`, `OwnedCorrect`, `UntiledCorrect` | `Spec => []ServedFilesExist`, `[]AbortIsFinal`, `[]StatusIsOwned`, `[]UntiledForAReason` |
| `ChatTurn_proofs` | `IInvCorrect` | the inductive invariant |
| | `ExpertsCorrect`, `SavedCorrect` | `Spec => []TurnKnowsItsExperts`, `[]SavedFollowsStream` |
| | `SettledCorrect` | `Spec => SettledStays` (an action property) |
| `DatasetTree_proofs` | `TreeInvCorrect` | `Spec /\ []OneAtATime => []TreeInv`, the inductive invariant |
| | `ClosureCorrect` | `Spec /\ []OneAtATime => []ClosureExact` |
| | `DestroyCorrect` | `Spec /\ []OneAtATime => DestroyIsExact` (an action property) |
| `Inventory_proofs` | `InventoryInvCorrect` | the inductive invariant |
| | `SerialCorrect`, `VariantsCorrect`, `OriginalCorrect` | `Spec => []SerialRequestsSound`, `[]VariantsReadyWhenWritten`, `[]OriginalKept` |
| `Definitions_proofs` | `DefinitionInvCorrect`, `SavedCorrect` | the inductive invariant; `DefSpec => []SavedIsSorted` |
| | `ToolInvCorrect` | the inductive invariant of ToolPipeline |
| | `AcceptedCorrect`, `OutputCorrect`, `ElevationCorrect` | `ToolSpec => []AcceptedJobRuns`, `[]OutputAsPromised`, `[]DemToolsReadElevation` |
| `Services_proofs` | `NearbyCorrect`, `BoxCorrect`, `TodoCorrect`, `EventsCorrect`, `CartCorrect`, `BulkCorrect`, `MapCorrect`, `HistoryCorrect`, `SearchCorrect` | the property of each service, under its own specification |
| | `DocInvCorrect`, `WholeOnceCorrect` | the inductive invariant of DocumentIngest; `DocSpec => []DocumentWholeOnce` |

The specifications of the services (`NearbySpec`, `BoxSpec`, `TodoSpec`,
`EventsSpec`, `CartSpec`, `BulkSpec`, `MapSpec`, `HistorySpec`, `SearchSpec`,
`DocSpec`) are those
whose initial states and steps `MCServices` puts side by side for TLC: each of its
behaviours is a behaviour of one of them in which the other services stand still.
`DefSpec` and `ToolSpec` are to `MCDefinitions` what they are to `MCServices`.

### Assumptions

Each is named in the module that declares the constants, and TLC evaluates it in
the run of that module.

- `DeliveriesAssumption`, `ProgressAssumption` (ProcessingJob): reports are below
  100 %, the throttle is positive.
- `NAssumption`, `RetriesAssumption`, `DocumentRetriesAssumption`,
  `ChangesAssumption`, `CsvAssumption`: numbers are natural.
- `CompletesAssumption` (TileUpload), `InboxAssumption` (EventStream): names of
  different things differ.
- `IntervalAssumption`, `TimeoutAssumption` (ChatTurn): the interval of the saves is
  positive; a turn times out (180 s) before its row counts as stale (600 s). Without
  the second the cleanup could fail a turn whose answer is about to be saved.
- `TreeAssumption` (DatasetTree): ids are numbers, there are finitely many (as many
  as were ever given out), and the null of the parent column is none of them.
- `SearchAssumption` (SearchPaging): ids and keys are numbers, the items are finitely
  many, and null is the greatest key and not 0.
- `BudgetAssumption` (SandboxJob): the tool waits longer (150 s) than a run may take
  (120 s) and its container may take to start.
- `ContextAssumption` (HistoryCompaction): 6 kept messages, a threshold of 20 and a
  context of 20 are so ordered, and at least one message is kept.
- `InventoryAssumption`: the item has finitely many images, and their names are not
  those of requests.
- `DefinitionsAssumption` (WorkflowDefinition): nodes and edges are lists, and every
  node has a type.
- `UploadedAssumption` (ToolPipeline): the file of an uploaded raster has bands, and the
  number in the metadata, when it is there, was read from the file.
- `MapAssumption`: a file that `create_gis_layer` is given with the extension
  `.geojson` is a vector (the tool chooses the type by the extension), bands are
  natural numbers, and the agent is one of the owners.

`DeliveredOnce`, a hypothesis of some theorems, says that the message of a job or a
run was not redelivered. Two deliveries write the same rows without looking at each
other, and what it guards does not hold for them (the hazards say how). In
`ProcessingJob` it is part of the properties that the run checks; the run of
`RunMatchesNodes` has one delivery. `OneAtATime`, a hypothesis of the theorems about
the tree, says that no two moves run at once: they would read and write each
other's rows half-way, nothing in the code prevents it, and a node may be left
without the rows of the place where it is. TLC finds that with two requests in a few
steps. There is no bound on how many requests move
nodes one after the other; the run has one. The variables `overlap`, `setBack`, `gap` and
`emptied` play the same role inside the properties of their modules: they remember
that something happened that the code does not repair.

### The inductive invariants

No property is inductive alone. What each needs, and why:

- **ProcessingJob.** `IInv == TypeOK /\ OutputInv /\ CompletedMeansProduced /\
  SettleInv`. `OutputInv` ties a delivery's label to its output: none before its
  transaction, some after, and just before it the features are where the
  transaction will look. `SettleInv` says who owes an open job its terminal status:
  a delivery on its way, a killed one, or one that aborted before its `try`.
  `SoleDelivery` (for `OnceInv`) ties the row to the statement the one delivery is at:
  what it has reported, uploaded and committed.
- **WorkflowRun.** `LocalInv`: until a node fails, `node_outputs` has every node before
  the current one; afterwards none is executed. `SettleInv` as above.
  `SoleDelivery`: the nodes before the current one have ended, those after it are
  untouched, and the current one shows the statement that is next. From it
  `InputsAreAll`: as edges go upwards, `_resolve_inputs` finds every input while no
  node has failed. The refinement is proved step by step: a step of the executor
  that shows another status of a node is a `Run`, `Complete`, `Fail` or `Skip` of
  `DagExecution` (`DagStep`), and all others are stutters (`Stutter`).
- **TileUpload.** `RequestInv`: where each request can be, and that an upload in parts
  leaves nothing until its completion. `LockInv`: what the uncommitted transaction
  stands on. `WorkInv`: how far the deliveries are for the rows there are. `TileInv`:
  the tile file comes before the status that shows it. `OwnerInv`: who will write
  the next status of the tileset.
- **ChatTurn.** `AgentInv`: at each node of the graph run, what of the shared
  checkpoint is this turn's. `SaveInv`: a save is handed over at a multiple of the
  interval, its chunks are the last until it is executed, and it then finds the
  row pending, because the turn has timed out before the row can be stale. The
  arithmetic of multiples is a lemma of its own (`NextMultiple`).
- **DocumentIngest.** `PathInv`: the path is saved after the upload, so that no upload
  follows what read it. `ReadyInv`: whoever takes the document for ready comes
  after its chunks or after their deletion. `OnceInv`: chunks are there once, unless
  the task was repeated.
- **Inventory.** `LocalInv`, `FreshInv`, `KeyInv`, `VariantInv`: what a request or a task
  holds in its variables is what its next statement needs; a key that is about to be
  deleted is named by an image that goes. `SerialInv`, while no two requests were
  open at once: what the open request read of the primary image is still so, the
  position it found is the last, and the primary image is missing only while a
  request is about to mark one. `NextPositionIsLast` is the maximum of the
  positions.
- **WorkflowDefinition.** `CheckedInv`: the ids so far are those of valid nodes, each
  once. `DegreeInv`: the in-degree of a node is the number of edges that still hold
  it back (`OpenEdges`: the source is not popped, or the edge is about to be
  visited), and a node was queued exactly when none does; a visit takes one edge
  away. `OrderInv`: whoever was popped came after its sources. If the list ends with
  every node, a cycle would have a first node in it, with no source before
  (`LeastOf`); if it ends with fewer, the nodes left out hold each other back.
- **ToolPipeline.** `LeftInv`: after the first n operations of a tool, the work directory,
  `ctx` and the store hold what the next ones read; a case for each kind of tool
  (`VectorLeft`, `RasterLeft`, `ContourLeft`). `RequestInv`: what was accepted still has
  the type and the bands the form looked at. Two lemmas carry the agreement of the
  four lists: `PayloadModelIs` (an operation's payload has the parameters of its
  tool, and no others) and `BuiltParses` (the payload built for any tool has exactly
  the keys of its workflow, and each parses). `Genuine` is kept by every output, so
  the argument also holds for a tool that is fed the output of another.
- **DatasetTree.** `CleanExact`: a node that hangs from a root has its rows, unless
  the move still has to visit a node above it. So the rows may be wrong in the
  middle of a move, but only below what is on its list, and the list is empty at the
  end. `TodoApart` keeps the visits from undoing each other: no node of the list is
  above another, or none of them hangs from a root (a cycle was closed). A visit
  takes its rows from the parent, which is then exact (`ParentExact`), so the new
  rows are the ancestors of the node, one deeper (`RowsExact`); they are never refused
  below a root, and if they are refused, on a cycle, nothing that hangs from a root
  was on the list. When a node leaves the list its children are on it
  (`ChildBetween`: whatever is below the node is at or below one of them). The lemmas
  about `Above` carry the rest: a node below a root is not above its parent
  (`NotAboveParent`), and a column that changes elsewhere leads to the same
  (`AboveAgrees`).
- **Services.** `NearbyInv`: an answer has every change that was over, but for those
  its reader raced with. `BoxInv`: the entry follows the container, and `TimeInv`
  bounds how late a run can end. `TodoInv`: a list stored under a version lacks only
  changes that have moved the version on, or will (`Behind`); a version is at most
  one more than the number of changes that are over. `EventsInv`: every published
  event whose list was fetched is known, queued, or outside the inbox (`Reached`).
  `CartInv`: the one cart is that of some request, as far as it got. `BulkInv`: the
  number of a row counts the lines above it (`NumberInv`), every row read is valid
  or reported, and what is saved is the whole file. `MapInv`: how far the tool is,
  the row, the object and the features tell together. `HistoryInv`: the question is
  the last message of the state until the expert is done, what was removed is
  told, and between a call and its answer there are only answers to that call
  (`Answers`, kept by appending a round: `AnswersRound`). `SearchInv`: every cursor
  has the key it was written for; what comes up to that row was shown, and nothing
  after it, but for the items whose exception some cursor gave (`ExactUpTo`). Between
  two pages the value of the cursor may lie below the key (`BeyondTwice`: what is
  shown again lies between them) or above it (`NotBeyondMissed`: so does what is
  left out).

Every part was first checked by TLC as an invariant of the run of its module. In the
proofs there is one lemma per part, with one step per action; facts about what an
action does to a record, which several lemmas need, are lemmas of their own
(`TurnFields`, `LeaveIs`, `StyledIs`, `CompletedRow`).

### Only model-checked

The liveness properties (`JobSettles`, `RunSettles`, `ConversionEnds`, `MoveEnds`,
`PendingEnds`): reasoning with fairness and `ENABLED` is out of reach of the installed
provers. Every invariant and every action property that a run checks, and the
refinement, is a theorem, under the hypotheses named above.

## 5. What the properties are worth

Each property of a passing run is paired in `PROJECT.json` (`mutants`) with one
plausible bug in the code it is about: a dropped guard, a swallowed exception, a
check that is not repeated, a missing reset, a swapped order. With the bug in place
TLC finds the property violated under the same configuration. The mutated
operators stand right before the definition they vary, with a comment saying what
the bug is.

## 6. Where code and documentation disagree

Three runs expect a violation; each states what a docstring says.

1. `TileUploadUntiled`: `signals.py` sends the conversion message inside the
   transaction of the view. A worker that takes it up before the commit finds no
   dataset and returns without a retry; the raster is never tiled. The docstring
   promises to trigger the processing when a dataset was uploaded.
2. `DatasetTreeFiles`: no check refuses to move a folder below its own
   descendant. The parent is saved, the insertion of closure rows fails, and
   stale rows stay; deleting a former ancestor then removes files of datasets
   whose nodes stay. The docstring promises the deletion of the hierarchy.
3. `InventorySweep`: the sweep selects stale items and then hides them by primary
   key only, so an item refreshed or sold in between is hidden.

What the models showed besides, where nothing is promised in words. The
properties name each of these as an exception:

- *Tools* (`AcceptedJobRuns`, `OutputAsPromised`). The `workflow_path` of the
  hillshade tool contains a space (`tool_registry.py:348`), so its class cannot be
  loaded and every such job fails. A raster clip passes the parameters model with
  neither a clip dataset nor a geometry, and fails in its operation. A vector tool
  that a workflow feeds a raster completes with an empty output.
- *Documents* (`DocumentWholeOnce`). The notification stands inside the `try`: if it
  fails, a document that was ready is failed, processed again, and its chunks are
  there twice. A `PATCH` that read a document before it was processed or deleted
  writes the old status back, or the row.
- *Code runs* (`AnswerMatchesRun`). A container that cannot be started leaves its job
  pending for ever; deleting the job after the first layer takes the other files
  with it; nothing ever removes a result no layer was made of.
- *Layers* (`LayerShowsItsData`). A style chosen before the conversion wrote the
  metadata is never chosen again: a layer of elevation tiles is drawn as an image.
  A GeoPackage becomes a layer without features.
- *Search* (`PagesExact`). A cursor rounds the distance to millimetres and writes a
  price that is null as 0: items repeat or are missed.
- *Caches* (`NearbyStaleForAReason`, `TodoFreshAfterChange`). An answer read before a
  save may be cached after its invalidation, for up to a minute; the key leaves
  out the limit. Two overlapping changes of a to-do list do no harm although they
  write the same version, but a change overtaken by two others sets it back, and
  so does an eviction, which the cache is deployed to do
  (`k8s/platform/cache`, `allkeys-lru`).
- *Cart* (`CartKept`). A request that finds a cart adds nothing and answers "Products
  added to cart successfully"; of several items only the first is kept. Outside the
  model: `clear_product_cache` calls `delete` of the module `django.core.cache`,
  which has none, so that every save of a product raises after its commit.
- *Chat* (`ContextKeepsTurn`). Once there is a summary, a model sees it and the last
  six messages; up to fourteen more are in the state, but neither seen nor
  summarised, and after three rounds of tools the verifier does not see the
  question it is to verify. An empty summary replaces the one before it.
- *Events* (`EventsReachClient`). A subscription that Redis dropped may be taken again
  without the client's knowledge; an empty list of ids in the bulk request means
  all notifications.

## 7. Plan

Done, in order of importance: the processing job (with proofs), the workflow
run with its promise, its definition and its tools, upload and tiling, the tree,
chat turns and their history, inventory and its import, documents, code runs, map
layers, search, caches, cart, events.

Proved: all safety properties of all of these (section 4).

Next, models: concurrent moves in `DatasetTree`, as promises for what still holds
then, with theorems that need no `OneAtATime`; `MapLayers` for features the user
draws.

## 8. What is not modelled, and why

Single-row CRUD (notes, expenses, blogs, reports, categories, products), stateless
calls (weather, accounts, URL shortener), read-only aggregation (workload,
suggestions of a search), numerical code (the results of tools, device classifier,
rendering of tiles, similarity of embeddings), broadcast by a library (chat rooms),
the Kubernetes job back end (nothing in `src/` calls it), configuration, migrations
and admin registrations. They keep no state between steps that a second actor could
disturb, or their correctness is numerical. Login codes are left out because what
matters about them is secrecy. Inside the modelled components: presigned URLs, the
limit in the key of the nearby cache, `contacted_at` of a lead, the drawing of
single features, and what a language model answers.
