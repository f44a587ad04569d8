------------------------------ MODULE ChatTurn ------------------------------
(***************************************************************************)
(* The turns of one chat session: the WebSocket consumer that answers a    *)
(* message (agent_manager/consumers.py receive), the graph of agents it    *)
(* streams from (agents/agent_factory.py, agents/agent.py), and the        *)
(* periodic task that fails the answers left pending (tasks.py).           *)
(*                                                                         *)
(* Turns of one connection follow each other, turns of two connections to  *)
(* the session overlap: no lock is taken (consumers.py:171 is a comment).  *)
(* A graph run keeps its state in memory and writes it to the session's    *)
(* checkpoint after each step; a run starts from the last checkpoint.      *)
(*                                                                         *)
(* Messages are saved by sync_to_async, on one thread per consumer: what   *)
(* was handed to the thread is executed in order, also after the coroutine *)
(* that handed it over was cancelled.                                      *)
(***************************************************************************)
EXTENDS Integers

CONSTANTS
  Turns,                \* the messages the user sends
  MaxChunks,            \* chunks the model streams in a turn, at most
  CHUNK_SAVE_INTERVAL,  \* constants.py
  GRAPH_TURN_TIMEOUT,   \* constants.py, in ticks of the clock
  STALE_PENDING_THRESHOLD  \* tasks.py, in ticks

ASSUME IntervalAssumption ==
  CHUNK_SAVE_INTERVAL \in Nat \ {0} /\ MaxChunks \in Nat

ASSUME TimeoutAssumption ==
  /\ GRAPH_TURN_TIMEOUT \in Nat /\ STALE_PENDING_THRESHOLD \in Nat
  /\ GRAPH_TURN_TIMEOUT < STALE_PENDING_THRESHOLD

VARIABLES
  row,      \* the assistant's Message row of each turn
  pc,       \* where the consumer is in each turn
  node,     \* the step of the graph run
  route,    \* the experts the orchestrator chose
  state,    \* the graph state of each run: prev_node and ui_action
  ckpt,     \* prev_node in the session's checkpoint
  chunks,   \* chunks in full_content, all of them sent
  handed,   \* the save the thread has still to execute: its chunks, or 0
  shown,    \* the ui_action of the stream so far: last_ui_action
  answer,   \* what full_content holds: the chunks, or a text instead of them
  age       \* ticks since the row was created

graph == <<node, route, state, ckpt>>
vars == <<row, pc, graph, chunks, handed, shown, answer, age>>

-----------------------------------------------------------------------------
Experts == {"web_gis_expert", "ui_expert"}
NoRun == [prev |-> {}, action |-> "none"]
NoRow == [status |-> "none", text |-> "none", saved |-> 0]
Row(s, text, n) == [status |-> s, text |-> text, saved |-> n]

\* The consumer: in the graph; waiting for a save; after an exception of the
\* stream; after the timeout; about to save the answer; ended.
Ended == {"done", "aborted", "dead"}
InGraph == {"graph", "save", "error"}
Busy == InGraph \cup {"timeout", "update"}

Init ==
  /\ row = [t \in Turns |-> NoRow]
  /\ pc = [t \in Turns |-> "idle"]
  /\ node = [t \in Turns |-> "start"]
  /\ route = [t \in Turns |-> {}]
  /\ state = [t \in Turns |-> NoRun]
  /\ ckpt = {}
  /\ chunks = [t \in Turns |-> 0]
  /\ handed = [t \in Turns |-> 0]
  /\ shown = [t \in Turns |-> "none"]
  /\ answer = [t \in Turns |-> "chunks"]
  /\ age = [t \in Turns |-> 0]

Goto(t, label) == pc' = [pc EXCEPT ![t] = label]

\* The call ends, and what it had in memory is gone.
End(t, how) ==
  /\ Goto(t, how)
  /\ node' = [node EXCEPT ![t] = "start"]
  /\ route' = [route EXCEPT ![t] = {}]
  /\ state' = [state EXCEPT ![t] = NoRun]
  /\ shown' = [shown EXCEPT ![t] = "none"]

-----------------------------------------------------------------------------
(* ChatConsumer.receive                                                    *)

\* The user's message is saved and echoed, and a pending answer created.
\* The input of a run: no action yet, prev_node as the last run left it.
CreateAgentMessage(t) ==
  /\ pc[t] = "idle"
  /\ row' = [row EXCEPT ![t] = Row("pending", "chunks", 0)]
  /\ state' = [state EXCEPT ![t] = [prev |-> ckpt, action |-> "none"]]
  /\ node' = [node EXCEPT ![t] = "orchestrator"]
  /\ Goto(t, "graph")
  /\ UNCHANGED <<route, ckpt, chunks, handed, shown, answer, age>>

-----------------------------------------------------------------------------
(* The graph.  A step ends by writing the checkpoint.                      *)

Step(t, s, next) ==
  /\ state' = [state EXCEPT ![t] = s]
  /\ ckpt' = s.prev
  /\ node' = [node EXCEPT ![t] = next]

\* Mutant: prev_node is added to instead of overwritten.
OrchestrateAppend(t) ==
  /\ pc[t] = "graph" /\ node[t] = "orchestrator"
  /\ \E experts \in SUBSET Experts :
       /\ route' = [route EXCEPT ![t] = experts]
       /\ Step(t, [state[t] EXCEPT !.prev = @ \cup {"orchestrator"}],
               IF experts = {} THEN "responder" ELSE "experts")
  /\ UNCHANGED <<row, pc, chunks, handed, shown, answer, age>>

\* Compaction, then the routing; any exception routes to no expert.
Orchestrate(t) ==
  /\ pc[t] = "graph" /\ node[t] = "orchestrator"
  /\ \E experts \in SUBSET Experts :
       /\ route' = [route EXCEPT ![t] = experts]
       /\ Step(t, [state[t] EXCEPT !.prev = {"orchestrator"}],
               IF experts = {} THEN "responder" ELSE "experts")
  /\ UNCHANGED <<row, pc, chunks, handed, shown, answer, age>>

\* The experts of the route run in one step; the UI expert may decide nothing.
RunExperts(t) ==
  /\ pc[t] = "graph" /\ node[t] = "experts"
  /\ \E a \in IF "ui_expert" \in route[t] THEN {"none", "navigate"}
              ELSE {state[t].action} :
       Step(t, [prev |-> state[t].prev \cup route[t], action |-> a],
            "responder")
  /\ UNCHANGED <<row, pc, route, chunks, handed, shown, answer, age>>

UiRan(t) == "ui_expert" \in state[t].prev
GisRan(t) == "web_gis_expert" \in state[t].prev

\* Mutant: nothing is saved before the end.
AddChunkUnsaved(t, action) ==
  /\ chunks' = [chunks EXCEPT ![t] = @ + 1]
  /\ shown' = [shown EXCEPT ![t] = IF action = "none" THEN @ ELSE action]
  /\ pc' = pc /\ handed' = handed

\* full_content grows, the chunk is sent, and every CHUNK_SAVE_INTERVAL it is
\* handed over to be saved.
AddChunk(t, action) ==
  /\ chunks' = [chunks EXCEPT ![t] = @ + 1]
  /\ shown' = [shown EXCEPT ![t] = IF action = "none" THEN @ ELSE action]
  /\ IF (chunks[t] + 1) % CHUNK_SAVE_INTERVAL = 0
     THEN /\ Goto(t, "save")
          /\ handed' = [handed EXCEPT ![t] = chunks[t] + 1]
     ELSE pc' = pc /\ handed' = handed

\* The model's tokens, which carry no action.
StreamChunk(t) ==
  /\ pc[t] = "graph" /\ node[t] = "responder"
  /\ GisRan(t) \/ ~UiRan(t)
  /\ chunks[t] < MaxChunks
  /\ AddChunk(t, "none")
  /\ UNCHANGED <<row, graph, answer, age>>

\* The responder returns: what was not streamed comes as one chunk, with the
\* action of the UI expert.
Respond(t) ==
  /\ pc[t] = "graph" /\ node[t] = "responder"
  /\ Step(t, [state[t] EXCEPT !.prev = @ \cup {"responder"}], "end")
  /\ IF chunks[t] = 0 /\ UiRan(t)
     THEN AddChunk(t, state[t].action)
     ELSE UNCHANGED <<pc, chunks, handed, shown>>
  /\ UNCHANGED <<row, route, answer, age>>

\* The thread executes the save; the stream goes on.
Saved(t) ==
  /\ handed[t] > 0
  /\ row' = [row EXCEPT ![t] = Row("pending", "chunks", handed[t])]
  /\ handed' = [handed EXCEPT ![t] = 0]
  /\ pc' = IF pc[t] = "save" THEN [pc EXCEPT ![t] = "graph"] ELSE pc
  /\ UNCHANGED <<graph, chunks, shown, answer, age>>

\* An agent, or the sending of a chunk, raises: the client gets an apology,
\* which is the answer only if nothing was streamed.
StreamError(t) ==
  /\ pc[t] = "graph" /\ node[t] # "end"
  /\ answer' = [answer EXCEPT ![t] = IF chunks[t] = 0 THEN "apology" ELSE @]
  /\ Goto(t, "error")
  /\ UNCHANGED <<row, graph, chunks, handed, shown, age>>

\* wait_for cancels the run; its action is lost with its content.
Timeout(t) ==
  /\ pc[t] \in InGraph
  /\ age[t] >= GRAPH_TURN_TIMEOUT
  /\ answer' = [answer EXCEPT ![t] = "timeout"]
  /\ shown' = [shown EXCEPT ![t] = "none"]
  /\ Goto(t, "timeout")
  /\ UNCHANGED <<row, graph, chunks, handed, age>>

\* The run is over, its apology or the timeout is sent, and the last message
\* of the turn with the action.
RunEnded(t) ==
  \/ pc[t] = "graph" /\ node[t] = "end"
  \/ pc[t] \in {"error", "timeout"}

SendLast(t) ==
  /\ RunEnded(t)
  /\ Goto(t, "update")
  /\ UNCHANGED <<row, graph, chunks, handed, shown, answer, age>>

\* send raises out of receive: the answer stays as it was saved last.
SendRaises(t) ==
  /\ RunEnded(t)
  /\ End(t, "aborted")
  /\ UNCHANGED <<row, ckpt, chunks, handed, answer, age>>

FinalStatus(t) == IF answer[t] = "timeout" THEN "failed" ELSE "complete"
FinalSaved(t) == IF answer[t] = "chunks" THEN chunks[t] ELSE 0

\* Mutant: any thread executes it
FinalUpdateAnyThread(t) ==
  /\ pc[t] = "update"
  /\ row' = [row EXCEPT ![t] = Row(FinalStatus(t), answer[t], FinalSaved(t))]
  /\ End(t, "done")
  /\ UNCHANGED <<ckpt, chunks, handed, answer, age>>

\* Handed to the same thread: executed after the save handed over before.
FinalUpdate(t) ==
  /\ pc[t] = "update" /\ handed[t] = 0
  /\ row' = [row EXCEPT ![t] = Row(FinalStatus(t), answer[t], FinalSaved(t))]
  /\ End(t, "done")
  /\ UNCHANGED <<ckpt, chunks, handed, answer, age>>

\* The process dies, or the server gives the consumer up after a disconnect.
Crash(t) ==
  /\ pc[t] \in Busy
  /\ End(t, "dead")
  /\ handed' = [handed EXCEPT ![t] = 0]
  /\ UNCHANGED <<row, ckpt, chunks, answer, age>>

-----------------------------------------------------------------------------
(* cleanup_stale_pending_messages: one UPDATE, every five minutes.         *)

\* Mutant: the age is compared the wrong way round
StaleReversed(t) ==
  row[t].status = "pending" /\ age[t] < STALE_PENDING_THRESHOLD

Stale(t) == row[t].status = "pending" /\ age[t] > STALE_PENDING_THRESHOLD

Cleanup ==
  /\ \E t \in Turns : Stale(t)
  /\ row' = [t \in Turns |->
       IF Stale(t) THEN [row[t] EXCEPT !.status = "failed"] ELSE row[t]]
  /\ UNCHANGED <<pc, graph, chunks, handed, shown, answer, age>>

\* Time passes.  wait_for fires when it is due, and a statement handed to the
\* thread does not last until its row is stale.
Tick ==
  /\ \A t \in Turns :
       /\ pc[t] \in InGraph => age[t] < GRAPH_TURN_TIMEOUT
       /\ handed[t] > 0 => age[t] < STALE_PENDING_THRESHOLD
  /\ age' = [t \in Turns |->
       IF row[t] # NoRow /\ age[t] <= STALE_PENDING_THRESHOLD
       THEN age[t] + 1 ELSE age[t]]
  /\ UNCHANGED <<row, pc, graph, chunks, handed, shown, answer>>

-----------------------------------------------------------------------------
GraphStep(t) ==
  Orchestrate(t) \/ RunExperts(t) \/ StreamChunk(t) \/ Respond(t)

ConsumerStep(t) ==
  \/ Saved(t) \/ GraphStep(t) \/ Timeout(t) \/ SendLast(t) \/ FinalUpdate(t)

Next ==
  \/ \E t \in Turns :
       \/ CreateAgentMessage(t) \/ ConsumerStep(t)
       \/ StreamError(t) \/ SendRaises(t) \/ Crash(t)
  \/ Cleanup
  \/ Tick

Spec == Init /\ [][Next]_vars

\* A consumer goes on until it ends or dies, the clock does, and so does beat.
Fairness ==
  /\ \A t \in Turns : WF_vars(ConsumerStep(t))
  /\ WF_vars(Tick)
  /\ WF_vars(Cleanup)

FairSpec == Spec /\ Fairness

-----------------------------------------------------------------------------
Seen == Experts \cup {"orchestrator", "responder"}

TypeOK ==
  /\ row \in [Turns -> [status : {"none", "pending", "complete", "failed"},
                        text : {"none", "chunks", "apology", "timeout"},
                        saved : 0 .. MaxChunks + 1]]
  /\ pc \in [Turns -> {"idle"} \cup Busy \cup Ended]
  /\ node \in [Turns -> {"start", "orchestrator", "experts", "responder", "end"}]
  /\ route \in [Turns -> SUBSET Experts]
  /\ state \in [Turns -> [prev : SUBSET Seen, action : {"none", "navigate"}]]
  /\ ckpt \subseteq Seen
  /\ chunks \in [Turns -> 0 .. MaxChunks + 1]
  /\ handed \in [Turns -> 0 .. MaxChunks + 1]
  /\ shown \in [Turns -> {"none", "navigate"}]
  /\ answer \in [Turns -> {"chunks", "apology", "timeout"}]
  /\ age \in [Turns -> 0 .. STALE_PENDING_THRESHOLD + 1]

\* An answer that is complete or failed never becomes pending again: no save
\* of a partial answer overtakes the last one, and none comes after the
\* cleanup, since a turn times out before it is stale.
SettledStays ==
  [][\A t \in Turns : row[t].status \in {"complete", "failed"} =>
       row'[t].status # "pending"]_vars

\* What is saved of an answer follows what the client was sent: a complete row
\* has all of it, and a pending one lacks less than CHUNK_SAVE_INTERVAL chunks,
\* but for a save that the thread has not executed or died with.
SavedFollowsStream ==
  \A t \in Turns :
    /\ row[t].status = "complete" => row[t].saved = FinalSaved(t)
    /\ row[t].status = "pending" =>
         chunks[t] - row[t].saved <
           CHUNK_SAVE_INTERVAL + IF handed[t] > 0 \/ pc[t] = "dead" THEN 1 ELSE 0

\* No answer stays pending, also when its consumer died or raised.
PendingEnds == \A t \in Turns :
  row[t].status = "pending" ~> row[t].status # "pending"

\* A turn knows the experts it ran, though earlier and overlapping turns of the
\* session have written the same checkpoint.  The responder takes for run those
\* of this turn; and unless it times out, the action of a turn for the UI expert
\* alone reaches the client (with the GIS expert too, Agent.astream drops the
\* action once tokens were streamed).
TurnKnowsItsExperts ==
  \A t \in Turns :
    /\ node[t] = "responder" =>
         state[t].prev \cap (Experts \cup {"responder"}) = route[t]
    /\ pc[t] = "update" /\ node[t] = "end" /\ answer[t] = "chunks"
         /\ route[t] = {"ui_expert"} => shown[t] = state[t].action

=============================================================================
