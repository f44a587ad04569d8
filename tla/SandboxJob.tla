----------------------------- MODULE SandboxJob -----------------------------
(***************************************************************************)
(* One run of code for the agent: the sandbox service (sandbox/server.py), *)
(* which keeps its jobs in memory, and the two tools that use it           *)
(* (agent_manager/agents/tools.py): run_python, which polls for the        *)
(* result, and create_gis_layer, which takes one of its files.             *)
(*                                                                         *)
(* The unit of time is the polling interval.  A timer of the sandbox fires *)
(* when it is due; a sleep or an answer of the tool may take longer.       *)
(***************************************************************************)
EXTENDS Naturals

CONSTANTS
  ExecutionTimeout,  \* server.py EXECUTION_TIMEOUT, 120 s
  MaxPolls,          \* tools.py _MAX_POLL_SECONDS, 150 s
  StartLimit,        \* bound: how long docker takes to be started
  ClockLimit,        \* bound: when the clock of the model stops
  OutputFiles        \* names the code may write to OUTPUT_DIR

\* tools.py allows more time than server.py: a fork is assumed to be faster
\* than what is left of it.
ASSUME BudgetAssumption ==
  /\ ExecutionTimeout \in Nat /\ StartLimit \in Nat /\ MaxPolls \in Nat
  /\ ExecutionTimeout + StartLimit < MaxPolls

VARIABLES
  now,        \* intervals since the POST
  entry,      \* jobs[job_id]: its status and exit code, and output_files
  container,  \* what _run_in_container does, and when docker was started
  outputs,    \* files in the output directory of the job
  tool,       \* run_python: where it is, polls made, when it wakes up
  layerCall   \* create_gis_layer of each file

boxVars == <<now, entry, container, outputs, tool, layerCall>>

-----------------------------------------------------------------------------
NoEntry == [status |-> "none", files |-> {}]

BoxInit ==
  /\ now = 0
  /\ entry = NoEntry
  /\ container = [at |-> "none", since |-> 0]
  /\ outputs = {}
  /\ tool = [at |-> "idle", polls |-> 0, wake |-> 0]
  /\ layerCall = [f \in OutputFiles |-> "idle"]

RunEnded == container.at \in {"none", "ended", "stopped", "raised", "lost"}

ContainerTo(label) == container' = [container EXCEPT !.at = label]

-----------------------------------------------------------------------------
(* The sandbox                                                             *)

\* execute, called by run_python.
Execute ==
  /\ tool.at = "idle"
  /\ entry' = [status |-> "pending", files |-> {}]
  /\ ContainerTo("starting")
  /\ tool' = [at |-> "polling", polls |-> 0, wake |-> now + 1]
  /\ UNCHANGED <<now, outputs, layerCall>>

\* What create_subprocess_exec raises ends the background task; nobody looks.
StartContainer ==
  /\ container.at = "starting"
  /\ \/ container' = [at |-> "running", since |-> now]
     \/ ContainerTo("raised")
  /\ UNCHANGED <<now, entry, outputs, tool, layerCall>>

WriteOutput(f) ==
  /\ container.at = "running" /\ f \notin outputs
  /\ outputs' = outputs \cup {f}
  /\ UNCHANGED <<now, entry, container, tool, layerCall>>

\* The code ended, with exit code 0 or another one; output that is not UTF-8
\* raises before the entry is written.
EndRun ==
  /\ container.at = "running"
  /\ \/ /\ \E s \in {"succeeded", "failed"} : entry' = [status |-> s, files |-> outputs]
        /\ ContainerTo("ended")
     \/ ContainerTo("raised") /\ entry' = entry
  /\ UNCHANGED <<now, outputs, tool, layerCall>>

Due == container.at = "running" /\ now = container.since + ExecutionTimeout

\* Mutant: the run is killed and its entry forgotten.
StopRunUnrecorded ==
  /\ Due
  /\ ContainerTo("stopped")
  /\ UNCHANGED <<now, entry, outputs, tool, layerCall>>

\* wait_for timed out: exit code 124, and no files.
StopRun ==
  /\ Due
  /\ entry' = [status |-> "failed", files |-> {}]
  /\ ContainerTo("stopped")
  /\ UNCHANGED <<now, outputs, tool, layerCall>>

\* A new process has no jobs; the files are on a volume.
RestartSandbox ==
  /\ container.at \in {"starting", "running", "ended", "stopped", "raised"}
  /\ entry' = NoEntry
  /\ ContainerTo("lost")
  /\ UNCHANGED <<now, outputs, tool, layerCall>>

Tick ==
  /\ now < ClockLimit /\ tool.at = "polling"
  /\ ~Due /\ ~(container.at = "starting" /\ now = StartLimit)
  /\ now' = now + 1
  /\ UNCHANGED <<entry, container, outputs, tool, layerCall>>

-----------------------------------------------------------------------------
(* run_python                                                              *)

\* What the answer says of an entry: a missing one has no exit code, which is
\* taken for a failure.
Verdict(e) == CASE e.status = "pending" -> "timedOut"
                [] e.status = "succeeded" -> "succeeded"
                [] OTHER -> "failed"

Poll ==
  /\ tool.at = "polling" /\ now >= tool.wake
  /\ LET n == tool.polls + 1
         again == entry.status = "pending" /\ n < MaxPolls
     IN tool' = [at |-> IF again THEN "polling" ELSE Verdict(entry),
                 polls |-> n, wake |-> now + 1]
  /\ UNCHANGED <<now, entry, container, outputs, layerCall>>

\* A request of httpx takes ten seconds at most, then it raises.
PollRaises ==
  /\ tool.at \in {"idle", "polling"}
  /\ tool' = [tool EXCEPT !.at = "raised"]
  /\ UNCHANGED <<now, entry, container, outputs, layerCall>>

-----------------------------------------------------------------------------
(* create_gis_layer; the agent knows the job from a run that succeeded, and  *)
(* may call the tool for several files at once.                              *)

LayerTo(f, label) == layerCall' = [layerCall EXCEPT ![f] = label]

FetchOutput(f) ==
  /\ tool.at = "succeeded" /\ layerCall[f] = "idle"
  /\ LayerTo(f, IF f \in outputs THEN "fetched" ELSE "notFound")
  /\ UNCHANGED <<now, entry, container, outputs, tool>>

\* The layer is made (MapLayers), or something raises.
MakeLayer(f) ==
  /\ layerCall[f] = "fetched"
  /\ LayerTo(f, "made") \/ LayerTo(f, "raised")
  /\ UNCHANGED <<now, entry, container, outputs, tool>>

\* cleanup: the whole job goes, with the files no layer was made of.
DeleteResult(f) ==
  /\ layerCall[f] = "made"
  /\ \/ LayerTo(f, "done") /\ entry' = NoEntry /\ outputs' = {}
     \/ LayerTo(f, "raised") /\ UNCHANGED <<entry, outputs>>
  /\ UNCHANGED <<now, container, tool>>

-----------------------------------------------------------------------------
BoxNext ==
  \/ Execute \/ StartContainer \/ EndRun \/ StopRun \/ RestartSandbox \/ Tick
  \/ Poll \/ PollRaises
  \/ \E f \in OutputFiles :
       WriteOutput(f) \/ FetchOutput(f) \/ MakeLayer(f) \/ DeleteResult(f)

BoxSpec == BoxInit /\ [][BoxNext]_boxVars

-----------------------------------------------------------------------------
\* What run_python tells the agent is what became of the run.  It gives up only
\* on a run whose end was never recorded; it reports a failure only of a run
\* that failed, was stopped or was lost with the sandbox; and after a success
\* every file of the run is there until a layer was made of one of them.
AnswerMatchesRun ==
  /\ tool.at = "timedOut" => container.at \in {"raised", "lost"}
  /\ tool.at = "failed" => RunEnded /\ entry.status # "succeeded"
  /\ tool.at = "succeeded" =>
       \/ outputs = entry.files /\ entry.status = "succeeded"
       \/ container.at = "lost"
       \/ \E f \in OutputFiles : layerCall[f] = "done"
=============================================================================
