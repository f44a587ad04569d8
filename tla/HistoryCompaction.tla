------------------------- MODULE HistoryCompaction -------------------------
(***************************************************************************)
(* What the language models see of a long conversation: the messages of    *)
(* the graph state of one session, compaction_node that replaces the older *)
(* ones by a summary, and trim_messages that every node applies to the     *)
(* rest (agent_manager/agents/agent_factory.py, message_helpers.py).       *)
(*                                                                         *)
(* Turns follow each other here.  The messages ever added are kept in      *)
(* history; those of the state are a suffix of it, since removals are.     *)
(* The UI expert and the responder add no message.                         *)
(***************************************************************************)
EXTENDS Integers, Sequences, FiniteSetsExt

CONSTANTS
  CompactionThreshold,  \* constants.py COMPACTION_THRESHOLD, 20
  MaxContextMessages,   \* MAX_CONTEXT_MESSAGES, 20
  RecentMessages,       \* RECENT_MESSAGES_TO_KEEP, 6
  MaxIterations,        \* MAX_LOOP_ITERATIONS, 3
  MaxCalls,             \* bound: tool calls of one response
  HistoryLimit          \* bound: no turn begins after so many messages

\* As in constants.py: what is kept is never more than what is there.
ASSUME ContextAssumption ==
  /\ RecentMessages \in Nat \ {0} /\ MaxIterations \in Nat \ {0}
  /\ CompactionThreshold \in Nat /\ MaxContextMessages \in Nat
  /\ RecentMessages <= CompactionThreshold
  /\ CompactionThreshold <= MaxContextMessages

VARIABLES
  history,  \* all messages: 0, or for a tool's answer the index of its call
  first,    \* index of the first message that is still in the state
  told,     \* what the summary tells of; {} when there is none
  emptied,  \* a summary came back empty
  turn      \* the node that runs, the question, and the expert's messages

chatVars == <<history, first, told, emptied, turn>>

-----------------------------------------------------------------------------
NoTurn == [at |-> "idle", asked |-> 0, from |-> 0, draft |-> <<>>, loops |-> 0]

HistoryInit ==
  /\ history = <<>> /\ first = 1 /\ told = {} /\ emptied = FALSE
  /\ turn = NoTurn

\* A slice messages[-n:] of the state.
LastOf(n) == Max({first, Len(history) - n + 1})

\* trim_messages: the index where the messages of a node begin.
TrimMessages == LastOf(IF told # {} THEN RecentMessages ELSE MaxContextMessages)

-----------------------------------------------------------------------------
Ask ==
  /\ turn.at = "idle" /\ Len(history) < HistoryLimit
  /\ history' = Append(history, 0)
  /\ turn' = [NoTurn EXCEPT !.at = "compaction", !.asked = Len(history')]
  /\ UNCHANGED <<first, told, emptied>>

ShouldCompact == Len(history) - first + 1 > CompactionThreshold

\* Mutant: the messages are removed whether or not there is a summary of them.
CompactAnyway ==
  /\ turn.at = "compaction"
  /\ IF ShouldCompact
     THEN LET kept == LastOf(RecentMessages)
          IN /\ first' = kept
             /\ told' \in {told \cup (first .. kept - 1), told, {}}
             /\ emptied' = (emptied \/ (told' = {} /\ told # {}))
     ELSE UNCHANGED <<first, told, emptied>>
  /\ turn' = [turn EXCEPT !.at = "route"]
  /\ UNCHANGED history

\* compaction_node.  A summarizer that fails leaves everything as it is; one
\* that answers with an empty text has the messages removed all the same, and
\* the summary so far replaced.
Compact ==
  /\ turn.at = "compaction"
  /\ \/ UNCHANGED <<first, told, emptied>>
     \/ LET kept == LastOf(RecentMessages)
        IN /\ ShouldCompact
           /\ first' = kept
           /\ \/ told' = told \cup (first .. kept - 1) /\ emptied' = emptied
              \/ told' = {} /\ emptied' = TRUE
  /\ turn' = [turn EXCEPT !.at = "route"]
  /\ UNCHANGED history

\* orchestrator_node: the GIS expert works, or the responder follows.
Route ==
  /\ turn.at = "route"
  /\ \/ turn' = [turn EXCEPT !.at = "expert", !.from = TrimMessages]
     \/ turn' = [turn EXCEPT !.at = "respond"]
  /\ UNCHANGED <<history, first, told, emptied>>

\* One response of the model in web_gis_expert_node, and the tools it calls.
\* The last round is not followed by another response.
CallExpert ==
  /\ turn.at = "expert"
  /\ \E calls \in 0 .. MaxCalls :
       LET response == Len(history) + Len(turn.draft) + 1
           loops == IF calls = 0 THEN turn.loops ELSE turn.loops + 1
       IN turn' = [turn EXCEPT
            !.draft = @ \o <<0>> \o [c \in 1 .. calls |-> response],
            !.loops = loops,
            !.at = IF calls = 0 \/ loops = MaxIterations THEN "join" ELSE "expert"]
  /\ UNCHANGED <<history, first, told, emptied>>

\* The messages of the expert are added to the state when its node is over.
JoinExpert ==
  /\ turn.at = "join"
  /\ history' = history \o turn.draft
  /\ turn' = [turn EXCEPT !.draft = <<>>, !.at = "respond"]
  /\ UNCHANGED <<first, told, emptied>>

Respond ==
  /\ turn.at = "respond"
  /\ turn' = NoTurn
  /\ UNCHANGED <<history, first, told, emptied>>

\* A tool or a model raises, or the turn times out: what the state has, stays.
EndTurn ==
  /\ turn.at \in {"compaction", "route", "expert", "join", "respond"}
  /\ turn' = NoTurn
  /\ UNCHANGED <<history, first, told, emptied>>

HistoryNext ==
  \/ Ask \/ Compact \/ Route \/ CallExpert \/ JoinExpert \/ Respond \/ EndTurn

HistorySpec == HistoryInit /\ [][HistoryNext]_chatVars

-----------------------------------------------------------------------------
\* What the model that is asked now sees, besides the summary.
Conversation == history \o turn.draft

Seen == (IF turn.at = "expert" THEN turn.from ELSE TrimMessages) .. Len(Conversation)

\* Each model sees the question of the turn; the responder may not, when the
\* expert added as many messages as are kept.  A tool's answer is seen without
\* its call only at the head of what is seen.  And what a model neither sees nor
\* is told of is still in the state, to be summarised later, unless a summary
\* came back empty.
ContextKeepsTurn ==
  turn.at \in {"route", "expert", "respond"} =>
    /\ \/ turn.asked \in Seen
       \/ /\ turn.at = "respond"
          /\ Len(history) - turn.asked >= RecentMessages
    /\ \A i \in Seen : Conversation[i] # 0 =>
         \/ Conversation[i] \in Seen
         \/ \A j \in Seen : j < i => Conversation[j] = Conversation[i]
    /\ \A i \in 1 .. Len(Conversation) :
         i \in Seen \cup told \/ i >= first \/ emptied
=============================================================================
