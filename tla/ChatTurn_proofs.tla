-------------------------- MODULE ChatTurn_proofs --------------------------
(* Proofs about ChatTurn, for any number of turns, of chunks, any interval of the
   saves and any two time limits of which the turn's is the smaller.  AgentInv says
   what the graph run of each turn knows at each of its nodes, and SaveInv what the
   row of each turn holds while a save of it may still be executed. *)

EXTENDS ChatTurn, TLAPS

\* The run of a turn, at each node: prev_node is that of this turn, and tokens
\* are streamed by the responder alone.
AgentInv ==
  \A t \in Turns :
    /\ node[t] = "start" <=> pc[t] \in {"idle"} \cup Ended
    /\ pc[t] = "idle" =>
         /\ chunks[t] = 0 /\ answer[t] = "chunks"
         /\ route[t] = {} /\ shown[t] = "none"
    /\ node[t] \in {"orchestrator", "experts"} => chunks[t] = 0
    /\ node[t] # "end" => shown[t] = "none"
    /\ node[t] = "experts" => state[t].prev = {"orchestrator"}
    /\ node[t] = "responder" =>
         /\ state[t].prev = {"orchestrator"} \cup route[t]
         /\ route[t] = {"ui_expert"} => chunks[t] = 0
    /\ node[t] = "end" /\ route[t] = {"ui_expert"} /\ answer[t] # "timeout" =>
         shown[t] = state[t].action

\* The row of a turn.  A save is handed over at a multiple of the interval, its
\* chunks are then the last of the turn until it is executed, and it finds the
\* row pending: the turn has timed out before its row can be stale.
SaveOf(t) ==
  /\ pc[t] = "idle" =>
       row[t] = NoRow /\ age[t] = 0 /\ chunks[t] = 0 /\ handed[t] = 0
  /\ pc[t] \in InGraph =>
       /\ row[t].status = "pending" /\ age[t] <= GRAPH_TURN_TIMEOUT
       /\ pc[t] # "save" => handed[t] = 0
  /\ pc[t] = "save" => handed[t] > 0
  /\ handed[t] > 0 =>
       /\ row[t].status = "pending" /\ age[t] <= STALE_PENDING_THRESHOLD
       /\ pc[t] \in {"save", "timeout", "update", "aborted"}
       /\ handed[t] = chunks[t] /\ handed[t] % CHUNK_SAVE_INTERVAL = 0
  /\ row[t].status = "complete" => pc[t] = "done" /\ row[t].saved = FinalSaved(t)
  /\ row[t].status = "pending" =>
       /\ row[t].saved % CHUNK_SAVE_INTERVAL = 0
       /\ chunks[t] - row[t].saved <= CHUNK_SAVE_INTERVAL
       /\ handed[t] = 0 /\ pc[t] # "dead" =>
            chunks[t] - row[t].saved < CHUNK_SAVE_INTERVAL

SaveInv == \A t \in Turns : SaveOf(t)

IInv == TypeOK /\ AgentInv /\ SaveInv

\* The next multiple of an interval.
LEMMA NextMultiple ==
  ASSUME NEW I \in Nat \ {0}, NEW k \in Nat, k % I = 0
  PROVE  (k + I) % I = 0
<1> DEFINE q == k \div I
<1>1. k = I * q /\ q \in Nat
  BY SMT
<1>2. k + I = (q + 1) * I
  BY <1>1, SMT
<1>3. \A a \in Nat : (a * I) % I = 0
  BY SMT
<1>4. q + 1 \in Nat
  BY <1>1
<1> HIDE DEF q
<1> QED BY <1>2, <1>3, <1>4

LEMMA TypeStep ==
  ASSUME TypeOK, [Next]_vars
  PROVE  TypeOK'
<1> USE IntervalAssumption, TimeoutAssumption DEF TypeOK, Experts, Seen, InGraph, Busy, Ended, NoRun, NoRow, Row, Goto, End, graph, Step
<1>1. ASSUME NEW t \in Turns,
             CreateAgentMessage(t) \/ ConsumerStep(t) \/ StreamError(t) \/ SendRaises(t) \/ Crash(t)
      PROVE  TypeOK'
  <2>1. CASE CreateAgentMessage(t)
    BY <2>1 DEF CreateAgentMessage
  <2>2. CASE Orchestrate(t)
    BY <2>2 DEF Orchestrate
  <2>3. CASE RunExperts(t)
    BY <2>3 DEF RunExperts
  <2>4. CASE StreamChunk(t)
    BY <2>4 DEF StreamChunk, AddChunk
  <2>5. CASE Respond(t)
    <3>1. /\ state' \in [Turns -> [prev : SUBSET Seen, action : {"none", "navigate"}]]
          /\ node' \in [Turns -> {"start", "orchestrator", "experts", "responder", "end"}]
          /\ ckpt' \subseteq Seen
      BY <2>5 DEF Respond
    <3>2. UNCHANGED <<row, route, answer, age>>
      BY <2>5 DEF Respond
    <3>3. CASE UNCHANGED <<pc, chunks, handed, shown>>
      BY <3>1, <3>2, <3>3
    <3>4. CASE chunks[t] = 0 /\ AddChunk(t, state[t].action)
      <4>1. /\ chunks' \in [Turns -> 0 .. MaxChunks + 1]
            /\ shown' \in [Turns -> {"none", "navigate"}]
            /\ pc' \in [Turns -> {"idle"} \cup Busy \cup Ended]
            /\ handed' \in [Turns -> 0 .. MaxChunks + 1]
        <5>1. 0 + 1 \in 0 .. MaxChunks + 1
          OBVIOUS
        <5>2. chunks' = [chunks EXCEPT ![t] = 0 + 1]
          BY <3>4 DEF AddChunk
        <5>3. handed' \in {handed, [handed EXCEPT ![t] = 0 + 1]}
          BY <3>4 DEF AddChunk
        <5>4. pc' \in {pc, [pc EXCEPT ![t] = "save"]}
          BY <3>4 DEF AddChunk
        <5>5. shown' \in {shown, [shown EXCEPT ![t] = state[t].action]}
          BY <3>4 DEF AddChunk
        <5>6. chunks' \in [Turns -> 0 .. MaxChunks + 1]
          BY <5>1, <5>2
        <5>7. handed' \in [Turns -> 0 .. MaxChunks + 1]
          BY <5>1, <5>3
        <5>8. pc' \in [Turns -> {"idle"} \cup Busy \cup Ended]
          BY <5>4
        <5>9. shown' \in [Turns -> {"none", "navigate"}]
          BY <5>5
        <5> QED BY <5>6, <5>7, <5>8, <5>9
      <4> QED BY <3>1, <3>2, <4>1
    <3> QED BY <2>5, <3>3, <3>4 DEF Respond
  <2>6. CASE Saved(t)
    BY <2>6 DEF Saved
  <2>7. CASE StreamError(t)
    BY <2>7 DEF StreamError
  <2>8. CASE Timeout(t)
    BY <2>8 DEF Timeout
  <2>9. CASE SendLast(t)
    BY <2>9 DEF SendLast
  <2>10. CASE SendRaises(t)
    BY <2>10 DEF SendRaises
  <2>11. CASE FinalUpdate(t)
    BY <2>11 DEF FinalUpdate, FinalStatus, FinalSaved
  <2>12. CASE Crash(t)
    BY <2>12 DEF Crash
  <2> QED BY <1>1, <2>1, <2>2, <2>3, <2>4, <2>5, <2>6, <2>7, <2>8, <2>9, <2>10, <2>11, <2>12 DEF ConsumerStep, GraphStep
<1>2. CASE Cleanup
  BY SMTT(30), <1>2 DEF Cleanup
<1>3. CASE Tick
  BY <1>3 DEF Tick
<1>4. CASE UNCHANGED vars
  BY <1>4 DEF vars
<1> QED BY <1>1, <1>2, <1>3, <1>4 DEF Next

LEMMA AgentInvStep ==
  ASSUME TypeOK, AgentInv, [Next]_vars
  PROVE  AgentInv'
<1> USE IntervalAssumption, TimeoutAssumption DEF TypeOK, AgentInv, Experts, Seen, InGraph, Busy, Ended, NoRun, NoRow, Row, Goto, End, graph, Step
<1>1. ASSUME NEW t \in Turns,
             CreateAgentMessage(t) \/ ConsumerStep(t) \/ StreamError(t) \/ SendRaises(t) \/ Crash(t)
      PROVE  AgentInv'
  <2>1. CASE CreateAgentMessage(t)
    BY <2>1 DEF CreateAgentMessage
  <2>2. CASE Orchestrate(t)
    BY <2>2 DEF Orchestrate
  <2>3. CASE RunExperts(t)
    BY <2>3 DEF RunExperts
  <2>4. CASE StreamChunk(t)
    BY <2>4 DEF StreamChunk, AddChunk, UiRan, GisRan
  <2>5. CASE Respond(t)
    BY <2>5 DEF Respond, AddChunk, UiRan
  <2>6. CASE Saved(t)
    BY <2>6 DEF Saved
  <2>7. CASE StreamError(t)
    BY <2>7 DEF StreamError
  <2>8. CASE Timeout(t)
    BY <2>8 DEF Timeout
  <2>9. CASE SendLast(t)
    BY <2>9 DEF SendLast, RunEnded
  <2>10. CASE SendRaises(t)
    BY <2>10 DEF SendRaises, RunEnded
  <2>11. CASE FinalUpdate(t)
    BY <2>11 DEF FinalUpdate
  <2>12. CASE Crash(t)
    BY <2>12 DEF Crash
  <2> QED BY <1>1, <2>1, <2>2, <2>3, <2>4, <2>5, <2>6, <2>7, <2>8, <2>9, <2>10, <2>11, <2>12 DEF ConsumerStep, GraphStep
<1>2. CASE Cleanup
  BY <1>2 DEF Cleanup
<1>3. CASE Tick
  BY <1>3 DEF Tick
<1>4. CASE UNCHANGED vars
  BY <1>4 DEF vars
<1> QED BY <1>1, <1>2, <1>3, <1>4 DEF Next

\* One more chunk: it is handed over when the chunks are a multiple again.
LEMMA SaveInvChunk ==
  ASSUME TypeOK, SaveInv, NEW t \in Turns, pc[t] = "graph",
         NEW action, AddChunk(t, action), UNCHANGED <<row, answer, age>>
  PROVE  SaveInv'
<1> USE IntervalAssumption, TimeoutAssumption
        DEF TypeOK, SaveInv, AddChunk, Goto, InGraph, FinalSaved
<1>1. ASSUME NEW u \in Turns, u # t PROVE SaveOf(u)'
  BY <1>1 DEF SaveOf
<1>2. SaveOf(t)'
  <2> DEFINE c == chunks[t]
             s == row[t].saved
             I == CHUNK_SAVE_INTERVAL
  <2>1. /\ c \in Nat /\ s \in Nat /\ I \in Nat \ {0} /\ s % I = 0 /\ c - s < I
        /\ handed[t] = 0 /\ row[t].status = "pending" /\ age[t] <= GRAPH_TURN_TIMEOUT
        /\ age[t] \in Nat
    BY DEF SaveOf
  <2>2. chunks'[t] = c + 1
    OBVIOUS
  <2>3. CASE (c + 1) % I = 0
    <3>1. pc'[t] = "save" /\ handed'[t] = c + 1
      BY <2>3
    <3>2. c + 1 > 0 /\ c + 1 - s <= I /\ age[t] <= STALE_PENDING_THRESHOLD
      BY <2>1
    <3> QED BY <2>1, <2>2, <2>3, <3>1, <3>2 DEF SaveOf
  <2>4. CASE (c + 1) % I # 0
    <3>1. pc'[t] = "graph" /\ handed'[t] = 0
      BY <2>1, <2>4
    <3>2. (s + I) % I = 0
      <4> HIDE DEF s, I
      <4> QED BY <2>1, NextMultiple
    <3>3. c + 1 - s < I
      <4>1. c + 1 # s + I
        BY <3>2, <2>4
      <4>2. \A i, j, k \in Nat : i - j < k /\ i + 1 # j + k => i + 1 - j < k
        OBVIOUS
      <4> HIDE DEF c, s, I
      <4> QED BY <4>1, <4>2, <2>1
    <3> QED BY <2>1, <2>2, <3>1, <3>3 DEF SaveOf
  <2> QED BY <2>3, <2>4
<1> QED BY <1>1, <1>2

LEMMA SaveInvStep ==
  ASSUME TypeOK, SaveInv, [Next]_vars
  PROVE  SaveInv'
<1> USE IntervalAssumption, TimeoutAssumption DEF TypeOK, SaveInv, SaveOf, FinalSaved, Experts, Seen, InGraph, Busy, Ended, NoRun, NoRow, Row, Goto, End, graph, Step
<1>1. ASSUME NEW t \in Turns,
             CreateAgentMessage(t) \/ ConsumerStep(t) \/ StreamError(t) \/ SendRaises(t) \/ Crash(t)
      PROVE  SaveInv'
  <2>1. CASE CreateAgentMessage(t)
    BY <2>1 DEF CreateAgentMessage
  <2>2. CASE Orchestrate(t)
    BY <2>2 DEF Orchestrate
  <2>3. CASE RunExperts(t)
    BY <2>3 DEF RunExperts
  <2>4. CASE StreamChunk(t)
    BY <2>4, SaveInvChunk DEF StreamChunk
  <2>5. CASE Respond(t)
    <3>1. CASE UNCHANGED <<pc, chunks, handed, shown>>
      BY <2>5, <3>1 DEF Respond
    <3>2. CASE AddChunk(t, state[t].action)
      BY <2>5, <3>2, SaveInvChunk DEF Respond
    <3> QED BY <2>5, <3>1, <3>2 DEF Respond
  <2>6. CASE Saved(t)
    BY <2>6 DEF Saved
  <2>7. CASE StreamError(t)
    BY <2>7 DEF StreamError
  <2>8. CASE Timeout(t)
    BY <2>8 DEF Timeout
  <2>9. CASE SendLast(t)
    BY <2>9 DEF SendLast, RunEnded
  <2>10. CASE SendRaises(t)
    BY <2>10 DEF SendRaises, RunEnded
  <2>11. CASE FinalUpdate(t)
    BY <2>11 DEF FinalUpdate, FinalStatus
  <2>12. CASE Crash(t)
    BY <2>12 DEF Crash
  <2> QED BY <1>1, <2>1, <2>2, <2>3, <2>4, <2>5, <2>6, <2>7, <2>8, <2>9, <2>10, <2>11, <2>12 DEF ConsumerStep, GraphStep
<1>2. CASE Cleanup
  BY <1>2 DEF Cleanup, Stale
<1>3. CASE Tick
  BY <1>3 DEF Tick
<1>4. CASE UNCHANGED vars
  BY <1>4 DEF vars
<1> QED BY <1>1, <1>2, <1>3, <1>4 DEF Next

\* The stream of a turn, its row, the checkpoint of the session and the client stay
\* in step, however the turns of the session overlap.
THEOREM IInvCorrect == Spec => []IInv
<1>1. Init => IInv
  <2> SUFFICES ASSUME Init PROVE IInv
    OBVIOUS
  <2> USE IntervalAssumption, TimeoutAssumption DEF Init, Busy, InGraph, Ended, NoRow, NoRun
  <2>1. TypeOK
    BY DEF TypeOK
  <2>2. AgentInv
    BY DEF AgentInv
  <2>3. ASSUME NEW t \in Turns PROVE SaveOf(t)
    <3>1. row[t] = NoRow /\ row[t].status = "none" /\ pc[t] = "idle"
      OBVIOUS
    <3>2. age[t] = 0 /\ chunks[t] = 0 /\ handed[t] = 0
      OBVIOUS
    <3> QED BY <3>1, <3>2 DEF SaveOf
  <2> QED BY <2>1, <2>2, <2>3 DEF IInv, SaveInv
<1>2. IInv /\ [Next]_vars => IInv'
  BY TypeStep, AgentInvStep, SaveInvStep DEF IInv
<1> QED BY <1>1, <1>2, PTL DEF Spec

\* A turn knows the experts it ran: what earlier and overlapping turns of the
\* session left in the checkpoint is overwritten by its own orchestrator.
THEOREM ExpertsCorrect == Spec => []TurnKnowsItsExperts
<1>1. IInv => TurnKnowsItsExperts
  <2> SUFFICES ASSUME IInv PROVE TurnKnowsItsExperts
    OBVIOUS
  <2> USE DEF IInv, TypeOK, AgentInv, Experts, Seen
  <2>1. ASSUME NEW t \in Turns, node[t] = "responder"
        PROVE  state[t].prev \cap (Experts \cup {"responder"}) = route[t]
    BY <2>1
  <2> QED BY <2>1 DEF TurnKnowsItsExperts
<1> QED BY <1>1, IInvCorrect, PTL

\* The row follows what the client was sent, to less than an interval.
THEOREM SavedCorrect == Spec => []SavedFollowsStream
<1>1. IInv => SavedFollowsStream
  <2> SUFFICES ASSUME IInv, NEW t \in Turns
               PROVE  /\ row[t].status = "complete" => row[t].saved = FinalSaved(t)
                      /\ row[t].status = "pending" =>
                           chunks[t] - row[t].saved <
                             CHUNK_SAVE_INTERVAL
                               + IF handed[t] > 0 \/ pc[t] = "dead" THEN 1 ELSE 0
    BY DEF SavedFollowsStream
  <2>1. chunks[t] \in Nat /\ row[t].saved \in Nat /\ handed[t] \in Nat
    BY IntervalAssumption DEF IInv, TypeOK
  <2>2. SaveOf(t)
    BY DEF IInv, SaveInv
  <2> QED BY <2>1, <2>2, IntervalAssumption DEF SaveOf
<1> QED BY <1>1, IInvCorrect, PTL

\* No save of a partial answer comes after the last one or after the cleanup.
THEOREM SettledCorrect == Spec => SettledStays
<1>1. IInv /\ [Next]_vars =>
        [\A t \in Turns : row[t].status \in {"complete", "failed"} =>
           row'[t].status # "pending"]_vars
  <2> SUFFICES ASSUME IInv, Next, NEW t \in Turns,
                      row[t].status \in {"complete", "failed"}
               PROVE  row'[t].status # "pending"
    OBVIOUS
  <2> USE IntervalAssumption DEF IInv, TypeOK, SaveInv, SaveOf, NoRow, Row
  <2>1. ASSUME NEW u \in Turns,
               \/ CreateAgentMessage(u) \/ ConsumerStep(u)
               \/ StreamError(u) \/ SendRaises(u) \/ Crash(u)
        PROVE  row'[t].status # "pending"
    <3>1. CASE CreateAgentMessage(u)
      BY <3>1 DEF CreateAgentMessage
    <3>2. CASE Saved(u)
      BY <3>2 DEF Saved
    <3>3. CASE FinalUpdate(u)
      BY <3>3 DEF FinalUpdate, FinalStatus
    <3>4. CASE row' = row
      BY <3>4
    <3> QED
      BY <2>1, <3>1, <3>2, <3>3, <3>4
         DEF ConsumerStep, GraphStep, Orchestrate, RunExperts, StreamChunk, Respond,
             Timeout, SendLast, StreamError, SendRaises, Crash
  <2>2. CASE Cleanup
    BY <2>2 DEF Cleanup, Stale
  <2>3. CASE Tick
    BY <2>3 DEF Tick
  <2> QED BY <2>1, <2>2, <2>3 DEF Next
<1> QED BY <1>1, IInvCorrect, PTL DEF Spec, SettledStays

=============================================================================
