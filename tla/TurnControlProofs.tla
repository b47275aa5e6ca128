------------------------ MODULE TurnControlProofs ------------------------
(***************************************************************************)
(* The turns of a session and the calls that stop them, for any number of  *)
(* both, any replicas, overlapping turns or not: no turn latched in time   *)
(* completes, no agent is left running by a turn whose sandbox answers     *)
(* (~SandboxFaults), and a quiet session is settled.                       *)
(***************************************************************************)
EXTENDS TurnControl, TLAPS

\* A call that is about to latch or store a response has read its record.
CallNamesTurn ==
  \A c \in Cancel : call[c].pc \in {"latch", "look", "put", "stopPut"} => call[c].turn \in Turn

CallInv == TypeOK /\ CallNamesTurn

Undecided == {"none", "stamp", "record", "begin", "launch", "start", "register",
              "recheck", "stampRt", "stampRun", "poll"}
Ending == {"final", "stampEnd", "settle", "persist", "done"}

\* A turn has an outcome from the last answer of the runner on, and none before.
OutcomeDecided ==
  \A r \in Turn : outcome[r] = "none" <=> pc[r] \in Undecided

\* The latch is one way.
EarlyLatched == \A r \in early : latch[r].status = "cancelled"

\* A turn is called completed because its agent ended well.
CompletedByAgent == \A r \in Turn : outcome[r] = "completed" => agent[r] = "done"

LatchInv ==
  /\ OutcomeDecided /\ EarlyLatched /\ CompletedByAgent /\ LatchedTurnNotCompleted

\* With a sandbox that answers an agent runs between POST /turn and its last poll.
AgentWithinTurn ==
  ~SandboxFaults => \A r \in Turn :
    /\ pc[r] \in {"none", "stamp", "record", "begin", "launch", "start"} => agent[r] = "none"
    /\ pc[r] \in Ending => agent[r] # "running"

\* A turn that is over has stored how.
DoneIsRecorded ==
  \A r \in Turn : pc[r] = "done" => record[r] \in {"completed", "failed", "cancelled"}

\* Turns that have marked the session live and are still to mark it ended.
OwesStamp == {"record", "begin", "launch", "start", "register", "recheck", "stampRt",
              "stampRun", "poll", "final", "stampEnd"}

\* A live session has such a turn, or one that failed.
LiveHasTurn ==
  vertex.phase \in Live =>
    \E r \in Turn : pc[r] \in OwesStamp \/ outcome[r] = "failed"

SettledInv == OutcomeDecided /\ DoneIsRecorded /\ LiveHasTurn
-----------------------------------------------------------------------------
(* Type correctness. *)

CallOf == [pc : CallPc, turn : Turn \cup {None}, live : BOOLEAN, rt : Turn \cup {None}]
LatchOf == [status : {"none", "running", "cancelled"}, rt : Turn \cup {None}]

\* A call that answers keeps nothing.
LEMMA AnsweredTyped == CallAt("answered") \in CallOf /\ CallAt("answered").pc = "answered"
  BY DEF CallAt, CallOf, CallPc

\* resp_mark_terminal latches the turn and no other, and never unlatches.
LEMMA MarkTyped ==
  ASSUME TypeOK, NEW r \in Turn, MarkCancelled(r)
  PROVE  /\ latch' \in [Turn -> LatchOf] /\ early' \subseteq Turn
         /\ latch'[r].status = "cancelled"
         /\ \A q \in Turn \ {r} : latch'[q] = latch[q]
         /\ early' \subseteq early \cup {r}
         /\ r \in early' => r \in early \/ agent[r] \notin {"done", "error"}
<1>1. latch \in [Turn -> LatchOf] /\ early \subseteq Turn
  BY DEF TypeOK, LatchOf
<1>2. latch' = [latch EXCEPT ![r].status = "cancelled"]
  BY DEF MarkCancelled
<1> QED BY <1>1, <1>2 DEF MarkCancelled, LatchOf

\* What ends an agent ends this one only, and only one that runs.
LEMMA KilledTyped ==
  ASSUME TypeOK, NEW r \in Turn
  PROVE  /\ Killed(r) \in [Turn -> {"none", "running", "done", "error", "killed"}]
         /\ \A q \in Turn : agent[q] # "running" => Killed(r)[q] = agent[q]
  BY DEF TypeOK, Killed

\* A cancel call that has found its turn keeps it.
LEMMA CallStep == CallInv /\ [Next]_vars => CallInv'
<1> SUFFICES ASSUME CallInv, [Next]_vars PROVE CallInv'
  OBVIOUS
<1> USE DEF turnVars, Goto, TypeOK, TurnPc, Outcomes, CallPc, Vertices,
            CallInv, CallNamesTurn
<1>1. ASSUME NEW r \in Turn, Accept(r) PROVE CallInv'
  BY <1>1 DEF Accept
<1>2. ASSUME NEW r \in Turn, AcceptStamp(r) PROVE CallInv'
  BY <1>2 DEF AcceptStamp
<1>3. ASSUME NEW r \in Turn, AcceptRecord(r) PROVE CallInv'
  BY <1>3 DEF AcceptRecord
<1>4. ASSUME NEW r \in Turn, Begin(r) PROVE CallInv'
  BY <1>4 DEF Begin
<1>5. ASSUME NEW r \in Turn, BeginRefused(r) PROVE CallInv'
  BY <1>5 DEF BeginRefused, Decide
<1>6. ASSUME NEW r \in Turn, Launch(r) PROVE CallInv'
  BY <1>6 DEF Launch, Decide
<1>7. ASSUME NEW r \in Turn, Start(r) PROVE CallInv'
  BY <1>7 DEF Start
<1>8. ASSUME NEW r \in Turn, StartFailed(r) PROVE CallInv'
  BY <1>8 DEF StartFailed, Decide
<1>9. ASSUME NEW r \in Turn, Register(r) PROVE CallInv'
  BY <1>9 DEF Register, PutRunning
<1>10. ASSUME NEW r \in Turn, Recheck(r) PROVE CallInv'
  <2>1. agent' \in [Turn -> {"none", "running", "done", "error", "killed"}]
    BY <1>10, KilledTyped DEF Recheck
  <2>2. pc' \in [Turn -> TurnPc]
    BY <1>10 DEF Recheck
  <2>3. UNCHANGED <<outcome, killSent, vertex, latch, record, flag, call, early>>
    BY <1>10 DEF Recheck
  <2> QED BY <2>1, <2>2, <2>3
<1>11. ASSUME NEW r \in Turn, StampStarted(r) PROVE CallInv'
  <2>1. vertex' \in Vertices
    <3>1. vertex \in Vertices /\ r \in Turn \cup {None}
      BY <1>11
    <3>2. \/ vertex' = [vertex EXCEPT !.rt = r]
          \/ vertex' = [vertex EXCEPT !.rt = r, !.phase = "running"]
      BY <1>11 DEF StampStarted
    <3>3. [vertex EXCEPT !.rt = r] \in Vertices
      BY <3>1
    <3>4. [vertex EXCEPT !.rt = r, !.phase = "running"] \in Vertices
      BY <3>1
    <3> QED BY <3>2, <3>3, <3>4
  <2>2. pc' \in [Turn -> TurnPc]
    BY <1>11 DEF StampStarted
  <2>3. UNCHANGED <<outcome, killSent, agent, latch, record, flag, call, early>>
    BY <1>11 DEF StampStarted
  <2> QED BY <2>1, <2>2, <2>3
<1>12. ASSUME NEW r \in Turn, PollStop(r) PROVE CallInv'
  <2>1. agent' \in [Turn -> {"none", "running", "done", "error", "killed"}]
    BY <1>12, KilledTyped DEF PollStop
  <2>2. /\ pc' = pc \/ pc' = [pc EXCEPT ![r] = "stampEnd"]
        /\ outcome' = outcome \/ outcome' = [outcome EXCEPT ![r] = "cancelled"]
        /\ \/ killSent' = [killSent EXCEPT ![r] = TRUE]
           \/ killSent' = [killSent EXCEPT ![r] = FALSE]
    BY <1>12 DEF PollStop, Decide, LeavePoll
  <2>3. UNCHANGED <<vertex, latch, record, flag, call, early>>
    BY <1>12 DEF PollStop
  <2>4. pc' \in [Turn -> TurnPc]
    BY <2>2
  <2>5. outcome' \in [Turn -> Outcomes]
    BY <2>2
  <2>6. killSent' \in [Turn -> BOOLEAN]
    BY <2>2
  <2> QED BY <2>1, <2>3, <2>4, <2>5, <2>6
<1>13. ASSUME NEW r \in Turn, PollDone(r) PROVE CallInv'
  BY <1>13 DEF PollDone, Decide, LeavePoll
<1>14. ASSUME NEW r \in Turn, PollLost(r) PROVE CallInv'
  BY <1>14 DEF PollLost, Decide, LeavePoll
<1>15. ASSUME NEW r \in Turn, Final(r) PROVE CallInv'
  BY <1>15 DEF Final, Decide, GotoEnd
<1>16. ASSUME NEW r \in Turn, StampEnd(r) PROVE CallInv'
  BY <1>16 DEF StampEnd, StampTerminal
<1>17. ASSUME NEW r \in Turn, Settle(r) PROVE CallInv'
  BY <1>17 DEF Settle
<1>18. ASSUME NEW r \in Turn, Persist(r) PROVE CallInv'
  BY <1>18 DEF Persist
<1>19. ASSUME NEW r \in Turn, AgentEnds(r) PROVE CallInv'
  BY <1>19 DEF AgentEnds
<1>20. ASSUME NEW c \in Cancel, CancelResponse(c) PROVE CallInv'
  <2>1. PICK r \in Turn :
          call' = [call EXCEPT ![c] = [CallAt("latch") EXCEPT !.turn = r,
                                         !.live = (record[r] = "running")]]
    BY <1>20 DEF CancelResponse
  <2>2. /\ [CallAt("latch") EXCEPT !.turn = r, !.live = (record[r] = "running")] \in CallOf
        /\ [CallAt("latch") EXCEPT !.turn = r, !.live = (record[r] = "running")].turn = r
    BY DEF CallAt, CallOf
  <2> QED BY <1>20, <2>1, <2>2 DEF CancelResponse, CallOf
<1>21. ASSUME NEW c \in Cancel, CancelLatch(c) PROVE CallInv'
  <2>1. call[c].turn \in Turn
    BY <1>21 DEF CancelLatch, AtCall
  <2>2. latch' \in [Turn -> LatchOf] /\ early' \subseteq Turn
    BY <1>21, <2>1, MarkTyped DEF CancelLatch, LatchOf
  <2>3. CASE call[c].live
    <3>1. call' = [call EXCEPT ![c] = [@ EXCEPT !.rt = latch[call[c].turn].rt, !.pc = "look"]]
      BY <1>21, <2>3 DEF CancelLatch
    <3>2. latch[call[c].turn].rt \in Turn \cup {None}
      BY <2>1
    <3> QED BY <1>21, <2>1, <2>2, <3>1, <3>2 DEF CancelLatch, LatchOf
  <2>4. CASE ~call[c].live
    <3>1. call' = [call EXCEPT ![c] = CallAt("answered")]
      BY <1>21, <2>4 DEF CancelLatch, Answer
    <3> QED BY <1>21, <2>2, <3>1, AnsweredTyped DEF CancelLatch, LatchOf, CallOf
  <2> QED BY <2>3, <2>4
<1>22. ASSUME NEW c \in Cancel, CancelLook(c) PROVE CallInv'
  BY <1>22 DEF CancelLook, AtCall, Move
<1>23. ASSUME NEW c \in Cancel, CancelPut(c) PROVE CallInv'
  BY <1>23 DEF CancelPut, AtCall, Answer, CallAt
<1>24. ASSUME NEW c \in Cancel, CancelSession(c) PROVE CallInv'
  <2>1. CASE vertex.phase \in Live
    <3>1. call' = [call EXCEPT ![c] =
                     [CallAt("flag") EXCEPT !.turn = vertex.rid, !.rt = vertex.rt]]
      BY <1>24, <2>1 DEF CancelSession
    <3>2. /\ [CallAt("flag") EXCEPT !.turn = vertex.rid, !.rt = vertex.rt] \in CallOf
          /\ [CallAt("flag") EXCEPT !.turn = vertex.rid, !.rt = vertex.rt].pc = "flag"
      BY DEF CallAt, CallOf
    <3> QED BY <1>24, <3>1, <3>2 DEF CancelSession, CallOf
  <2>2. CASE vertex.phase \notin Live
    <3>1. call' = [call EXCEPT ![c] = CallAt("answered")]
      BY <1>24, <2>2 DEF CancelSession, Answer
    <3> QED BY <1>24, <3>1, AnsweredTyped DEF CancelSession, CallOf
  <2> QED BY <2>1, <2>2
<1>25. ASSUME NEW c \in Cancel, StopFlag(c) PROVE CallInv'
  BY <1>25 DEF StopFlag, AtCall, Move
<1>26. ASSUME NEW c \in Cancel, StopLatch(c) PROVE CallInv'
  <2>1. latch' \in [Turn -> LatchOf] /\ early' \subseteq Turn
    <3>1. CASE call[c].turn = None
      BY <1>26, <3>1 DEF StopLatch, LatchOf
    <3>2. CASE call[c].turn # None
      <4>1. call[c].turn \in Turn
        BY <3>2
      <4> QED BY <1>26, <3>2, <4>1, MarkTyped DEF StopLatch
    <3> QED BY <3>1, <3>2
  <2>2. /\ call' = [call EXCEPT ![c].pc = "stopKill"]
        /\ UNCHANGED <<turnVars, agent, vertex, record, flag>>
    BY <1>26 DEF StopLatch, Move
  <2> QED BY <2>1, <2>2 DEF LatchOf
<1>27. ASSUME NEW c \in Cancel, StopKill(c) PROVE CallInv'
  <2>1. agent' \in {agent, Killed(call[c].rt)}
    BY <1>27 DEF StopKill
  <2>2. Killed(call[c].rt) \in [Turn -> {"none", "running", "done", "error", "killed"}]
    BY DEF Killed
  <2> QED BY <1>27, <2>1, <2>2 DEF StopKill, Move
<1>28. ASSUME NEW c \in Cancel, StopVertex(c) PROVE CallInv'
  BY <1>28 DEF StopVertex, AtCall, Move, StampTerminal
<1>29. ASSUME NEW c \in Cancel, StopRead(c) PROVE CallInv'
  <2>1. CASE call[c].turn # None /\ record[call[c].turn] = "running"
    <3>1. call' = [call EXCEPT ![c].pc = "stopPut"] /\ call[c].turn \in Turn
      BY <1>29, <2>1 DEF StopRead, Move
    <3> QED BY <1>29, <3>1 DEF StopRead
  <2>2. CASE ~(call[c].turn # None /\ record[call[c].turn] = "running")
    <3>1. call' = [call EXCEPT ![c] = CallAt("answered")]
      BY <1>29, <2>2 DEF StopRead, Answer
    <3> QED BY <1>29, <3>1, AnsweredTyped DEF StopRead, CallOf
  <2> QED BY <2>1, <2>2
<1>30. ASSUME NEW c \in Cancel, StopPut(c) PROVE CallInv'
  BY <1>30 DEF StopPut, AtCall, Answer, CallAt
<1>31. CASE UNCHANGED vars
  BY <1>31 DEF vars
<1> HIDE DEF CallInv
<1> QED
  BY <1>1, <1>2, <1>3, <1>4, <1>5, <1>6, <1>7, <1>8, <1>9, <1>10, <1>11, <1>12,
     <1>13, <1>14, <1>15, <1>16, <1>17, <1>18, <1>19, <1>20, <1>21, <1>22, <1>23,
     <1>24, <1>25, <1>26, <1>27, <1>28, <1>29, <1>30, <1>31 DEF Next, TurnStep,
     CancelStep

\* The invariant that the theorems below rest on.
THEOREM CallsNameTurns == Spec => []CallInv
<1>1. Init => CallInv
  BY DEF Init, CallInv, TypeOK, CallNamesTurn, TurnPc, Outcomes, CallPc, Vertices, CallAt
<1> QED BY <1>1, CallStep, PTL DEF Spec

\* Every variable of the turns, the calls and the records stays in its range.
THEOREM TypeCorrect == Spec => []TypeOK
<1>1. CallInv => TypeOK
  BY DEF CallInv
<1> QED BY <1>1, CallsNameTurns, PTL
-----------------------------------------------------------------------------
(* A latched turn does not complete. *)

\* The last look comes after the agent's end, so an earlier latch decides the outcome.
LEMMA LatchStep == CallInv /\ LatchInv /\ [Next]_vars => LatchInv'
<1> SUFFICES ASSUME CallInv, LatchInv, [Next]_vars PROVE LatchInv'
  OBVIOUS
<1> USE DEF turnVars, Goto, TypeOK, TurnPc, CallInv, CallNamesTurn, Undecided,
            LatchInv, OutcomeDecided, EarlyLatched, CompletedByAgent, LatchedTurnNotCompleted,
            Cancelled
<1>1. ASSUME NEW r \in Turn, Accept(r) PROVE LatchInv'
  BY <1>1 DEF Accept
<1>2. ASSUME NEW r \in Turn, AcceptStamp(r) PROVE LatchInv'
  BY <1>2 DEF AcceptStamp
<1>3. ASSUME NEW r \in Turn, AcceptRecord(r) PROVE LatchInv'
  BY <1>3 DEF AcceptRecord
<1>4. ASSUME NEW r \in Turn, Begin(r) PROVE LatchInv'
  BY <1>4 DEF Begin
<1>5. ASSUME NEW r \in Turn, BeginRefused(r) PROVE LatchInv'
  BY <1>5 DEF BeginRefused, Decide
<1>6. ASSUME NEW r \in Turn, Launch(r) PROVE LatchInv'
  BY <1>6 DEF Launch, Decide
<1>7. ASSUME NEW r \in Turn, Start(r) PROVE LatchInv'
  BY <1>7 DEF Start
<1>8. ASSUME NEW r \in Turn, StartFailed(r) PROVE LatchInv'
  BY <1>8 DEF StartFailed, Decide
<1>9. ASSUME NEW r \in Turn, Register(r) PROVE LatchInv'
  BY <1>9 DEF Register, PutRunning
<1>10. ASSUME NEW r \in Turn, Recheck(r) PROVE LatchInv'
  <2>1. \A q \in Turn : agent[q] = "done" => agent'[q] = "done"
    BY <1>10, KilledTyped DEF Recheck
  <2>2. /\ pc[r] = "recheck"
        /\ pc' = [pc EXCEPT ![r] = "stampRt"] \/ pc' = [pc EXCEPT ![r] = "stampRun"]
    BY <1>10 DEF Recheck
  <2>3. \A q \in Turn : pc'[q] \in Undecided <=> pc[q] \in Undecided
    BY <2>2
  <2>4. UNCHANGED <<outcome, latch, early>>
    BY <1>10 DEF Recheck
  <2>5. OutcomeDecided'
    BY <2>3, <2>4
  <2>6. EarlyLatched' /\ LatchedTurnNotCompleted'
    BY <2>2, <2>4
  <2>7. CompletedByAgent'
    BY <2>1, <2>4
  <2> QED BY <2>5, <2>6, <2>7
<1>11. ASSUME NEW r \in Turn, StampStarted(r) PROVE LatchInv'
  BY <1>11 DEF StampStarted
<1>12. ASSUME NEW r \in Turn, PollStop(r) PROVE LatchInv'
  <2>1. \A q \in Turn : agent[q] = "done" => agent'[q] = "done"
    BY <1>12, KilledTyped DEF PollStop
  <2>2. pc[r] = "poll" /\ UNCHANGED <<latch, early>>
    BY <1>12 DEF PollStop
  <2>3. \/ UNCHANGED <<pc, outcome>>
        \/ /\ pc' = [pc EXCEPT ![r] = "stampEnd"]
           /\ outcome' = [outcome EXCEPT ![r] = "cancelled"]
    BY <1>12 DEF PollStop, Decide, LeavePoll
  <2>4. \A q \in Turn : /\ outcome'[q] = "none" <=> pc'[q] \in Undecided
                        /\ outcome'[q] = "completed" => outcome[q] = "completed"
    BY <2>2, <2>3
  <2>5. OutcomeDecided'
    BY <2>4
  <2>6. EarlyLatched' /\ LatchedTurnNotCompleted'
    <3>1. EarlyLatched'
      BY <2>2
    <3>2. ASSUME NEW q \in early, pc'[q] \in {"stampEnd", "settle", "persist", "done"}
          PROVE  outcome'[q] # "completed"
      BY <2>2, <2>3, <2>4, <3>2
    <3> QED BY <2>2, <3>1, <3>2
  <2>7. CompletedByAgent'
    BY <2>1, <2>4
  <2> QED BY <2>5, <2>6, <2>7
<1>13. ASSUME NEW r \in Turn, PollDone(r) PROVE LatchInv'
  BY <1>13 DEF PollDone, Decide, LeavePoll
<1>14. ASSUME NEW r \in Turn, PollLost(r) PROVE LatchInv'
  BY <1>14 DEF PollLost, Decide, LeavePoll
<1>15. ASSUME NEW r \in Turn, Final(r) PROVE LatchInv'
  BY <1>15 DEF Final, Decide, GotoEnd
<1>16. ASSUME NEW r \in Turn, StampEnd(r) PROVE LatchInv'
  BY <1>16 DEF StampEnd, StampTerminal
<1>17. ASSUME NEW r \in Turn, Settle(r) PROVE LatchInv'
  BY <1>17 DEF Settle
<1>18. ASSUME NEW r \in Turn, Persist(r) PROVE LatchInv'
  BY <1>18 DEF Persist
<1>19. ASSUME NEW r \in Turn, AgentEnds(r) PROVE LatchInv'
  BY <1>19 DEF AgentEnds
<1>20. ASSUME NEW c \in Cancel, CancelResponse(c) PROVE LatchInv'
  BY <1>20 DEF CancelResponse, AtCall, CallAt
<1>21. ASSUME NEW c \in Cancel, CancelLatch(c) PROVE LatchInv'
  BY <1>21 DEF CancelLatch, AtCall, MarkCancelled, Answer, CallAt
<1>22. ASSUME NEW c \in Cancel, CancelLook(c) PROVE LatchInv'
  BY <1>22 DEF CancelLook, AtCall, Move
<1>23. ASSUME NEW c \in Cancel, CancelPut(c) PROVE LatchInv'
  BY <1>23 DEF CancelPut, AtCall, Answer, CallAt
<1>24. ASSUME NEW c \in Cancel, CancelSession(c) PROVE LatchInv'
  BY <1>24 DEF CancelSession, AtCall, Answer, CallAt
<1>25. ASSUME NEW c \in Cancel, StopFlag(c) PROVE LatchInv'
  BY <1>25 DEF StopFlag, AtCall, Move
<1>26. ASSUME NEW c \in Cancel, StopLatch(c) PROVE LatchInv'
  <2>1. CASE call[c].turn = None
    BY <1>26, <2>1 DEF StopLatch
  <2>2. CASE call[c].turn # None
    <3>1. call[c].turn \in Turn /\ MarkCancelled(call[c].turn)
      BY <1>26, <2>2 DEF StopLatch
    <3> QED BY <1>26, <3>1, MarkTyped DEF StopLatch
  <2> QED BY <2>1, <2>2
<1>27. ASSUME NEW c \in Cancel, StopKill(c) PROVE LatchInv'
  BY <1>27 DEF StopKill, AtCall, Move, Killed
<1>28. ASSUME NEW c \in Cancel, StopVertex(c) PROVE LatchInv'
  BY <1>28 DEF StopVertex, AtCall, Move, StampTerminal
<1>29. ASSUME NEW c \in Cancel, StopRead(c) PROVE LatchInv'
  BY <1>29 DEF StopRead, AtCall, Move, Answer, CallAt
<1>30. ASSUME NEW c \in Cancel, StopPut(c) PROVE LatchInv'
  BY <1>30 DEF StopPut, AtCall, Answer, CallAt
<1>31. CASE UNCHANGED vars
  BY <1>31 DEF vars
<1> HIDE DEF LatchInv
<1> QED
  BY <1>1, <1>2, <1>3, <1>4, <1>5, <1>6, <1>7, <1>8, <1>9, <1>10, <1>11, <1>12,
     <1>13, <1>14, <1>15, <1>16, <1>17, <1>18, <1>19, <1>20, <1>21, <1>22, <1>23,
     <1>24, <1>25, <1>26, <1>27, <1>28, <1>29, <1>30, <1>31 DEF Next, TurnStep,
     CancelStep

\* LatchedTurnNotCompleted for any turns, cancels and replicas: the last look for
\* a cancel (_resp_execute, after the poll loop) finds every latch that came
\* before the agent's own end.
THEOREM LatchWins == Spec => []LatchedTurnNotCompleted
<1>1. Init => LatchInv
  BY DEF Init, LatchInv, OutcomeDecided, Undecided, EarlyLatched, CompletedByAgent,
     LatchedTurnNotCompleted
<1>2. LatchInv => LatchedTurnNotCompleted
  BY DEF LatchInv
<1> QED BY <1>1, <1>2, CallsNameTurns, LatchStep, PTL DEF Spec
-----------------------------------------------------------------------------
(* No agent is left behind. *)

\* With a sandbox that answers no agent outlives its turn's polls.
LEMMA AgentStep == CallInv /\ AgentWithinTurn /\ [Next]_vars => AgentWithinTurn'
<1> SUFFICES ASSUME CallInv, AgentWithinTurn, [Next]_vars PROVE AgentWithinTurn'
  OBVIOUS
<1> USE DEF turnVars, Goto, TypeOK, CallInv, Ending, AgentWithinTurn
<1>1. ASSUME NEW r \in Turn, Accept(r) PROVE AgentWithinTurn'
  BY <1>1 DEF Accept
<1>2. ASSUME NEW r \in Turn, AcceptStamp(r) PROVE AgentWithinTurn'
  BY <1>2 DEF AcceptStamp
<1>3. ASSUME NEW r \in Turn, AcceptRecord(r) PROVE AgentWithinTurn'
  BY <1>3 DEF AcceptRecord
<1>4. ASSUME NEW r \in Turn, Begin(r) PROVE AgentWithinTurn'
  BY <1>4 DEF Begin
<1>5. ASSUME NEW r \in Turn, BeginRefused(r) PROVE AgentWithinTurn'
  BY <1>5 DEF BeginRefused, Decide
<1>6. ASSUME NEW r \in Turn, Launch(r) PROVE AgentWithinTurn'
  BY <1>6 DEF Launch, Decide
<1>7. ASSUME NEW r \in Turn, Start(r) PROVE AgentWithinTurn'
  BY <1>7 DEF Start
<1>8. ASSUME NEW r \in Turn, StartFailed(r) PROVE AgentWithinTurn'
  BY <1>8 DEF StartFailed, Decide
<1>9. ASSUME NEW r \in Turn, Register(r) PROVE AgentWithinTurn'
  BY <1>9 DEF Register, PutRunning
<1>10. ASSUME NEW r \in Turn, Recheck(r) PROVE AgentWithinTurn'
  BY <1>10 DEF Recheck, Killed
<1>11. ASSUME NEW r \in Turn, StampStarted(r) PROVE AgentWithinTurn'
  BY <1>11 DEF StampStarted
<1>12. ASSUME NEW r \in Turn, PollStop(r) PROVE AgentWithinTurn'
  BY <1>12 DEF PollStop, Decide, LeavePoll, Killed
<1>13. ASSUME NEW r \in Turn, PollDone(r) PROVE AgentWithinTurn'
  BY <1>13 DEF PollDone, Decide, LeavePoll
<1>14. ASSUME NEW r \in Turn, PollLost(r) PROVE AgentWithinTurn'
  BY <1>14 DEF PollLost, Decide, LeavePoll
<1>15. ASSUME NEW r \in Turn, Final(r) PROVE AgentWithinTurn'
  BY <1>15 DEF Final, Decide, GotoEnd
<1>16. ASSUME NEW r \in Turn, StampEnd(r) PROVE AgentWithinTurn'
  BY <1>16 DEF StampEnd, StampTerminal
<1>17. ASSUME NEW r \in Turn, Settle(r) PROVE AgentWithinTurn'
  BY <1>17 DEF Settle
<1>18. ASSUME NEW r \in Turn, Persist(r) PROVE AgentWithinTurn'
  BY <1>18 DEF Persist
<1>19. ASSUME NEW r \in Turn, AgentEnds(r) PROVE AgentWithinTurn'
  BY <1>19 DEF AgentEnds
<1>20. ASSUME NEW c \in Cancel, CancelResponse(c) PROVE AgentWithinTurn'
  BY <1>20 DEF CancelResponse, AtCall, CallAt
<1>21. ASSUME NEW c \in Cancel, CancelLatch(c) PROVE AgentWithinTurn'
  BY <1>21 DEF CancelLatch, AtCall, MarkCancelled, Answer, CallAt
<1>22. ASSUME NEW c \in Cancel, CancelLook(c) PROVE AgentWithinTurn'
  BY <1>22 DEF CancelLook, AtCall, Move
<1>23. ASSUME NEW c \in Cancel, CancelPut(c) PROVE AgentWithinTurn'
  BY <1>23 DEF CancelPut, AtCall, Answer, CallAt
<1>24. ASSUME NEW c \in Cancel, CancelSession(c) PROVE AgentWithinTurn'
  BY <1>24 DEF CancelSession, AtCall, Answer, CallAt
<1>25. ASSUME NEW c \in Cancel, StopFlag(c) PROVE AgentWithinTurn'
  BY <1>25 DEF StopFlag, AtCall, Move
<1>26. ASSUME NEW c \in Cancel, StopLatch(c) PROVE AgentWithinTurn'
  BY <1>26 DEF StopLatch, AtCall, Move, MarkCancelled
<1>27. ASSUME NEW c \in Cancel, StopKill(c) PROVE AgentWithinTurn'
  BY <1>27 DEF StopKill, AtCall, Move, Killed
<1>28. ASSUME NEW c \in Cancel, StopVertex(c) PROVE AgentWithinTurn'
  BY <1>28 DEF StopVertex, AtCall, Move, StampTerminal
<1>29. ASSUME NEW c \in Cancel, StopRead(c) PROVE AgentWithinTurn'
  BY <1>29 DEF StopRead, AtCall, Move, Answer, CallAt
<1>30. ASSUME NEW c \in Cancel, StopPut(c) PROVE AgentWithinTurn'
  BY <1>30 DEF StopPut, AtCall, Answer, CallAt
<1>31. CASE UNCHANGED vars
  BY <1>31 DEF vars
<1> HIDE DEF AgentWithinTurn
<1> QED
  BY <1>1, <1>2, <1>3, <1>4, <1>5, <1>6, <1>7, <1>8, <1>9, <1>10, <1>11, <1>12,
     <1>13, <1>14, <1>15, <1>16, <1>17, <1>18, <1>19, <1>20, <1>21, <1>22, <1>23,
     <1>24, <1>25, <1>26, <1>27, <1>28, <1>29, <1>30, <1>31 DEF Next, TurnStep,
     CancelStep

\* NoAgentLeftBehind for any turns and cancels: with a sandbox that answers, a
\* turn leaves its poll loop only when the runner says that its agent is over.
THEOREM AgentEndsWithTurn == Spec => []NoAgentLeftBehind
<1>1. Init => AgentWithinTurn
  BY DEF Init, AgentWithinTurn, Ending
<1>2. AgentWithinTurn => NoAgentLeftBehind
  BY DEF AgentWithinTurn, Ending, NoAgentLeftBehind
<1> QED BY <1>1, <1>2, CallsNameTurns, AgentStep, PTL DEF Spec
-----------------------------------------------------------------------------
(* A quiet session is settled. *)

\* A turn marks the session ended before it is done, and stores how it ended.
LEMMA SettledStep == CallInv /\ SettledInv /\ [Next]_vars => SettledInv'
<1> SUFFICES ASSUME CallInv, SettledInv, [Next]_vars PROVE SettledInv'
  OBVIOUS
<1> USE DEF turnVars, Goto, TypeOK, TurnPc, Outcomes, CallInv, Undecided, Live,
            OwesStamp, SettledInv, OutcomeDecided, DoneIsRecorded, LiveHasTurn
<1>1. ASSUME NEW r \in Turn, Accept(r) PROVE SettledInv'
  BY <1>1 DEF Accept
<1>2. ASSUME NEW r \in Turn, AcceptStamp(r) PROVE SettledInv'
  BY <1>2 DEF AcceptStamp
<1>3. ASSUME NEW r \in Turn, AcceptRecord(r) PROVE SettledInv'
  BY <1>3 DEF AcceptRecord
<1>4. ASSUME NEW r \in Turn, Begin(r) PROVE SettledInv'
  BY <1>4 DEF Begin
<1>5. ASSUME NEW r \in Turn, BeginRefused(r) PROVE SettledInv'
  BY <1>5 DEF BeginRefused, Decide
<1>6. ASSUME NEW r \in Turn, Launch(r) PROVE SettledInv'
  BY <1>6 DEF Launch, Decide
<1>7. ASSUME NEW r \in Turn, Start(r) PROVE SettledInv'
  BY <1>7 DEF Start
<1>8. ASSUME NEW r \in Turn, StartFailed(r) PROVE SettledInv'
  BY <1>8 DEF StartFailed, Decide
<1>9. ASSUME NEW r \in Turn, Register(r) PROVE SettledInv'
  BY <1>9 DEF Register, PutRunning
<1>10. ASSUME NEW r \in Turn, Recheck(r) PROVE SettledInv'
  BY <1>10 DEF Recheck, Killed
<1>11. ASSUME NEW r \in Turn, StampStarted(r) PROVE SettledInv'
  BY <1>11 DEF StampStarted
<1>12. ASSUME NEW r \in Turn, PollStop(r) PROVE SettledInv'
  BY <1>12 DEF PollStop, Decide, LeavePoll, Killed
<1>13. ASSUME NEW r \in Turn, PollDone(r) PROVE SettledInv'
  BY <1>13 DEF PollDone, Decide, LeavePoll
<1>14. ASSUME NEW r \in Turn, PollLost(r) PROVE SettledInv'
  BY <1>14 DEF PollLost, Decide, LeavePoll
<1>15. ASSUME NEW r \in Turn, Final(r) PROVE SettledInv'
  BY <1>15 DEF Final, Decide, GotoEnd
<1>16. ASSUME NEW r \in Turn, StampEnd(r) PROVE SettledInv'
  BY <1>16 DEF StampEnd, StampTerminal
<1>17. ASSUME NEW r \in Turn, Settle(r) PROVE SettledInv'
  BY <1>17 DEF Settle
<1>18. ASSUME NEW r \in Turn, Persist(r) PROVE SettledInv'
  BY <1>18 DEF Persist
<1>19. ASSUME NEW r \in Turn, AgentEnds(r) PROVE SettledInv'
  BY <1>19 DEF AgentEnds
<1>20. ASSUME NEW c \in Cancel, CancelResponse(c) PROVE SettledInv'
  BY <1>20 DEF CancelResponse, AtCall, CallAt
<1>21. ASSUME NEW c \in Cancel, CancelLatch(c) PROVE SettledInv'
  BY <1>21 DEF CancelLatch, AtCall, MarkCancelled, Answer, CallAt
<1>22. ASSUME NEW c \in Cancel, CancelLook(c) PROVE SettledInv'
  BY <1>22 DEF CancelLook, AtCall, Move
<1>23. ASSUME NEW c \in Cancel, CancelPut(c) PROVE SettledInv'
  BY <1>23 DEF CancelPut, AtCall, Answer, CallAt
<1>24. ASSUME NEW c \in Cancel, CancelSession(c) PROVE SettledInv'
  BY <1>24 DEF CancelSession, AtCall, Answer, CallAt
<1>25. ASSUME NEW c \in Cancel, StopFlag(c) PROVE SettledInv'
  BY <1>25 DEF StopFlag, AtCall, Move
<1>26. ASSUME NEW c \in Cancel, StopLatch(c) PROVE SettledInv'
  BY <1>26 DEF StopLatch, AtCall, Move, MarkCancelled
<1>27. ASSUME NEW c \in Cancel, StopKill(c) PROVE SettledInv'
  BY <1>27 DEF StopKill, AtCall, Move, Killed
<1>28. ASSUME NEW c \in Cancel, StopVertex(c) PROVE SettledInv'
  BY <1>28 DEF StopVertex, AtCall, Move, StampTerminal
<1>29. ASSUME NEW c \in Cancel, StopRead(c) PROVE SettledInv'
  BY <1>29 DEF StopRead, AtCall, Move, Answer, CallAt
<1>30. ASSUME NEW c \in Cancel, StopPut(c) PROVE SettledInv'
  BY <1>30 DEF StopPut, AtCall, Answer, CallAt
<1>31. CASE UNCHANGED vars
  BY <1>31 DEF vars
<1> HIDE DEF SettledInv
<1> QED
  BY <1>1, <1>2, <1>3, <1>4, <1>5, <1>6, <1>7, <1>8, <1>9, <1>10, <1>11, <1>12,
     <1>13, <1>14, <1>15, <1>16, <1>17, <1>18, <1>19, <1>20, <1>21, <1>22, <1>23,
     <1>24, <1>25, <1>26, <1>27, <1>28, <1>29, <1>30, <1>31 DEF Next, TurnStep,
     CancelStep

\* QuietIsSettled for any turns and cancels: when no task and no call is at work,
\* every turn has its end on record, and the session is live only after a
\* failure.
THEOREM QuietSettled == Spec => []QuietIsSettled
<1>1. Init => SettledInv
  BY DEF Init, SettledInv, OutcomeDecided, Undecided, DoneIsRecorded, LiveHasTurn, Live
<1>2. SettledInv => QuietIsSettled
  BY DEF SettledInv, DoneIsRecorded, LiveHasTurn, OwesStamp, QuietIsSettled, Quiet
<1> QED BY <1>1, <1>2, CallsNameTurns, SettledStep, PTL DEF Spec
=============================================================================
