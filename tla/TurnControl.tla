---------------------------- MODULE TurnControl ----------------------------
(***************************************************************************)
(* The turns of one session and the calls that stop them (gateway/app.py:  *)
(* create_response, _resp_execute, cancel_response, cancel_session,        *)
(* _stop_session), over the session's vertex, the stored response records, *)
(* the per-response control record of gateway/control_store.py and the     *)
(* in-process Stop flags.                                                  *)
(*                                                                         *)
(* Every await is a place where another call may act, so a handler is one  *)
(* action per await.  The control record's writes are compare-and-swap     *)
(* loops that decide on what they replace; each is one step here.  The     *)
(* control store answers (store faults: see SessionLease), one connection  *)
(* serves the turn, and the replica lives.                                 *)
(***************************************************************************)
EXTENDS Integers

CONSTANTS
  N,              \* bound: turns sent to the session
  Cancel,         \* calls that stop a turn
  Replica,        \* gateway replicas
  Home,           \* the replica each turn was sent to, which runs it
  Overlap,        \* TRUE: a turn may be sent while another runs (lease observe)
  SandboxFaults,  \* TRUE: a call to the sandbox may fail for good
  None            \* no turn

ASSUME NAssumption == N \in Nat

\* The session's response ids, in the order they are accepted.
Turn == 1 .. N

ASSUME NoneAssumption == None \notin Turn

ASSUME HomeAssumption == Home \in [Turn -> Replica]

VARIABLES
  pc,       \* where each turn's task stands
  outcome,  \* the status _resp_execute returns
  killSent, \* the poll loop asked the sandbox to stop the turn
  agent,    \* the runner's turn: what its process does
  vertex,   \* the session: phase, running_response_id, runner_turn_id
  latch,    \* the control record of each response: status, runner_turn_id
  record,   \* the status in responses/<id>.json
  flag,     \* replicas whose _cancel_req holds the session
  call,     \* each cancel call: where it stands and what it has read
  early     \* history: turns latched before their agent ended by itself

turnVars == <<pc, outcome, killSent>>
vars == <<turnVars, agent, vertex, latch, record, flag, call, early>>
-----------------------------------------------------------------------------
TurnPc == {"none", "stamp", "record", "begin", "launch", "start", "register",
           "recheck", "stampRt", "stampRun", "poll", "final", "stampEnd",
           "settle", "persist", "done"}
Outcomes == {"none", "completed", "failed", "cancelled"}
CallPc == {"idle", "latch", "look", "flag", "stopLatch", "stopKill",
           "stopVertex", "stopRead", "stopPut", "put", "answered"}
Vertices == [phase : {"idle", "starting", "running", "ended"},
             rid : Turn \cup {None}, rt : Turn \cup {None}]
Live == {"starting", "running"}

\* A call that has read nothing yet, or has answered.
CallAt(l) == [pc |-> l, turn |-> None, live |-> FALSE, rt |-> None]

Goto(r, l) == pc' = [pc EXCEPT ![r] = l]
Decide(r, o) == outcome' = [outcome EXCEPT ![r] = o]

\* The session's status and turn_status get a terminal value.
StampTerminal == vertex' = [vertex EXCEPT !.phase = "ended"]

\* Mutant: only the in-process flag is consulted.
CancelledHere(r) == Home[r] \in flag

\* _turn_cancelled: the Stop flag of the turn's replica, or its durable latch.
Cancelled(r) == Home[r] \in flag \/ latch[r].status = "cancelled"

\* The runner ended the agent by a cancel, if it was still running.
Killed(r) == [agent EXCEPT ![r] = IF @ = "running" THEN "killed" ELSE @]

\* Mutant: a status outside the record's vocabulary, which nobody looks for.
MarkCanceled(r) ==
  /\ latch' = [latch EXCEPT ![r].status = "canceled"]
  /\ UNCHANGED early

\* resp_mark_terminal(.., "cancelled", ..): one way, whatever was there.
MarkCancelled(r) ==
  /\ latch' = [latch EXCEPT ![r].status = "cancelled"]
  /\ early' = IF agent[r] \in {"done", "error"} THEN early ELSE early \cup {r}

\* resp_put_running: never over a terminal record.
PutRunning(r) ==
  latch' = IF latch[r].status = "cancelled" THEN latch
           ELSE [latch EXCEPT ![r] = [status |-> "running", rt |-> r]]
-----------------------------------------------------------------------------
Init ==
  /\ pc = [r \in Turn |-> "none"]
  /\ outcome = [r \in Turn |-> "none"]
  /\ killSent = [r \in Turn |-> FALSE]
  /\ agent = [r \in Turn |-> "none"]
  /\ vertex = [phase |-> "idle", rid |-> None, rt |-> None]
  /\ latch = [r \in Turn |-> [status |-> "none", rt |-> None]]
  /\ record = [r \in Turn |-> "none"]
  /\ flag = {}
  /\ call = [c \in Cancel |-> CallAt("idle")]
  /\ early = {}

(* create_response, from the accept to the detached task. *)

\* The turn owns the session from here: a leftover Stop flag is dropped.
Accept(r) ==
  /\ pc[r] = "none"
  /\ \A q \in 1 .. r - 1 : pc[q] \in (IF Overlap THEN TurnPc \ {"none"} ELSE {"done"})
  /\ flag' = flag \ {Home[r]}
  /\ Goto(r, "stamp")
  /\ UNCHANGED <<outcome, killSent, agent, vertex, latch, record, call, early>>

AcceptStamp(r) ==
  /\ pc[r] = "stamp"
  /\ vertex' = [phase |-> "starting", rid |-> r, rt |-> None]
  /\ Goto(r, "record")
  /\ UNCHANGED <<outcome, killSent, agent, latch, record, flag, call, early>>

AcceptRecord(r) ==
  /\ pc[r] = "record"
  /\ record' = [record EXCEPT ![r] = "running"]
  /\ Goto(r, "begin")
  /\ UNCHANGED <<outcome, killSent, agent, vertex, latch, flag, call, early>>

(* _resp_execute. *)

\* Admitted by the lease, the session is stamped and the workspace restored.
Begin(r) ==
  /\ pc[r] = "begin"
  /\ vertex' = [vertex EXCEPT !.phase = "starting", !.rt = None]
  /\ Goto(r, "launch")
  /\ UNCHANGED <<outcome, killSent, agent, latch, record, flag, call, early>>

\* The lease refuses the turn, or its checkpoint cannot be restored: the turn
\* returns at once, past every later check and the final flag reset.
BeginRefused(r) ==
  /\ pc[r] = "begin"
  /\ Decide(r, "failed")
  /\ vertex' \in {vertex, [vertex EXCEPT !.phase = "starting", !.rt = None]}
  /\ Goto(r, "persist")
  /\ UNCHANGED <<killSent, agent, latch, record, flag, call, early>>

\* A Stop that came during the warm-up is honoured before the agent starts.
Launch(r) ==
  /\ pc[r] = "launch"
  /\ IF Cancelled(r) THEN Decide(r, "cancelled") /\ Goto(r, "stampEnd")
                     ELSE Goto(r, "start") /\ UNCHANGED outcome
  /\ UNCHANGED <<killSent, agent, vertex, latch, record, flag, call, early>>

\* POST /turn, keyed by the response id.
Start(r) ==
  /\ pc[r] = "start"
  /\ agent' = [agent EXCEPT ![r] = "running"]
  /\ Goto(r, "register")
  /\ UNCHANGED <<outcome, killSent, vertex, latch, record, flag, call, early>>

\* The runner refuses, or never answers a turn it may have started: no
\* connection is left to try.
StartFailed(r) ==
  /\ pc[r] = "start"
  /\ agent' \in {agent} \cup
       (IF SandboxFaults THEN {[agent EXCEPT ![r] = "running"]} ELSE {})
  /\ Decide(r, "failed")
  /\ Goto(r, "settle")
  /\ UNCHANGED <<killSent, vertex, latch, record, flag, call, early>>

Register(r) ==
  /\ pc[r] = "register"
  /\ PutRunning(r)
  /\ Goto(r, "recheck")
  /\ UNCHANGED <<outcome, killSent, agent, vertex, record, flag, call, early>>

\* A cancel that landed before the registration could only latch.
Recheck(r) ==
  /\ pc[r] = "recheck"
  /\ IF Cancelled(r)
     THEN /\ agent' \in {Killed(r)} \cup (IF SandboxFaults THEN {agent} ELSE {})
          /\ Goto(r, "stampRt")
     ELSE /\ Goto(r, "stampRun")
          /\ UNCHANGED agent
  /\ UNCHANGED <<outcome, killSent, vertex, latch, record, flag, call, early>>

StampStarted(r) ==
  /\ \/ pc[r] = "stampRt" /\ vertex' = [vertex EXCEPT !.rt = r]
     \/ pc[r] = "stampRun" /\ vertex' = [vertex EXCEPT !.rt = r, !.phase = "running"]
  /\ Goto(r, "poll")
  /\ UNCHANGED <<outcome, killSent, agent, latch, record, flag, call, early>>

\* The poll loop is left, and its local variable with it.
LeavePoll(r, l) ==
  /\ killSent' = [killSent EXCEPT ![r] = FALSE]
  /\ Goto(r, l)

\* Mutant: the turn is settled without asking the sandbox.
PollStopNoKill(r) ==
  /\ pc[r] = "poll"
  /\ Cancelled(r)
  /\ Decide(r, "cancelled") /\ LeavePoll(r, "stampEnd")
  /\ UNCHANGED <<agent, vertex, latch, record, flag, call, early>>

\* The poll loop sees the Stop and asks the sandbox once; a call that fails,
\* landed or not, ends the turn as cancelled.
PollStop(r) ==
  /\ pc[r] = "poll"
  /\ ~killSent[r]
  /\ Cancelled(r)
  /\ \/ /\ agent' = Killed(r)
        /\ killSent' = [killSent EXCEPT ![r] = TRUE]
        /\ UNCHANGED <<pc, outcome>>
     \/ /\ SandboxFaults
        /\ agent' \in {agent, Killed(r)}
        /\ Decide(r, "cancelled") /\ LeavePoll(r, "stampEnd")
  /\ UNCHANGED <<vertex, latch, record, flag, call, early>>

\* The poll answers that the turn is over.
PollDone(r) ==
  /\ pc[r] = "poll"
  /\ agent[r] \in {"done", "error", "killed"}
  /\ Decide(r, CASE agent[r] = "done" -> "completed"
                 [] agent[r] = "error" -> "failed"
                 [] agent[r] = "killed" -> "cancelled")
  /\ LeavePoll(r, "final")
  /\ UNCHANGED <<agent, vertex, latch, record, flag, call, early>>

\* Five polls fail in a row: the turn is given up.
PollLost(r) ==
  /\ SandboxFaults
  /\ pc[r] = "poll"
  /\ Decide(r, "failed")
  /\ LeavePoll(r, "settle")
  /\ UNCHANGED <<agent, vertex, latch, record, flag, call, early>>

\* A failed turn leaves the session's phase to the sweep, unless the provider
\* refused the key.
GotoEnd(r) ==
  \/ Goto(r, "stampEnd")
  \/ outcome[r] = "failed" /\ Goto(r, "settle")

\* Mutant: the last look for a cancel is left out.
FinalUnchecked(r) ==
  /\ pc[r] = "final"
  /\ GotoEnd(r)
  /\ UNCHANGED <<outcome, killSent, agent, vertex, latch, record, flag, call, early>>

\* A cancel the client was answered wins over the runner's own end.
Final(r) ==
  /\ pc[r] = "final"
  /\ \/ Cancelled(r) /\ Decide(r, "cancelled") /\ Goto(r, "stampEnd")
     \/ /\ ~Cancelled(r)
        /\ GotoEnd(r)
        /\ UNCHANGED outcome
  /\ UNCHANGED <<killSent, agent, vertex, latch, record, flag, call, early>>

\* Mutant: a cancelled turn leaves the session's stamp to the cancel call.
StampEndUnlessCancelled(r) ==
  /\ pc[r] = "stampEnd"
  /\ IF outcome[r] = "cancelled" THEN UNCHANGED vertex ELSE StampTerminal
  /\ Goto(r, "settle")
  /\ UNCHANGED <<outcome, killSent, agent, latch, record, flag, call, early>>

StampEnd(r) ==
  /\ pc[r] = "stampEnd"
  /\ StampTerminal
  /\ Goto(r, "settle")
  /\ UNCHANGED <<outcome, killSent, agent, latch, record, flag, call, early>>

\* Files are collected, the Stop flag is dropped, the workspace is saved and
\* the trace finalized.
Settle(r) ==
  /\ pc[r] = "settle"
  /\ flag' = flag \ {Home[r]}
  /\ Goto(r, "persist")
  /\ UNCHANGED <<outcome, killSent, agent, vertex, latch, record, call, early>>

Persist(r) ==
  /\ pc[r] = "persist"
  /\ record' = [record EXCEPT ![r] = outcome[r]]
  /\ Goto(r, "done")
  /\ UNCHANGED <<outcome, killSent, agent, vertex, latch, flag, call, early>>

\* The agent ends by itself, well or badly.
AgentEnds(r) ==
  /\ agent[r] = "running"
  /\ \E e \in {"done", "error"} : agent' = [agent EXCEPT ![r] = e]
  /\ UNCHANGED <<turnVars, vertex, latch, record, flag, call, early>>
-----------------------------------------------------------------------------
(* cancel_response(turn): c is the call. *)

AtCall(c, l) == call[c].pc = l

Move(c, l) == call' = [call EXCEPT ![c].pc = l]

Answer(c) == call' = [call EXCEPT ![c] = CallAt("answered")]

\* The response's record is read.
CancelResponse(c) ==
  /\ AtCall(c, "idle")
  /\ \E r \in Turn :
       /\ record[r] # "none"
       /\ call' = [call EXCEPT ![c] = [CallAt("latch") EXCEPT !.turn = r,
                                         !.live = (record[r] = "running")]]
  /\ UNCHANGED <<turnVars, agent, vertex, latch, record, flag, early>>

\* The durable latch, which answers with the turn's own runner turn.
CancelLatch(c) ==
  /\ AtCall(c, "latch")
  /\ MarkCancelled(call[c].turn)
  /\ IF call[c].live
     THEN call' = [call EXCEPT ![c].rt = latch[call[c].turn].rt, ![c].pc = "look"]
     ELSE Answer(c)
  /\ UNCHANGED <<turnVars, agent, vertex, record, flag>>

\* The fast path only when the response is shown to own the live sandbox turn.
CancelLook(c) ==
  /\ AtCall(c, "look")
  /\ LET owns == /\ vertex.phase \in Live
                 /\ vertex.rt # None
                 /\ vertex.rt = call[c].rt
     IN Move(c, IF owns THEN "flag" ELSE "put")
  /\ UNCHANGED <<turnVars, agent, vertex, latch, record, flag, early>>

\* Not shown: the record as it was read is stored again as cancelled.
CancelPut(c) ==
  /\ AtCall(c, "put")
  /\ record' = [record EXCEPT ![call[c].turn] = "cancelled"]
  /\ Answer(c)
  /\ UNCHANGED <<turnVars, agent, vertex, latch, flag, early>>

(* cancel_session: the vertex names the turn and its runner turn. *)

CancelSession(c) ==
  /\ AtCall(c, "idle")
  /\ \/ /\ vertex.phase \in Live
        /\ call' = [call EXCEPT ![c] =
             [CallAt("flag") EXCEPT !.turn = vertex.rid, !.rt = vertex.rt]]
     \/ /\ vertex.phase \notin Live
        /\ Answer(c)
  /\ UNCHANGED <<turnVars, agent, vertex, latch, record, flag, early>>

(* _stop_session. *)

\* First of all the flag, at the replica that serves the call, which may be any;
\* it counts where a turn runs.
StopFlag(c) ==
  /\ AtCall(c, "flag")
  /\ \E at \in Replica : flag' = flag \cup ({at} \cap {Home[r] : r \in Turn})
  /\ Move(c, "stopLatch")
  /\ UNCHANGED <<turnVars, agent, vertex, latch, record, early>>

StopLatch(c) ==
  /\ AtCall(c, "stopLatch")
  /\ IF call[c].turn # None THEN MarkCancelled(call[c].turn)
                            ELSE UNCHANGED <<latch, early>>
  /\ Move(c, "stopKill")
  /\ UNCHANGED <<turnVars, agent, vertex, record, flag>>

StopKill(c) ==
  /\ AtCall(c, "stopKill")
  /\ LET rt == call[c].rt IN
       agent' \in (IF rt # None THEN {Killed(rt)} ELSE {agent})
                    \cup (IF SandboxFaults THEN {agent} ELSE {})
  /\ Move(c, "stopVertex")
  /\ UNCHANGED <<turnVars, vertex, latch, record, flag, early>>

StopVertex(c) ==
  /\ AtCall(c, "stopVertex")
  /\ StampTerminal
  /\ Move(c, "stopRead")
  /\ UNCHANGED <<turnVars, agent, latch, record, flag, early>>

StopRead(c) ==
  /\ AtCall(c, "stopRead")
  /\ IF call[c].turn # None /\ record[call[c].turn] = "running"
     THEN Move(c, "stopPut") ELSE Answer(c)
  /\ UNCHANGED <<turnVars, agent, vertex, latch, record, flag, early>>

StopPut(c) ==
  /\ AtCall(c, "stopPut")
  /\ record' = [record EXCEPT ![call[c].turn] = "cancelled"]
  /\ Answer(c)
  /\ UNCHANGED <<turnVars, agent, vertex, latch, flag, early>>
-----------------------------------------------------------------------------
TurnStep(r) ==
  \/ Accept(r) \/ AcceptStamp(r) \/ AcceptRecord(r)
  \/ Begin(r) \/ BeginRefused(r) \/ Launch(r) \/ Start(r) \/ StartFailed(r)
  \/ Register(r) \/ Recheck(r) \/ StampStarted(r)
  \/ PollStop(r) \/ PollDone(r) \/ PollLost(r) \/ Final(r)
  \/ StampEnd(r) \/ Settle(r) \/ Persist(r)

CancelStep(c) ==
  \/ CancelResponse(c) \/ CancelLatch(c) \/ CancelLook(c) \/ CancelPut(c)
  \/ CancelSession(c)
  \/ StopFlag(c) \/ StopLatch(c) \/ StopKill(c) \/ StopVertex(c)
  \/ StopRead(c) \/ StopPut(c)

Next ==
  \/ \E r \in Turn : TurnStep(r) \/ AgentEnds(r)
  \/ \E c \in Cancel : CancelStep(c)

Spec == Init /\ [][Next]_vars

\* A turn's task goes on as long as it can; nobody makes an agent end, a turn
\* be sent or a cancel be asked for.
FairSpec ==
  /\ Spec
  /\ \A r \in Turn : WF_vars(pc[r] # "none" /\ TurnStep(r))
-----------------------------------------------------------------------------
(* Properties. *)

TypeOK ==
  /\ pc \in [Turn -> TurnPc]
  /\ outcome \in [Turn -> Outcomes]
  /\ killSent \in [Turn -> BOOLEAN]
  /\ agent \in [Turn -> {"none", "running", "done", "error", "killed"}]
  /\ vertex \in Vertices
  /\ latch \in [Turn -> [status : {"none", "running", "cancelled"}, rt : Turn \cup {None}]]
  /\ record \in [Turn -> Outcomes \cup {"running"}]
  /\ flag \subseteq Replica
  /\ call \in [Cancel -> [pc : CallPc, turn : Turn \cup {None}, live : BOOLEAN,
                          rt : Turn \cup {None}]]
  /\ early \subseteq Turn

\* A turn whose cancel was latched before its agent ended by itself is never
\* settled as completed, however the cancel raced the start, the registration
\* or the last poll, and whichever replica took it.
LatchedTurnNotCompleted ==
  \A r \in early : pc[r] \in {"stampEnd", "settle", "persist", "done"}
                     => outcome[r] # "completed"

\* When its task is over, a turn leaves no agent running in the sandbox, in
\* particular not one that a cancel raced into existence.
NoAgentLeftBehind ==
  ~SandboxFaults => \A r \in Turn : pc[r] = "done" => agent[r] # "running"

Quiet ==
  /\ \A r \in Turn : pc[r] \in {"none", "done"}
  /\ \A c \in Cancel : call[c].pc \in {"idle", "answered"}

\* When everything has settled, no record is left running for the console to
\* show as working, and the session is live only if a turn failed, which the
\* sweep then settles.
QuietIsSettled ==
  Quiet =>
    /\ \A r \in Turn : pc[r] = "done" => record[r] \in {"completed", "failed", "cancelled"}
    /\ vertex.phase \in Live => \E r \in Turn : outcome[r] = "failed"

\* The agent of a latched turn stops, even one that would work forever.
CancelStopsAgent ==
  \A r \in Turn : (latch[r].status = "cancelled" /\ agent[r] = "running")
                    ~> agent[r] # "running"
=============================================================================
