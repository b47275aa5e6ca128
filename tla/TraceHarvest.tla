---------------------------- MODULE TraceHarvest ----------------------------
(***************************************************************************)
(* The end of a turn that may lose the replica that runs it                *)
(* (gateway/app.py): the poll loop that writes the runner's events to the  *)
(* durable trace, the sweep that settles or adopts a turn whose heartbeat  *)
(* is stale, the adopter that resumes the harvest, the settling of the     *)
(* response's record, the metering, and the drain at shutdown.             *)
(*                                                                         *)
(* One turn.  The owner is the task that runs it; each adopter is one      *)
(* adoption, on some replica.  Events are numbered by the runner; a turn   *)
(* that completes ends with a result event, one that fails has none.       *)
(* Cancels are in TurnControl, the lease of other turns in SessionLease.   *)
(* A heartbeat is stale when the last one is _RECONCILE_STALE_S old.       *)
(***************************************************************************)
EXTENDS Integers, FiniteSets

CONSTANTS
  Owner,        \* the task that runs the turn
  Adopter,      \* the adoptions there may be
  MaxEvents,    \* bound: events the runner's turn produces
  StoreFaults,  \* TRUE: a write to the trace may fail, or a read of the fence
  Unfenced,     \* the harvesters whose admission the store may fail
  RunnerFaults  \* TRUE: the runner may be lost or out of reach for five polls,
                \* or the thread that reads the turn's agent may raise

Harvester == {Owner} \cup Adopter

ASSUME OwnerAssumption == Owner \notin Adopter
ASSUME MaxEventsAssumption == MaxEvents \in Nat \ {0}

VARIABLES
  made,      \* events the runner has produced
  result,    \* the number of the result event, 0 while there is none
  over,      \* the runner's turn: "none", "live", "done", "gone" (404), or "stuck":
             \* its reader has raised, and its record is never done
  trace,     \* events in the durable trace
  cursor,    \* harvest_cursor on the control record
  session,   \* the vertex's status
  onRecord,  \* the vertex has runner_turn_id
  proven,    \* the vertex has an end_reason
  stale,     \* the vertex's heartbeat is stale
  late,      \* the turn is past the hard cap
  lease,     \* the fence of the session's lease, 0 before any admission
  record,    \* the response's record: "running", "settled" by a reconciler,
             \* or "whole": the harvest's own
  pc,        \* where each harvester stands
  fed,       \* events it has asked for
  kept,      \* events it knows to be in the trace
  saw,       \* the runner told it the turn is done
  mine,      \* its fence, 0 for none
  billed,    \* harvesters that reported the turn's usage, those in unsure apart
  sweep,     \* the row the sweep has read and is about to judge
  heal,      \* a reader of the record is about to settle it
  cutShort,  \* history: harvesters at work whose last write to the trace failed
  unsure,    \* history: harvesters at work that report without having seen the
             \* turn's end, without a fence, or without an answer about it
  overtaken, \* history: an adopter took the fence of a turn that had ended
  missed     \* history: the owner is alive and its heartbeat went stale

runnerVars == <<made, result, over>>
vertexVars == <<session, onRecord, proven>>
timeVars == <<stale, late, missed>>
taskVars == <<fed, kept, saw, mine>>
billVars == <<billed, unsure, overtaken>>
vars == <<runnerVars, trace, cursor, vertexVars, timeVars, lease, record, pc,
          taskVars, billVars, sweep, heal, cutShort>>
-----------------------------------------------------------------------------
Pc == {"slot", "restore", "register", "idle", "probe", "admit", "poll", "flush", "mark",
       "last", "stamp", "finalize", "report", "persist", "ended"}
Alive(h) == pc[h] \notin {"idle", "ended"}

Goto(h, l) == pc' = [pc EXCEPT ![h] = l]
\* A task that is over, or died, leaves nothing in memory.
End(h) ==
  /\ Goto(h, "ended")
  /\ fed' = [fed EXCEPT ![h] = 0] /\ kept' = [kept EXCEPT ![h] = 0]
  /\ saw' = [saw EXCEPT ![h] = FALSE] /\ mine' = [mine EXCEPT ![h] = 0]
  /\ cutShort' = cutShort \ {h} /\ unsure' = unsure \ {h}
  /\ missed' = (missed /\ h # Owner)

Pending(h) == (kept[h] + 1)..fed[h]

\* What the harvest of h came to: its poll saw a result, a failure, or nothing.
Completed(h) == saw[h] /\ result # 0

\* Mutant: the slot's beat stops when the gates are passed.
BeatingAtTheGates(h) == pc[h] \in {"slot", "poll", "flush", "mark"}

\* _turn_slot beats until the runner's turn is on record, the poll loop after.
Beating(h) == pc[h] \in {"slot", "restore", "register", "poll", "flush", "mark"}

\* Past the poll loop nothing beats.
Ending(h) == pc[h] \in {"last", "stamp", "finalize", "report", "persist"}

\* Mutant: the runner's offset advances whether or not the chunk was written.
AckedAnyway(h, ok) == fed[h]

\* _trace_flush: only a write that was acknowledged advances the cursor.
Acked(h, ok) == IF ok THEN fed[h] ELSE kept[h]

Reached(h) == kept[h]

\* Mutant: whoever finalizes reports.
AlwaysMeters(h) == TRUE

\* lease_still_held, under the fence taken at admission or adoption; who was let in
\* without one is not asked.
MayMeter(h) == mine[h] \in {0, lease}

\* What lease_admit, under the turn's own response id, which is never a conflict,
\* gives h: the next fence, or none when the store fails.
Admitted(h) ==
  \/ lease' = lease + 1 /\ mine' = [mine EXCEPT ![h] = lease + 1]
  \/ h \in Unfenced /\ UNCHANGED <<lease, mine>>

\* Mutant: any terminal session with a fresh heartbeat is left to its owner.
FreshIsOwned == ~stale

\* A terminal session that was beating moments ago is its owner's to finish,
\* unless the sweep wrote why it ended.
LeftToOwner == ~stale /\ ~proven

\* The record as it is read again just before it is settled.
StillRunning == record = "running"

\* _trace_terminal_status: the turn's own chunks hold a result event.
TraceHasResult == result # 0 /\ result \in trace
-----------------------------------------------------------------------------
Init ==
  /\ made = 0 /\ result = 0 /\ over = "none"
  /\ trace = {} /\ cursor = 0
  /\ session = "running" /\ onRecord = FALSE /\ proven = FALSE
  /\ stale = FALSE /\ late = FALSE /\ missed = FALSE
  /\ lease = 0
  /\ record = "running"
  /\ pc = [h \in Harvester |-> IF h = Owner THEN "slot" ELSE "idle"]
  /\ fed = [h \in Harvester |-> 0]
  /\ kept = [h \in Harvester |-> 0]
  /\ saw = [h \in Harvester |-> FALSE]
  /\ mine = [h \in Harvester |-> 0]
  /\ billed = {} /\ unsure = {} /\ overtaken = FALSE
  /\ sweep = "idle" /\ heal = FALSE
  /\ cutShort = {}

(* The runner. *)

Emit ==
  /\ over = "live" /\ result = 0 /\ made < MaxEvents
  /\ made' = made + 1
  /\ result' \in {0, made + 1}
  /\ UNCHANGED <<over, trace, cursor, vertexVars, timeVars, lease, record, pc,
                 taskVars, billVars, sweep, heal, cutShort>>

\* The turn ends; with no result event it has failed.
Finish ==
  /\ over = "live"
  /\ over' = "done"
  /\ UNCHANGED <<made, result, trace, cursor, vertexVars, timeVars, lease,
                 record, pc, taskVars, billVars, sweep, heal, cutShort>>

\* A normaliser raises: the thread is over, nothing more is recorded, and the
\* record answers for ever that the turn is not done.
ReaderRaises ==
  /\ RunnerFaults
  /\ over = "live"
  /\ over' = "stuck"
  /\ UNCHANGED <<made, result, trace, cursor, vertexVars, timeVars, lease,
                 record, pc, taskVars, billVars, sweep, heal, cutShort>>

\* A restart loses the runner's turns: it answers 404.
RunnerLost ==
  /\ RunnerFaults
  /\ over \in {"live", "done", "stuck"}
  /\ over' = "gone"
  /\ UNCHANGED <<made, result, trace, cursor, vertexVars, timeVars, lease,
                 record, pc, taskVars, billVars, sweep, heal, cutShort>>

(* Time. *)

GoStale ==
  /\ ~stale
  /\ stale' = TRUE
  /\ missed' = (missed \/ Beating(Owner) \/ Ending(Owner))
  /\ UNCHANGED <<runnerVars, trace, cursor, vertexVars, late, lease, record,
                 pc, taskVars, billVars, sweep, heal, cutShort>>

\* The heartbeat of the slot, of the poll loop or of an adopter.
Beat(h) ==
  /\ stale /\ Beating(h)
  /\ stale' = FALSE
  /\ UNCHANGED <<runnerVars, trace, cursor, vertexVars, late, missed, lease,
                 record, pc, taskVars, billVars, sweep, heal, cutShort>>

\* The cap is the runner's own and half an hour more: by then a runner's turn has
\* ended, and so has its harvest, unless its reader raised.  A restore may still
\* hang.
PassCap ==
  /\ ~late /\ over # "live"
  /\ \/ over = "stuck"
     \/ \A h \in Harvester : Alive(h) => pc[h] \in {"slot", "restore"}
  /\ late' = TRUE
  /\ UNCHANGED <<runnerVars, trace, cursor, vertexVars, stale, missed, lease,
                 record, pc, taskVars, billVars, sweep, heal, cutShort>>

(* The owner before its poll loop, and the adopter before its own. *)

\* Both gates are passed and the turn is admitted: the vertex is stamped.
Begin ==
  /\ pc[Owner] = "slot"
  /\ Admitted(Owner)
  /\ session' = "running" /\ onRecord' = FALSE /\ proven' = FALSE
  /\ stale' = FALSE
  /\ Goto(Owner, "restore")
  /\ UNCHANGED <<runnerVars, trace, cursor, late, missed, record,
                 fed, kept, saw, billVars, sweep, heal, cutShort>>

\* The workspace is restored; then POST /turn.
Post ==
  /\ pc[Owner] = "restore"
  /\ over' = "live"
  /\ Goto(Owner, "register")
  /\ UNCHANGED <<made, result, trace, cursor, vertexVars, timeVars, lease,
                 record, taskVars, billVars, sweep, heal, cutShort>>

\* The vertex gets runner_turn_id, and is running whatever it was.
Register ==
  /\ pc[Owner] = "register"
  /\ session' = "running" /\ onRecord' = TRUE
  /\ Goto(Owner, "poll")
  /\ UNCHANGED <<runnerVars, trace, cursor, proven, timeVars, lease, record,
                 taskVars, billVars, sweep, heal, cutShort>>

\* Whether the runner's turn is under way, as far as its record tells.
Working == over \in {"live", "stuck"}

\* Only a turn that is still working is adopted.
Probe(a) ==
  /\ pc[a] = "probe"
  /\ Goto(a, IF Working THEN "admit" ELSE "ended")
  /\ UNCHANGED <<runnerVars, trace, cursor, vertexVars, timeVars, lease,
                 record, taskVars, billVars, sweep, heal, cutShort>>

\* The adopter is admitted; the harvest resumes at the durable cursor.  The turn may
\* have ended since the probe.
Admit(a) ==
  /\ pc[a] = "admit"
  /\ Admitted(a)
  /\ overtaken' = (overtaken \/ ~Working)
  /\ fed' = [fed EXCEPT ![a] = cursor]
  /\ kept' = [kept EXCEPT ![a] = cursor]
  /\ Goto(a, "poll")
  /\ UNCHANGED <<runnerVars, trace, cursor, vertexVars, timeVars, record, saw,
                 billed, unsure, sweep, heal, cutShort>>

(* The harvest. *)

\* GET /turn from where the harvester stands.  The owner writes once per
\* interval and at the end, an adopter every answer.
Poll(h) ==
  /\ pc[h] = "poll"
  /\ over \in {"live", "done", "stuck"}
  /\ fed' = [fed EXCEPT ![h] = made]
  /\ saw' = [saw EXCEPT ![h] = over = "done"]
  /\ \/ made > kept[h] /\ Goto(h, "flush")
     \/ /\ over = "done" => made = kept[h]
        /\ h = Owner \/ made = kept[h]
        /\ Goto(h, IF over = "done" THEN "stamp" ELSE "poll")
  /\ UNCHANGED <<runnerVars, trace, cursor, vertexVars, timeVars, lease,
                 record, kept, mine, billVars, sweep, heal, cutShort>>

\* Five polls fail.  The owner writes what it holds and ends the turn failed;
\* an adopter leaves the turn to a later sweep.
GiveUp(h) ==
  /\ pc[h] = "poll"
  /\ over = "gone" \/ RunnerFaults
  /\ IF h \in Adopter THEN End(h)
     ELSE /\ Goto(h, IF Pending(h) # {} THEN "last" ELSE "finalize")
          /\ UNCHANGED <<taskVars, missed, cutShort, unsure>>
  /\ UNCHANGED <<runnerVars, trace, cursor, vertexVars, stale, late, lease,
                 record, billed, overtaken, sweep, heal>>

\* _trace_flush.  A failed write leaves what is pending for the next poll, but
\* when the turn is done there is none: the owner tries once more, an adopter
\* does not.
Flush(h) ==
  /\ pc[h] = "flush"
  /\ \E ok \in {TRUE, ~StoreFaults} :
       /\ trace' = IF ok THEN trace \cup Pending(h) ELSE trace
       /\ kept' = [kept EXCEPT ![h] = Acked(h, ok)]
       /\ fed' = [fed EXCEPT ![h] = IF h \in Adopter THEN Acked(h, ok) ELSE @]
       /\ Goto(h, IF ok THEN "mark"
                  ELSE IF ~saw[h] THEN "poll"
                  ELSE IF h = Owner THEN "last" ELSE "stamp")
       /\ cutShort' = IF ~ok /\ saw[h] /\ h \in Adopter THEN cutShort \cup {h}
                      ELSE cutShort
  /\ UNCHANGED <<runnerVars, cursor, vertexVars, timeVars, lease, record, saw,
                 mine, billVars, sweep, heal>>

\* resp_set_cursor: forward only, and lost without notice.
Mark(h) ==
  /\ pc[h] = "mark"
  /\ cursor' \in {cursor, IF Reached(h) > cursor THEN Reached(h) ELSE cursor}
  /\ Goto(h, IF saw[h] THEN "stamp" ELSE "poll")
  /\ UNCHANGED <<runnerVars, trace, vertexVars, timeVars, lease, record,
                 taskVars, billVars, sweep, heal, cutShort>>

\* The owner's loop was left with events pending; this write's answer is not read.
FlushLast ==
  /\ pc[Owner] = "last"
  /\ \E ok \in {TRUE, ~StoreFaults} :
       /\ trace' = IF ok THEN trace \cup Pending(Owner) ELSE trace
       /\ cutShort' = IF ok THEN cutShort ELSE cutShort \cup {Owner}
  /\ Goto(Owner, IF saw[Owner] THEN "stamp" ELSE "finalize")
  /\ UNCHANGED <<runnerVars, cursor, vertexVars, timeVars, lease, record,
                 taskVars, billVars, sweep, heal>>

\* Mutant: the Responses word, which no reader of a vertex knows.
OutcomeWord(h) == IF Completed(h) THEN "completed" ELSE "failed"

Outcome(h) == IF Completed(h) THEN "done" ELSE "failed"

\* The vertex is terminal from here.  A failed turn of the owner's leaves it to
\* the sweep.
Stamp(h) ==
  /\ pc[h] = "stamp"
  /\ session' = IF h = Owner /\ ~Completed(h) THEN session ELSE Outcome(h)
  /\ Goto(h, "finalize")
  /\ UNCHANGED <<runnerVars, trace, cursor, onRecord, proven, timeVars, lease,
                 record, taskVars, billVars, sweep, heal, cutShort>>

\* The checkpoint, then _trace_finalize: it asks whether the fence is still its
\* own, and one that cannot be read counts as held.
CheckFence(h) ==
  /\ pc[h] = "finalize"
  /\ \E read \in {TRUE, ~StoreFaults} :
       /\ Goto(h, IF read => MayMeter(h) THEN "report" ELSE "persist")
       /\ unsure' = IF (read => MayMeter(h)) /\ ~(read /\ saw[h] /\ mine[h] # 0)
                    THEN unsure \cup {h} ELSE unsure
  /\ UNCHANGED <<runnerVars, trace, cursor, vertexVars, timeVars, lease,
                 record, taskVars, billed, overtaken, sweep, heal, cutShort>>

\* The usage is reported by whoever was told so, also by an owner that gave up,
\* and whoever has been admitted since.
Report(h) ==
  /\ pc[h] = "report"
  /\ billed' = IF h \in unsure THEN billed ELSE billed \cup {h}
  /\ Goto(h, "persist")
  /\ UNCHANGED <<runnerVars, trace, cursor, vertexVars, timeVars, lease,
                 record, taskVars, unsure, overtaken, sweep, heal, cutShort>>

\* _resp_put: the whole record, over whatever is there.
Persist(h) ==
  /\ pc[h] = "persist"
  /\ record' = "whole"
  /\ End(h)
  /\ UNCHANGED <<runnerVars, trace, cursor, vertexVars, stale, late, lease,
                 billed, overtaken, sweep, heal>>

Crash(h) ==
  /\ Alive(h)
  /\ End(h)
  /\ UNCHANGED <<runnerVars, trace, cursor, vertexVars, stale, late, lease,
                 record, billed, overtaken, sweep, heal>>

\* _drain_inflight cancels the owner's task, which writes the record before the
\* process exits (_settle_drained), and leaves the vertex.
Drain ==
  /\ Alive(Owner)
  /\ record' = "whole"
  /\ End(Owner)
  /\ UNCHANGED <<runnerVars, trace, cursor, vertexVars, stale, late, lease,
                 billed, overtaken, sweep, heal>>

(* The sweep, one elected replica at a time. *)

\* end_reason is written with a verdict that is the sweep's own.
Settle(status, why) ==
  /\ session' = status
  /\ proven' = (proven \/ why)
  /\ UNCHANGED pc

\* A row is looked into when its heartbeat is stale, or when it is past the cap
\* with no runner turn on record, however fresh.
SweepFind ==
  /\ sweep = "idle"
  /\ session = "running"
  /\ stale \/ (late /\ ~onRecord)
  /\ sweep' = IF onRecord THEN "judge" ELSE "judgeUnstarted"
  /\ UNCHANGED <<runnerVars, trace, cursor, vertexVars, timeVars, lease,
                 record, pc, taskVars, billVars, heal, cutShort>>

\* The trace's result settles the turn; the cap does, and stops the runner's
\* turn; a runner that has no such turn does.  These are final when they are
\* read, so the verdict and its write are one step; the record follows, as for
\* any reader (HealLook).  Any other turn is adopted, by a task of its own.
SweepJudge ==
  /\ sweep # "idle"
  /\ sweep' = "idle"
  /\ \/ TraceHasResult /\ Settle("done", FALSE) /\ UNCHANGED over
     \/ /\ ~TraceHasResult /\ late
        /\ Settle("failed", TRUE)
        /\ over' = IF sweep = "judge" /\ over = "live" THEN "done" ELSE over
     \/ /\ ~TraceHasResult /\ ~late
        /\ sweep = "judgeUnstarted" \/ over = "gone"
        /\ Settle("failed", TRUE)
        /\ UNCHANGED over
     \/ /\ ~TraceHasResult /\ ~late
        /\ sweep = "judge" /\ over # "gone"
        /\ \/ \E a \in Adopter : pc[a] = "idle" /\ Goto(a, "probe")
           \/ (\A a \in Adopter : pc[a] # "idle") /\ UNCHANGED pc
        /\ UNCHANGED <<over, session, proven>>
  /\ UNCHANGED <<made, result, trace, cursor, onRecord, timeVars, lease, record,
                 taskVars, billVars, heal, cutShort>>

(* _reconcile_response: a poller's GET, or the sweep after its own settling. *)

\* A terminal session settles the record; so does a stale one whose trace has a
\* result or whose turn is past the cap.
HealLook ==
  /\ ~heal /\ record = "running"
  /\ \/ session # "running" /\ ~LeftToOwner
     \/ session = "running" /\ stale /\ (TraceHasResult \/ late)
  /\ heal' = TRUE
  /\ UNCHANGED <<runnerVars, trace, cursor, vertexVars, timeVars, lease,
                 record, pc, taskVars, billVars, sweep, cutShort>>

\* The record is read again; one that has ended meanwhile is left.
HealSettle ==
  /\ heal
  /\ record' = IF StillRunning THEN "settled" ELSE record
  /\ heal' = FALSE
  /\ UNCHANGED <<runnerVars, trace, cursor, vertexVars, timeVars, lease, pc,
                 taskVars, billVars, sweep, cutShort>>
-----------------------------------------------------------------------------
\* The steps a harvester takes by itself once its turn is in the runner.
HarvestStep(h) ==
  \/ Poll(h) \/ (GiveUp(h) /\ over = "gone") \/ Flush(h) \/ Mark(h) \/ Stamp(h)
  \/ CheckFence(h) \/ Report(h) \/ Persist(h)

SweepStep == SweepFind \/ SweepJudge
HealStep == HealLook \/ HealSettle

Next ==
  \/ Emit \/ Finish \/ ReaderRaises \/ RunnerLost \/ GoStale \/ PassCap
  \/ Begin \/ Post \/ Register \/ FlushLast \/ Drain
  \/ \E h \in Harvester : HarvestStep(h) \/ GiveUp(h) \/ Beat(h) \/ Crash(h)
  \/ \E a \in Adopter : Probe(a) \/ Admit(a)
  \/ SweepStep \/ HealStep

Spec == Init /\ [][Next]_vars

\* Time passes; loops that run go on, whatever hangs before the runner's turn
\* (a restore may, forever); the sweep comes round; the record is read.
Fairness ==
  /\ WF_vars(Finish) /\ WF_vars(GoStale /\ \A h \in Harvester : ~Beating(h))
  /\ WF_vars(PassCap)
  /\ WF_vars(Register) /\ WF_vars(FlushLast)
  /\ \A h \in Harvester : WF_vars(HarvestStep(h)) /\ WF_vars(Beat(h))
  /\ \A a \in Adopter : WF_vars(Probe(a)) /\ WF_vars(Admit(a))
  /\ WF_vars(SweepStep) /\ WF_vars(HealStep)

FairSpec == Spec /\ Fairness
-----------------------------------------------------------------------------
TypeOK ==
  /\ made \in 0..MaxEvents /\ result \in 0..made
  /\ over \in {"none", "live", "done", "gone", "stuck"}
  /\ trace \subseteq 1..made /\ cursor \in 0..made
  /\ session \in {"running", "done", "failed"}
  /\ onRecord \in BOOLEAN /\ proven \in BOOLEAN
  /\ stale \in BOOLEAN /\ late \in BOOLEAN /\ missed \in BOOLEAN
  /\ lease \in Nat
  /\ record \in {"running", "settled", "whole"}
  /\ pc \in [Harvester -> Pc]
  /\ fed \in [Harvester -> 0..made] /\ kept \in [Harvester -> 0..made]
  /\ saw \in [Harvester -> BOOLEAN] /\ mine \in [Harvester -> 0..lease]
  /\ billed \subseteq Harvester /\ cutShort \subseteq Harvester
  /\ unsure \subseteq Harvester /\ overtaken \in BOOLEAN
  /\ sweep \in {"idle", "judge", "judgeUnstarted"}
  /\ heal \in BOOLEAN

\* A harvest that saw the turn's end, and whose last write was not refused, has
\* the whole turn in the trace: through failed writes, crashes, cursors that
\* were never stored and adoptions.
HarvestIsWhole ==
  \A h \in Harvester :
    (saw[h] /\ h \notin cutShort /\ pc[h] \in {"stamp", "finalize", "report", "persist"})
      => 1..made \subseteq trace

\* "Fence the METERING so a turn is billed EXACTLY once": whatever the heartbeats
\* did, at most one of those that saw the turn's end reports it, unless a fence
\* could not be taken or read, or an adopter that had found the turn live was
\* admitted after its end.  An owner that gave up reports as well (unsure), and whoever
\* adopts its turn reports it again.
BilledOnce == ~overtaken => Cardinality(billed) <= 1

\* While the owner lives and its heartbeat was never late, neither the sweep nor
\* a reader of the record settles the turn, before its hard cap.
LiveTurnNotSettled ==
  [][(Alive(Owner) /\ ~missed /\ ~late)
       => /\ SweepJudge => session' = session
          /\ HealSettle => record' = record]_vars

\* Whatever is lost and whatever hangs, the turn does not stay running, not in
\* the session and not in the record that pollers read, unless a harvester polls
\* for ever a turn whose reader raised: the poll loop has no cap of its own.
TurnEnds ==
  \/ <>[](session # "running" /\ record # "running")
  \/ <>[](over = "stuck" /\ \E h \in Harvester : pc[h] \in {"poll", "flush", "mark"})
=============================================================================
