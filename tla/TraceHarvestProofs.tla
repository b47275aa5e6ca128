------------------------ MODULE TraceHarvestProofs ------------------------
(***************************************************************************)
(* The harvest of a turn for any number of events and adoptions, whatever  *)
(* fails, is lost or comes late: a harvest that saw the end has the whole  *)
(* turn, usage is reported once, and a turn whose owner beats in time is   *)
(* not settled behind its back.                                            *)
(***************************************************************************)
EXTENDS TraceHarvest, FiniteSetTheorems, TLAPS

\* The runner has the turn from POST /turn on, and not before.
StartedByPost == pc[Owner] \in {"slot", "restore"} => over = "none" /\ made = 0

\* What a cursor counts is in the trace: the durable one's, and a harvester's.
CursorsWritten ==
  /\ 1 .. cursor \subseteq trace
  /\ \A h \in Harvester : 1 .. kept[h] \subseteq trace

\* A harvester that saw the end leaves its poll loop for good, with the turn's
\* events asked for, and the runner makes no more of them.
EndSeen ==
  \A h \in Harvester :
    /\ saw[h] => over \in {"done", "gone"} /\ (fed[h] = made \/ h \in cutShort)
    /\ saw[h] => pc[h] \in {"flush", "mark", "last", "stamp", "finalize", "report", "persist"}

\* ... and with what it was told in the trace, once it has written it.
EndWritten ==
  \A h \in Harvester :
    saw[h] /\ h \notin cutShort /\ pc[h] \in {"mark", "stamp", "finalize", "report", "persist"} =>
      1 .. made \subseteq trace

HarvestInv == StartedByPost /\ CursorsWritten /\ EndSeen /\ EndWritten

\* A fence is one harvester's.
FencesDiffer ==
  \A g, h \in Harvester : mine[g] = mine[h] /\ mine[g] # 0 => g = h

\* Who is about to report for certain still has the fence: it passes on to an
\* adopter of a turn at work, or to one that came late.
CheckedHolds ==
  ~overtaken =>
    \A h \in Harvester : pc[h] = "report" /\ h \notin unsure =>
      saw[h] /\ mine[h] = lease /\ mine[h] # 0

\* Once usage is reported for certain the turn is over, and who holds the fence has
\* reported.
ReportIsLast ==
  ~overtaken /\ billed # {} =>
    /\ over \in {"done", "gone"}
    /\ \A h \in Harvester : mine[h] = lease /\ mine[h] # 0 => pc[h] = "persist"

BilledAlone == ~overtaken => \A g, h \in billed : g = h

MeterInv == FencesDiffer /\ CheckedHolds /\ ReportIsLast /\ BilledAlone

\* The owner takes no adopter's steps.
OwnerPhases == pc[Owner] \notin {"idle", "probe", "admit"}

\* Nobody looks into a turn whose owner has beaten in time.
LeftAlone ==
  Alive(Owner) /\ ~missed /\ ~late => ~stale /\ sweep = "idle" /\ ~proven /\ ~heal

LiveInv == OwnerPhases /\ LeftAlone
-----------------------------------------------------------------------------
(* Type correctness. *)

\* What a harvester has pending are events that the runner made.
LEMMA PendingMade ==
  ASSUME TypeOK, NEW h \in Harvester
  PROVE  /\ Pending(h) \subseteq 1 .. made
         /\ fed[h] \in 0 .. made /\ kept[h] \in 0 .. made /\ made \in Nat
<1>1. fed[h] \in 0 .. made /\ kept[h] \in 0 .. made /\ made \in Nat
  BY MaxEventsAssumption DEF TypeOK
<1> QED BY <1>1 DEF Pending

\* A task that ends, or dies, leaves its variables in their ranges.
LEMMA EndTyped ==
  ASSUME TypeOK, NEW h \in Harvester, End(h)
  PROVE  /\ pc' \in [Harvester -> Pc]
         /\ fed' \in [Harvester -> 0..made] /\ kept' \in [Harvester -> 0..made]
         /\ saw' \in [Harvester -> BOOLEAN] /\ mine' \in [Harvester -> 0..lease]
         /\ cutShort' \subseteq Harvester /\ unsure' \subseteq Harvester
         /\ missed' \in BOOLEAN
<1>1. 0 \in 0 .. made /\ 0 \in 0 .. lease
  BY MaxEventsAssumption DEF TypeOK
<1> QED BY <1>1 DEF End, Goto, Pc, TypeOK

\* An admission gives the next fence or none.
LEMMA AdmittedTyped ==
  ASSUME TypeOK, NEW h \in Harvester, Admitted(h)
  PROVE  lease' \in Nat /\ mine' \in [Harvester -> 0..lease']
<1>1. CASE lease' = lease + 1 /\ mine' = [mine EXCEPT ![h] = lease + 1]
  BY <1>1 DEF TypeOK
<1>2. CASE UNCHANGED <<lease, mine>>
  BY <1>2 DEF TypeOK
<1> QED BY <1>1, <1>2 DEF Admitted

\* Every step of a harvester, the sweep and the runner stays in the ranges.
LEMMA TypeStep == TypeOK /\ [Next]_vars => TypeOK'
<1> SUFFICES ASSUME TypeOK, [Next]_vars PROVE TypeOK'
  OBVIOUS
<1> USE OwnerAssumption, MaxEventsAssumption
<1> USE DEF runnerVars, vertexVars, timeVars, taskVars, billVars, Goto, Harvester, TypeOK, Pc
<1>1. CASE Emit
  BY <1>1 DEF Emit
<1>2. CASE Finish
  BY <1>2 DEF Finish
<1>3. CASE RunnerLost
  BY <1>3 DEF RunnerLost
<1>4. CASE GoStale
  BY <1>4 DEF GoStale
<1>5. CASE PassCap
  BY <1>5 DEF PassCap
<1>6. CASE Begin
  <2>1. lease' \in Nat /\ mine' \in [Harvester -> 0..lease']
    BY <1>6, AdmittedTyped DEF Begin
  <2> QED BY <1>6, <2>1 DEF Begin
<1>7. CASE Post
  BY <1>7 DEF Post
<1>8. CASE Register
  BY <1>8 DEF Register
<1>9. CASE FlushLast
  <2>1. Pending(Owner) \subseteq 1 .. made
    BY PendingMade
  <2>2. trace' \subseteq 1 .. made /\ cutShort' \subseteq Harvester
    BY <1>9, <2>1 DEF FlushLast
  <2> QED BY <1>9, <2>2 DEF FlushLast
<1>10. CASE Drain
  BY <1>10, EndTyped DEF Drain
<1>11. ASSUME NEW h \in Harvester, Poll(h) PROVE TypeOK'
  BY <1>11 DEF Poll
<1>12. ASSUME NEW h \in Harvester, GiveUp(h) PROVE TypeOK'
  <2>1. CASE h \in Adopter
    BY <1>12, <2>1, EndTyped DEF GiveUp
  <2>2. CASE h \notin Adopter
    BY <1>12, <2>2 DEF GiveUp
  <2> QED BY <2>1, <2>2
<1>13. ASSUME NEW h \in Harvester, Flush(h) PROVE TypeOK'
  <2>1. PICK ok \in {TRUE, ~StoreFaults} :
          /\ trace' = IF ok THEN trace \cup Pending(h) ELSE trace
          /\ kept' = [kept EXCEPT ![h] = Acked(h, ok)]
          /\ fed' = [fed EXCEPT ![h] = IF h \in Adopter THEN Acked(h, ok) ELSE @]
          /\ pc' = [pc EXCEPT ![h] = IF ok THEN "mark"
                                     ELSE IF ~saw[h] THEN "poll"
                                     ELSE IF h = Owner THEN "last" ELSE "stamp"]
          /\ cutShort' = IF ~ok /\ saw[h] /\ h \in Adopter THEN cutShort \cup {h} ELSE cutShort
    BY <1>13 DEF Flush
  <2>2. Acked(h, ok) \in 0 .. made /\ Pending(h) \subseteq 1 .. made
    BY PendingMade DEF Acked
  <2>3. /\ trace' \subseteq 1 .. made /\ kept' \in [Harvester -> 0..made]
        /\ fed' \in [Harvester -> 0..made]
    BY <2>1, <2>2
  <2>4. pc' \in [Harvester -> Pc] /\ cutShort' \subseteq Harvester
    BY <2>1
  <2> QED BY <1>13, <2>3, <2>4 DEF Flush
<1>14. ASSUME NEW h \in Harvester, Mark(h) PROVE TypeOK'
  BY <1>14 DEF Mark, Reached
<1>15. ASSUME NEW h \in Harvester, Stamp(h) PROVE TypeOK'
  BY <1>15 DEF Stamp, Outcome
<1>16. ASSUME NEW h \in Harvester, CheckFence(h) PROVE TypeOK'
  BY <1>16 DEF CheckFence
<1>17. ASSUME NEW h \in Harvester, Persist(h) PROVE TypeOK'
  BY <1>17, EndTyped DEF Persist
<1>18. ASSUME NEW h \in Harvester, Beat(h) PROVE TypeOK'
  <2>1. stale' \in BOOLEAN
    BY <1>18 DEF Beat
  <2>2. UNCHANGED <<runnerVars, trace, cursor, vertexVars, late, missed, lease, record, pc,
                    taskVars, billVars, sweep, heal, cutShort>>
    BY <1>18 DEF Beat
  <2> QED BY <2>1, <2>2
<1>19. ASSUME NEW h \in Harvester, Crash(h) PROVE TypeOK'
  BY <1>19, EndTyped DEF Crash
<1>20. ASSUME NEW a \in Adopter, Probe(a) PROVE TypeOK'
  BY <1>20 DEF Probe, Working
<1>21. ASSUME NEW a \in Adopter, Admit(a) PROVE TypeOK'
  <2>1. lease' \in Nat /\ mine' \in [Harvester -> 0..lease']
    BY <1>21, AdmittedTyped DEF Admit
  <2> QED BY <1>21, <2>1 DEF Admit
<1>22. CASE SweepFind
  BY <1>22 DEF SweepFind
<1>23. CASE SweepJudge
  <2>1. /\ session' \in {"running", "done", "failed"} /\ proven' \in BOOLEAN
        /\ over' \in {"none", "live", "done", "gone", "stuck"}
    BY <1>23 DEF SweepJudge, Settle
  <2>2. pc' \in [Harvester -> Pc]
    BY <1>23 DEF SweepJudge, Settle
  <2> QED BY <1>23, <2>1, <2>2 DEF SweepJudge
<1>24. CASE HealLook
  BY <1>24 DEF HealLook
<1>25. CASE HealSettle
  <2>1. heal' \in BOOLEAN /\ record' \in {"running", "settled", "whole"}
    BY <1>25 DEF HealSettle
  <2>2. UNCHANGED <<runnerVars, trace, cursor, vertexVars, timeVars, lease, pc, taskVars,
                    billVars, sweep, cutShort>>
    BY <1>25 DEF HealSettle
  <2> QED BY <2>1, <2>2
<1>26. CASE UNCHANGED vars
  BY <1>26 DEF vars
<1>27. ASSUME NEW h \in Harvester, Report(h) PROVE TypeOK'
  BY <1>27 DEF Report
<1>28. CASE ReaderRaises
  BY <1>28 DEF ReaderRaises
<1> HIDE DEF TypeOK
<1> QED
  BY <1>1, <1>2, <1>3, <1>4, <1>5, <1>6, <1>7, <1>8, <1>9, <1>10, <1>11, <1>12,
     <1>13, <1>14, <1>15, <1>16, <1>17, <1>18, <1>19, <1>20, <1>21, <1>22, <1>23,
     <1>24, <1>25, <1>26, <1>27, <1>28 DEF Next, HarvestStep, SweepStep, HealStep

\* Every variable stays in its range: cursors count events that were made, fences
\* are fences that were given.
THEOREM TypeCorrect == Spec => []TypeOK
<1>1. Init => TypeOK
  <2>1. 0 \in 0 .. 0 /\ 0 \in 0 .. MaxEvents /\ 0 \in Nat
    BY MaxEventsAssumption
  <2> SUFFICES ASSUME Init PROVE TypeOK
    OBVIOUS
  <2>2. /\ made \in 0..MaxEvents /\ result \in 0..made /\ trace \subseteq 1..made
        /\ cursor \in 0..made /\ lease \in Nat
        /\ billed \subseteq Harvester /\ cutShort \subseteq Harvester
        /\ unsure \subseteq Harvester
    BY <2>1 DEF Init
  <2>3. /\ pc \in [Harvester -> Pc]
        /\ fed \in [Harvester -> 0..made] /\ kept \in [Harvester -> 0..made]
        /\ saw \in [Harvester -> BOOLEAN] /\ mine \in [Harvester -> 0..lease]
    BY <2>1 DEF Init, Pc
  <2> QED BY <2>2, <2>3 DEF Init, TypeOK
<1> QED BY <1>1, TypeStep, PTL DEF Spec
-----------------------------------------------------------------------------
(* The trace has the whole turn. *)

\* No cursor runs ahead of the trace, and who saw the end has written up to it.
LEMMA HarvestInvStep == TypeOK /\ HarvestInv /\ [Next]_vars => HarvestInv'
<1> SUFFICES ASSUME TypeOK, HarvestInv, [Next]_vars PROVE HarvestInv'
  OBVIOUS
<1> USE OwnerAssumption, MaxEventsAssumption
<1> USE DEF runnerVars, vertexVars, timeVars, taskVars, billVars, Goto, Harvester, TypeOK, Pc,
            Pending, HarvestInv, StartedByPost, CursorsWritten, EndSeen, EndWritten
<1>1. CASE Emit
  BY <1>1 DEF Emit
<1>2. CASE Finish
  BY <1>2 DEF Finish
<1>3. CASE RunnerLost
  BY <1>3 DEF RunnerLost
<1>4. CASE GoStale
  BY <1>4 DEF GoStale
<1>5. CASE PassCap
  BY <1>5 DEF PassCap
<1>6. CASE Begin
  BY <1>6 DEF Begin
<1>7. CASE Post
  BY <1>7 DEF Post
<1>8. CASE Register
  BY <1>8 DEF Register
<1>9. CASE FlushLast
  BY <1>9 DEF FlushLast
<1>10. CASE Drain
  BY <1>10 DEF Drain, End
<1>11. ASSUME NEW h \in Harvester, Poll(h) PROVE HarvestInv'
  BY <1>11 DEF Poll
<1>12. ASSUME NEW h \in Harvester, GiveUp(h) PROVE HarvestInv'
  BY <1>12 DEF GiveUp, End
<1>13. ASSUME NEW h \in Harvester, Flush(h) PROVE HarvestInv'
  BY <1>13 DEF Flush, Acked
<1>14. ASSUME NEW h \in Harvester, Mark(h) PROVE HarvestInv'
  BY <1>14 DEF Mark, Reached
<1>15. ASSUME NEW h \in Harvester, Stamp(h) PROVE HarvestInv'
  BY <1>15 DEF Stamp, Outcome
<1>16. ASSUME NEW h \in Harvester, CheckFence(h) PROVE HarvestInv'
  BY <1>16 DEF CheckFence
<1>17. ASSUME NEW h \in Harvester, Persist(h) PROVE HarvestInv'
  BY <1>17 DEF Persist, End
<1>18. ASSUME NEW h \in Harvester, Beat(h) PROVE HarvestInv'
  BY <1>18 DEF Beat
<1>19. ASSUME NEW h \in Harvester, Crash(h) PROVE HarvestInv'
  BY <1>19 DEF Crash, End
<1>20. ASSUME NEW a \in Adopter, Probe(a) PROVE HarvestInv'
  BY <1>20 DEF Probe, Working
<1>21. ASSUME NEW a \in Adopter, Admit(a) PROVE HarvestInv'
  BY <1>21 DEF Admit
<1>22. CASE SweepFind
  BY <1>22 DEF SweepFind
<1>23. CASE SweepJudge
  BY <1>23 DEF SweepJudge, Settle
<1>24. CASE HealLook
  BY <1>24 DEF HealLook
<1>25. CASE HealSettle
  BY <1>25 DEF HealSettle, StillRunning
<1>26. CASE UNCHANGED vars
  BY <1>26 DEF vars
<1>27. ASSUME NEW h \in Harvester, Report(h) PROVE HarvestInv'
  BY <1>27 DEF Report
<1>28. CASE ReaderRaises
  BY <1>28 DEF ReaderRaises
<1> HIDE DEF HarvestInv
<1> QED
  BY <1>1, <1>2, <1>3, <1>4, <1>5, <1>6, <1>7, <1>8, <1>9, <1>10, <1>11, <1>12,
     <1>13, <1>14, <1>15, <1>16, <1>17, <1>18, <1>19, <1>20, <1>21, <1>22, <1>23,
     <1>24, <1>25, <1>26, <1>27, <1>28 DEF Next, HarvestStep, SweepStep, HealStep

\* The harvest's invariant, for the trace and for the metering.
THEOREM HarvestInvariant == Spec => []HarvestInv
<1>1. Init => HarvestInv
  BY DEF Init, HarvestInv, StartedByPost, CursorsWritten, EndSeen, EndWritten
<1> QED BY <1>1, TypeCorrect, HarvestInvStep, PTL DEF Spec

\* HarvestIsWhole for any events and adoptions: only a write that was
\* acknowledged advances a cursor (_trace_flush), a harvest resumes at one, and
\* leaves its loop with nothing pending.
THEOREM TraceWhole == Spec => []HarvestIsWhole
<1>1. HarvestInv => HarvestIsWhole
  BY DEF HarvestInv, EndWritten, HarvestIsWhole
<1> QED BY <1>1, HarvestInvariant, PTL
-----------------------------------------------------------------------------
(* Usage is reported once. *)

\* A harvester whose fence has passed on does not meter, and after a certain report
\* only an adopter that comes late takes the fence.
LEMMA MeterStep == TypeOK /\ HarvestInv /\ MeterInv /\ [Next]_vars => MeterInv'
<1> SUFFICES ASSUME TypeOK, HarvestInv, MeterInv, [Next]_vars PROVE MeterInv'
  OBVIOUS
<1> USE OwnerAssumption, MaxEventsAssumption
<1> USE DEF runnerVars, vertexVars, timeVars, taskVars, billVars, Goto, Harvester, TypeOK, Pc,
            MeterInv, FencesDiffer, CheckedHolds, ReportIsLast, BilledAlone
<1>1. CASE Emit
  BY <1>1 DEF Emit
<1>2. CASE Finish
  BY <1>2 DEF Finish
<1>3. CASE RunnerLost
  BY <1>3 DEF RunnerLost
<1>4. CASE GoStale
  BY <1>4 DEF GoStale
<1>5. CASE PassCap
  BY <1>5 DEF PassCap
<1>6. CASE Begin
  <2>1. /\ \A h \in Harvester : ~saw[h]
        /\ over = "none"
    BY <1>6 DEF Begin, HarvestInv, StartedByPost, EndSeen
  <2>2. FencesDiffer'
    BY <1>6 DEF Begin, Admitted
  <2>3. CheckedHolds'
    BY <1>6, <2>1 DEF Begin
  <2>4. ReportIsLast' /\ BilledAlone'
    BY <1>6, <2>1 DEF Begin
  <2> QED BY <2>2, <2>3, <2>4
<1>7. CASE Post
  BY <1>7 DEF Post, HarvestInv, StartedByPost
<1>8. CASE Register
  BY <1>8 DEF Register
<1>9. CASE FlushLast
  BY <1>9 DEF FlushLast
<1>10. CASE Drain
  BY <1>10 DEF Drain, End
<1>11. ASSUME NEW h \in Harvester, Poll(h) PROVE MeterInv'
  BY <1>11 DEF Poll
<1>12. ASSUME NEW h \in Harvester, GiveUp(h) PROVE MeterInv'
  BY <1>12 DEF GiveUp, End
<1>13. ASSUME NEW h \in Harvester, Flush(h) PROVE MeterInv'
  BY <1>13 DEF Flush, Acked
<1>14. ASSUME NEW h \in Harvester, Mark(h) PROVE MeterInv'
  BY <1>14 DEF Mark, Reached
<1>15. ASSUME NEW h \in Harvester, Stamp(h) PROVE MeterInv'
  BY <1>15 DEF Stamp, Outcome
<1>16. ASSUME NEW h \in Harvester, CheckFence(h) PROVE MeterInv'
  BY <1>16 DEF CheckFence, MayMeter, HarvestInv, EndSeen
<1>17. ASSUME NEW h \in Harvester, Persist(h) PROVE MeterInv'
  BY <1>17 DEF Persist, End
<1>18. ASSUME NEW h \in Harvester, Beat(h) PROVE MeterInv'
  BY <1>18 DEF Beat
<1>19. ASSUME NEW h \in Harvester, Crash(h) PROVE MeterInv'
  BY <1>19 DEF Crash, End
<1>20. ASSUME NEW a \in Adopter, Probe(a) PROVE MeterInv'
  BY <1>20 DEF Probe, Working
<1>21. ASSUME NEW a \in Adopter, Admit(a) PROVE MeterInv'
  <2>1. overtaken' \/ (~overtaken /\ over \notin {"done", "gone"})
    BY <1>21 DEF Admit, Working
  <2>2. FencesDiffer'
    BY <1>21 DEF Admit, Admitted
  <2>3. CheckedHolds'
    <3>1. \A h \in Harvester : saw[h] => over \in {"done", "gone"}
      BY DEF HarvestInv, EndSeen
    <3> QED BY <1>21, <2>1, <3>1 DEF Admit, Admitted
  <2>4. ReportIsLast' /\ BilledAlone'
    BY <1>21, <2>1 DEF Admit, Admitted
  <2> QED BY <2>2, <2>3, <2>4
<1>22. CASE SweepFind
  BY <1>22 DEF SweepFind
<1>23. CASE SweepJudge
  BY <1>23 DEF SweepJudge, Settle
<1>24. CASE HealLook
  BY <1>24 DEF HealLook
<1>25. CASE HealSettle
  BY <1>25 DEF HealSettle, StillRunning
<1>26. CASE UNCHANGED vars
  BY <1>26 DEF vars
<1>27. ASSUME NEW h \in Harvester, Report(h) PROVE MeterInv'
  BY <1>27 DEF Report, HarvestInv, EndSeen
<1>28. CASE ReaderRaises
  BY <1>28 DEF ReaderRaises
<1> HIDE DEF MeterInv
<1> QED
  BY <1>1, <1>2, <1>3, <1>4, <1>5, <1>6, <1>7, <1>8, <1>9, <1>10, <1>11, <1>12,
     <1>13, <1>14, <1>15, <1>16, <1>17, <1>18, <1>19, <1>20, <1>21, <1>22, <1>23,
     <1>24, <1>25, <1>26, <1>27, <1>28 DEF Next, HarvestStep, SweepStep, HealStep

\* A set whose members are all the same has at most one of them.
LEMMA AtMostOne ==
  ASSUME NEW S, \A g, h \in S : g = h
  PROVE  Cardinality(S) <= 1
<1>1. CASE S = {}
  BY <1>1, FS_EmptySet
<1>2. CASE S # {}
  <2>1. PICK h \in S : TRUE
    BY <1>2
  <2>2. S = {h}
    BY <2>1
  <2>3. Cardinality(S) = 1
    BY <2>2, FS_Singleton, Zenon
  <2> QED BY <2>3
<1> QED BY <1>1, <1>2

\* BilledOnce for any adoptions and any heartbeats: whoever reports having seen the
\* end and read its fence holds it until then, and a turn that has ended gives no
\* new one but to an adopter that had found it at work.
THEOREM MeteredByOne == Spec => []BilledOnce
<1>1. Init => MeterInv
  BY OwnerAssumption DEF Init, MeterInv, FencesDiffer, CheckedHolds, ReportIsLast, BilledAlone,
       Harvester
<1>2. MeterInv => BilledOnce
  BY AtMostOne DEF MeterInv, BilledAlone, BilledOnce
<1> QED BY <1>1, <1>2, TypeCorrect, HarvestInvariant, MeterStep, PTL DEF Spec
-----------------------------------------------------------------------------
(* A live turn is left alone. *)

\* No sweep looks into a turn while its owner beats in time.
LEMMA LiveStep == TypeOK /\ LiveInv /\ [Next]_vars => LiveInv'
<1> SUFFICES ASSUME TypeOK, LiveInv, [Next]_vars PROVE LiveInv'
  OBVIOUS
<1> USE OwnerAssumption, MaxEventsAssumption
<1> USE DEF runnerVars, vertexVars, timeVars, taskVars, billVars, Goto, Harvester, TypeOK, Pc,
            Alive, LiveInv, OwnerPhases, LeftAlone
<1>1. CASE Emit
  BY <1>1 DEF Emit
<1>2. CASE Finish
  BY <1>2 DEF Finish
<1>3. CASE RunnerLost
  BY <1>3 DEF RunnerLost
<1>4. CASE GoStale
  BY <1>4 DEF GoStale, Beating, Ending
<1>5. CASE PassCap
  BY <1>5 DEF PassCap
<1>6. CASE Begin
  BY <1>6 DEF Begin
<1>7. CASE Post
  BY <1>7 DEF Post
<1>8. CASE Register
  BY <1>8 DEF Register
<1>9. CASE FlushLast
  BY <1>9 DEF FlushLast
<1>10. CASE Drain
  BY <1>10 DEF Drain, End
<1>11. ASSUME NEW h \in Harvester, Poll(h) PROVE LiveInv'
  BY <1>11 DEF Poll
<1>12. ASSUME NEW h \in Harvester, GiveUp(h) PROVE LiveInv'
  BY <1>12 DEF GiveUp, End
<1>13. ASSUME NEW h \in Harvester, Flush(h) PROVE LiveInv'
  BY <1>13 DEF Flush, Acked
<1>14. ASSUME NEW h \in Harvester, Mark(h) PROVE LiveInv'
  BY <1>14 DEF Mark, Reached
<1>15. ASSUME NEW h \in Harvester, Stamp(h) PROVE LiveInv'
  BY <1>15 DEF Stamp, Outcome
<1>16. ASSUME NEW h \in Harvester, CheckFence(h) PROVE LiveInv'
  BY <1>16 DEF CheckFence
<1>17. ASSUME NEW h \in Harvester, Persist(h) PROVE LiveInv'
  BY <1>17 DEF Persist, End
<1>18. ASSUME NEW h \in Harvester, Beat(h) PROVE LiveInv'
  BY <1>18 DEF Beat
<1>19. ASSUME NEW h \in Harvester, Crash(h) PROVE LiveInv'
  BY <1>19 DEF Crash, End
<1>20. ASSUME NEW a \in Adopter, Probe(a) PROVE LiveInv'
  BY <1>20 DEF Probe, Working
<1>21. ASSUME NEW a \in Adopter, Admit(a) PROVE LiveInv'
  BY <1>21 DEF Admit
<1>22. CASE SweepFind
  BY <1>22 DEF SweepFind
<1>23. CASE SweepJudge
  BY <1>23 DEF SweepJudge, Settle
<1>24. CASE HealLook
  BY <1>24 DEF HealLook, LeftToOwner
<1>25. CASE HealSettle
  BY <1>25 DEF HealSettle, StillRunning
<1>26. CASE UNCHANGED vars
  BY <1>26 DEF vars
<1>27. ASSUME NEW h \in Harvester, Report(h) PROVE LiveInv'
  BY <1>27 DEF Report
<1>28. CASE ReaderRaises
  BY <1>28 DEF ReaderRaises
<1> HIDE DEF LiveInv
<1> QED
  BY <1>1, <1>2, <1>3, <1>4, <1>5, <1>6, <1>7, <1>8, <1>9, <1>10, <1>11, <1>12,
     <1>13, <1>14, <1>15, <1>16, <1>17, <1>18, <1>19, <1>20, <1>21, <1>22, <1>23,
     <1>24, <1>25, <1>26, <1>27, <1>28 DEF Next, HarvestStep, SweepStep, HealStep

\* LiveTurnNotSettled for any adoptions: as long as the owner lives, beats in time
\* and is under the cap, no sweep has its row in hand and no reader of the record
\* is about to settle it.
THEOREM LiveLeftAlone == Spec => LiveTurnNotSettled
<1>1. Init => LiveInv
  BY DEF Init, LiveInv, OwnerPhases, LeftAlone, Harvester
<1>2. LiveInv =>
        ((Alive(Owner) /\ ~missed /\ ~late)
           => /\ SweepJudge => session' = session
              /\ HealSettle => record' = record)
  BY DEF LiveInv, LeftAlone, SweepJudge, HealSettle
<1> QED BY <1>1, <1>2, TypeCorrect, LiveStep, PTL DEF Spec, LiveTurnNotSettled
=============================================================================
