----------------------- MODULE SessionDeleteProofs -----------------------
(***************************************************************************)
(* The deletion of a session for any number of deletes and any failures:   *)
(* when the marker goes nothing of the session is left, and a deleted      *)
(* session is not readable.                                                *)
(***************************************************************************)
EXTENDS SessionDelete, TLAPS

\* A status that no turn is accepted on and no sweep settles.
Over == {"deleted", "absent", "bare"}

\* Nothing that may still write a status or store anything is under way.
Buried ==
  /\ status \in Over
  /\ \A w \in Writer : pc[w] \in {"idle", "over"}
  /\ \A d \in Deleter : del[d] # "stop" /\ (del[d] = "mark" => ~sawLive[d])

\* A marker of age stays the session's last word, also after it is gone.
DueIsBuried == due \/ sweep \/ swept => Buried

\* What the retention sweep purges stays purged.
PurgedStaysEmpty == sweep \/ swept => left = {} \/ "sweepRecord" \in failed

MarkerInv == DueIsBuried /\ PurgedStaysEmpty

\* Once a delete has answered the tombstone stands, or the marker was removed in
\* time, or another delete is about to write it again.
TombstoneStands ==
  Answered /\ ~slipped /\ "strip" \notin failed =>
    status = "deleted" \/ swept \/ \E d \in Deleter : del[d] = "marker"
-----------------------------------------------------------------------------
(* Type correctness. *)

\* A look at the tombstone, and one that fails, says yes or no.
LEMMA LookTyped ==
  ASSUME TypeOK, NEW w \in Writer, NEW to \in {"begin", "stamp", "card"}, StatusLook(w, to)
  PROVE  /\ may' \in [Writer -> BOOLEAN] /\ failed' \subseteq MayFail
         /\ pc' \in [Writer -> {"idle", "accepted", "begin", "live", "stamp", "look",
                                "card", "over"}]
<1>1. failed' \subseteq MayFail
  BY DEF StatusLook, Works, Fails, TypeOK
<1>2. may' \in [Writer -> BOOLEAN]
  BY DEF StatusLook, TypeOK
<1>3. pc' \in [Writer -> {"idle", "accepted", "begin", "live", "stamp", "look", "card", "over"}]
  BY DEF StatusLook, Goto, TypeOK
<1> QED BY <1>1, <1>2, <1>3

\* Every step of delete, purge, sweep and late writer stays in the ranges.
LEMMA TypeStep == TypeOK /\ [Next]_vars => TypeOK'
<1> SUFFICES ASSUME TypeOK, [Next]_vars PROVE TypeOK'
  OBVIOUS
<1> USE DEF sessionVars, writerVars, deleteVars, sweepVars, historyVars, Goto,
            DelGoto, TypeOK, Writer, Kind
<1>1. CASE Accept
  BY <1>1 DEF Accept
<1>2. CASE BeginLook
  BY <1>2, LookTyped DEF BeginLook
<1>3. CASE Begin
  BY <1>3 DEF Begin, StatusWrite
<1>4. CASE EndLook
  BY <1>4, LookTyped DEF EndLook
<1>5. CASE CardLook
  BY <1>5, LookTyped DEF CardLook
<1>6. CASE CardPut
  BY <1>6 DEF CardPut
<1>7. ASSUME NEW w \in Writer, Stamp(w) PROVE TypeOK'
  BY <1>7 DEF Stamp, StatusWrite, Outcome
<1>8. CASE Flush
  BY <1>8 DEF Flush
<1>9. CASE Beat
  BY <1>9 DEF Beat
<1>10. CASE Crash
  BY <1>10 DEF Crash, TurnLive
<1>11. CASE SettleLook
  BY <1>11, LookTyped DEF SettleLook
<1>12. CASE PublishRead \/ PublishWrite
  BY <1>12 DEF PublishRead, PublishWrite
<1>13. ASSUME NEW d \in Deleter, DelRead(d) PROVE TypeOK'
  BY <1>13 DEF DelRead
<1>14. ASSUME NEW d \in Deleter, DelMark(d) PROVE TypeOK'
  BY <1>14 DEF DelMark, Works, Fails
<1>15. ASSUME NEW d \in Deleter, DelStop(d) PROVE TypeOK'
  BY <1>15 DEF DelStop
<1>16. ASSUME NEW d \in Deleter, DelTrace(d) PROVE TypeOK'
  <2>1. failed' \subseteq MayFail /\ left' \subseteq Kind
    BY <1>16 DEF DelTrace, Works, Fails
  <2>2. del' \in [Deleter -> {"idle", "mark", "stop", "trace", "record", "strip",
                            "marker", "answered", "error"}]
    BY <1>16 DEF DelTrace
  <2>3. UNCHANGED <<status, shared, writerVars, sawLive, publish, sweepVars, historyVars>>
    BY <1>16 DEF DelTrace
  <2> QED BY <2>1, <2>2, <2>3
<1>17. ASSUME NEW d \in Deleter, DelRecords(d) PROVE TypeOK'
  <2>1. failed' \subseteq MayFail /\ left' \subseteq Kind
    BY <1>17 DEF DelRecords, Works, Fails
  <2>2. del' \in [Deleter -> {"idle", "mark", "stop", "trace", "record", "strip",
                            "marker", "answered", "error"}]
    BY <1>17 DEF DelRecords
  <2>3. UNCHANGED <<status, shared, writerVars, sawLive, publish, sweepVars, historyVars>>
    BY <1>17 DEF DelRecords
  <2> QED BY <2>1, <2>2, <2>3
<1>18. ASSUME NEW d \in Deleter, StripDrop(d) PROVE TypeOK'
  BY <1>18 DEF StripDrop
<1>19. ASSUME NEW d \in Deleter, StripMarker(d) PROVE TypeOK'
  BY <1>19 DEF StripMarker, Works, Fails
<1>20. CASE GoDue
  BY <1>20 DEF GoDue, Writing, Deleting
<1>21. CASE SweepPurge
  BY <1>21 DEF SweepPurge, IsDue, Works, Fails
<1>22. CASE SweepDrop
  BY <1>22 DEF SweepDrop
<1>23. CASE UNCHANGED vars
  BY <1>23 DEF vars
<1> HIDE DEF TypeOK
<1> QED
  BY <1>1, <1>2, <1>3, <1>4, <1>5, <1>6, <1>7, <1>8, <1>9, <1>10, <1>11, <1>12,
     <1>13, <1>14, <1>15, <1>16, <1>17, <1>18, <1>19, <1>20, <1>21, <1>22, <1>23 DEF
     Next, TurnStep, DeleteStep, SweepStep

\* Every variable of the session, its writers and its deletes stays in its range.
THEOREM TypeCorrect == Spec => []TypeOK
<1>1. Init => TypeOK
  BY DEF Init, TypeOK, Writer, Kind
<1> QED BY <1>1, TypeStep, PTL DEF Spec
-----------------------------------------------------------------------------
(* Nothing is left. *)

\* The marker falls due only when no writer is left, and no step undoes that.
LEMMA MarkerStep == TypeOK /\ MarkerInv /\ [Next]_vars => MarkerInv'
<1> SUFFICES ASSUME TypeOK, MarkerInv, [Next]_vars PROVE MarkerInv'
  OBVIOUS
<1> USE DEF sessionVars, writerVars, deleteVars, sweepVars, historyVars, Goto,
            DelGoto, TypeOK, Writer, MarkerInv, DueIsBuried, PurgedStaysEmpty,
            Buried, Over
<1>1. CASE Accept
  BY <1>1 DEF Accept
<1>2. CASE BeginLook
  BY <1>2 DEF BeginLook, StatusLook, Works, Fails
<1>3. CASE Begin
  BY <1>3 DEF Begin, StatusWrite
<1>4. CASE EndLook
  BY <1>4 DEF EndLook, StatusLook, Works, Fails
<1>5. CASE CardLook
  BY <1>5 DEF CardLook, StatusLook, Works, Fails
<1>6. CASE CardPut
  BY <1>6 DEF CardPut
<1>7. ASSUME NEW w \in Writer, Stamp(w) PROVE MarkerInv'
  BY <1>7 DEF Stamp, StatusWrite, Outcome
<1>8. CASE Flush
  BY <1>8 DEF Flush
<1>9. CASE Beat
  BY <1>9 DEF Beat
<1>10. CASE Crash
  BY <1>10 DEF Crash, TurnLive
<1>11. CASE SettleLook
  BY <1>11 DEF SettleLook, StatusLook, Works, Fails
<1>12. CASE PublishRead \/ PublishWrite
  BY <1>12 DEF PublishRead, PublishWrite
<1>13. ASSUME NEW d \in Deleter, DelRead(d) PROVE MarkerInv'
  BY <1>13 DEF DelRead
<1>14. ASSUME NEW d \in Deleter, DelMark(d) PROVE MarkerInv'
  BY <1>14 DEF DelMark, Works, Fails
<1>15. ASSUME NEW d \in Deleter, DelStop(d) PROVE MarkerInv'
  BY <1>15 DEF DelStop
<1>16. ASSUME NEW d \in Deleter, DelTrace(d) PROVE MarkerInv'
  BY <1>16 DEF DelTrace, Works, Fails
<1>17. ASSUME NEW d \in Deleter, DelRecords(d) PROVE MarkerInv'
  BY <1>17 DEF DelRecords, Works, Fails
<1>18. ASSUME NEW d \in Deleter, StripDrop(d) PROVE MarkerInv'
  BY <1>18 DEF StripDrop
<1>19. ASSUME NEW d \in Deleter, StripMarker(d) PROVE MarkerInv'
  BY <1>19 DEF StripMarker, Works, Fails
<1>20. CASE GoDue
  BY <1>20 DEF GoDue, Writing, Deleting
<1>21. CASE SweepPurge
  BY <1>21 DEF SweepPurge, IsDue, Works, Fails
<1>22. CASE SweepDrop
  BY <1>22 DEF SweepDrop
<1>23. CASE UNCHANGED vars
  BY <1>23 DEF vars
<1> HIDE DEF MarkerInv
<1> QED
  BY <1>1, <1>2, <1>3, <1>4, <1>5, <1>6, <1>7, <1>8, <1>9, <1>10, <1>11, <1>12,
     <1>13, <1>14, <1>15, <1>16, <1>17, <1>18, <1>19, <1>20, <1>21, <1>22, <1>23 DEF
     Next, TurnStep, DeleteStep, SweepStep

\* The marker's invariant, on which both promises of a delete rest.
THEOREM MarkerIsLast == Spec => []MarkerInv
<1>1. Init => MarkerInv
  BY DEF Init, MarkerInv, DueIsBuried, PurgedStaysEmpty
<1> QED BY <1>1, TypeCorrect, MarkerStep, PTL DEF Spec

\* NothingLeft for any deletes and failures: the day that a marker waits is after
\* every write that could bring something back, so what the retention sweep
\* purges before it drops the marker is all there is.
THEOREM MarkerLeavesNothing == Spec => []NothingLeft
<1>1. MarkerInv => NothingLeft
  BY DEF MarkerInv, PurgedStaysEmpty, NothingLeft
<1> QED BY <1>1, MarkerIsLast, PTL
-----------------------------------------------------------------------------
(* A deleted session is not readable. *)

\* Only a write that slips past its check, or the loss of the marker's own write, takes
\* the tombstone away before its time.
LEMMA TombstoneStep == TypeOK /\ TombstoneStands /\ [Next]_vars => TombstoneStands'
<1> SUFFICES ASSUME TypeOK, TombstoneStands, [Next]_vars PROVE TombstoneStands'
  OBVIOUS
<1> USE DEF sessionVars, writerVars, deleteVars, sweepVars, historyVars, Goto,
            DelGoto, TypeOK, Writer, TombstoneStands, Answered
<1>1. CASE Accept
  BY <1>1 DEF Accept
<1>2. CASE BeginLook
  BY <1>2 DEF BeginLook, StatusLook, Works, Fails
<1>3. CASE Begin
  BY <1>3 DEF Begin, StatusWrite
<1>4. CASE EndLook
  BY <1>4 DEF EndLook, StatusLook, Works, Fails
<1>5. CASE CardLook
  BY <1>5 DEF CardLook, StatusLook, Works, Fails
<1>6. CASE CardPut
  BY <1>6 DEF CardPut
<1>7. ASSUME NEW w \in Writer, Stamp(w) PROVE TombstoneStands'
  BY <1>7 DEF Stamp, StatusWrite, Outcome
<1>8. CASE Flush
  BY <1>8 DEF Flush
<1>9. CASE Beat
  BY <1>9 DEF Beat
<1>10. CASE Crash
  BY <1>10 DEF Crash, TurnLive
<1>11. CASE SettleLook
  BY <1>11 DEF SettleLook, StatusLook, Works, Fails
<1>12. CASE PublishRead \/ PublishWrite
  BY <1>12 DEF PublishRead, PublishWrite
<1>13. ASSUME NEW d \in Deleter, DelRead(d) PROVE TombstoneStands'
  BY <1>13 DEF DelRead
<1>14. ASSUME NEW d \in Deleter, DelMark(d) PROVE TombstoneStands'
  BY <1>14 DEF DelMark, Works, Fails
<1>15. ASSUME NEW d \in Deleter, DelStop(d) PROVE TombstoneStands'
  BY <1>15 DEF DelStop
<1>16. ASSUME NEW d \in Deleter, DelTrace(d) PROVE TombstoneStands'
  BY <1>16 DEF DelTrace, Works, Fails
<1>17. ASSUME NEW d \in Deleter, DelRecords(d) PROVE TombstoneStands'
  BY <1>17 DEF DelRecords, Works, Fails
<1>18. ASSUME NEW d \in Deleter, StripDrop(d) PROVE TombstoneStands'
  BY <1>18 DEF StripDrop
<1>19. ASSUME NEW d \in Deleter, StripMarker(d) PROVE TombstoneStands'
  BY <1>19 DEF StripMarker, Works, Fails
<1>20. CASE GoDue
  BY <1>20 DEF GoDue, Writing, Deleting
<1>21. CASE SweepPurge
  BY <1>21 DEF SweepPurge, IsDue, Works, Fails
<1>22. CASE SweepDrop
  BY <1>22 DEF SweepDrop
<1>23. CASE UNCHANGED vars
  BY <1>23 DEF vars
<1> HIDE DEF TombstoneStands
<1> QED
  BY <1>1, <1>2, <1>3, <1>4, <1>5, <1>6, <1>7, <1>8, <1>9, <1>10, <1>11, <1>12,
     <1>13, <1>14, <1>15, <1>16, <1>17, <1>18, <1>19, <1>20, <1>21, <1>22, <1>23 DEF
     Next, TurnStep, DeleteStep, SweepStep

\* DeletedIsUnreadable for any deletes, shares, writers and failures: while no
\* delete is at work a link resolves only over a slipped status, a lost marker
\* or a record the sweep failed to remove.
THEOREM DeletedUnreadable == Spec => []DeletedIsUnreadable
<1>1. Init => TombstoneStands
  BY DEF Init, TombstoneStands, Answered
<1>2. TombstoneStands /\ MarkerInv => DeletedIsUnreadable
  BY DEF TombstoneStands, MarkerInv, PurgedStaysEmpty, DeletedIsUnreadable, LinkResolves, Deleting
<1> QED BY <1>1, <1>2, TypeCorrect, TombstoneStep, MarkerIsLast, PTL DEF Spec
=============================================================================
