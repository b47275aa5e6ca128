----------------------- MODULE ResponseAcceptProofs -----------------------
(***************************************************************************)
(* The acceptance of requests for any number of them and any mix of        *)
(* shapes, with failing accepts and a failing store: one run per key while *)
(* no reservation was given back, one run per answer each time the         *)
(* question is set pending, and nothing kept by an accept that fails.      *)
(***************************************************************************)
EXTENDS ResponseAccept, FiniteSetTheorems, TLAPS

\* A request is committed once, and stays so.
RanRuns == \A q \in Request : q \in ran <=> pc[q] = "runs"

\* Only a request that carries the key looks it up, reserves it or gives it back.
KeyedPhases ==
  \A q \in Request :
    pc[q] \in {"look", "reserve", "readKey", "releaseRead", "releaseDelete"} =>
      shape[q].keyed

\* Until a reservation is given back the first one stands: a request past it
\* holds the key, and one that was refused it finds a holder.
FirstHolderStands ==
  released = {} =>
    \A q \in Request :
      /\ pc[q] = "readKey" => idem # None
      /\ shape[q].keyed /\ pc[q] \in {"guard", "runs", "releaseRead", "releaseDelete"} =>
           idem = q

KeyInv == RanRuns /\ KeyedPhases /\ FirstHolderStands

\* Nobody else can take or drop a reservation between its read and its delete.
DeletesOwn == \A q \in Request : pc[q] = "releaseDelete" => idem = q

\* Who holds the key runs, may still run, or has it to give back.
HolderAccounted ==
  idem # None =>
    idem \in ran \cup stuck \/ pc[idem] \in {"guard", "releaseRead", "releaseDelete"}

\* The key is held by requests that carry it.
HolderKeyed == idem # None => shape[idem].keyed

HolderInv == RanRuns /\ KeyedPhases /\ DeletesOwn /\ HolderKeyed /\ HolderAccounted

\* A claim is made by resp_claim_input and not before; the guard moves it back.
ClaimPhases ==
  \A q \in Request :
    /\ pc[q] \in {"new", "look", "read", "settle"} => q \notin claimed
    /\ pc[q] = "put" /\ q \in claimed => target[q] = "answered"
    /\ pc[q] = "undo" => q \in claimed
    /\ pc[q] = "refused" /\ q \in claimed => q \in leaked

\* A question that reads answered was taken by somebody who has it, or left with it.
AnsweredByClaim == pend = "answered" => claimed \cup leaked # {}

ClaimInv == ClaimPhases /\ AnsweredByClaim

\* An answer goes on to its run only over its claim.
AnswerPhases ==
  \A q \in Request : shape[q].answers =>
    /\ pc[q] = "settle" => target[q] \in {"answered", "expired"}
    /\ pc[q] = "put" =>
         \/ target[q] \in {"expired", "pending"}
         \/ target[q] = "answered" /\ q \in claimed
    /\ pc[q] \in {"releaseRead", "releaseDelete", "undo"} => target[q] = "pending"
    /\ pc[q] \in {"reserve", "readKey", "guard", "runs"} => q \in claimed

AnswerInv == RanRuns /\ ClaimPhases /\ AnswerPhases

\* A claim in hand is the one the question reads answered by, or the one that its
\* late setting, which comes once, left standing.
ClaimsCounted ==
  /\ reset => asked
  /\ IsFiniteSet(claimed)
  /\ Cardinality(claimed) <= (IF reset THEN 1 ELSE 0) + (IF pend = "answered" THEN 1 ELSE 0)
-----------------------------------------------------------------------------
(* Type correctness. *)

\* A set whose members are all the same has at most one of them.
LEMMA AtMostOne ==
  ASSUME NEW S, \A p, q \in S : p = q
  PROVE  Cardinality(S) <= 1
<1>1. CASE S = {}
  BY <1>1, FS_EmptySet
<1>2. CASE S # {}
  <2>1. PICK p \in S : TRUE
    BY <1>2
  <2>2. S = {p}
    BY <2>1
  <2>3. Cardinality(S) = 1
    BY <2>2, FS_Singleton, Zenon
  <2> QED BY <2>3
<1> QED BY <1>1, <1>2

\* No request leaves its path through create_response.
LEMMA TypeStep == TypeOK /\ [Next]_vars => TypeOK'
<1> SUFFICES ASSUME TypeOK, [Next]_vars PROVE TypeOK'
  OBVIOUS
<1> USE NoneAssumption
<1> USE DEF TypeOK, Pc, States, requestVars, questionVars, history, Goto
<1>1. CASE SetPending \/ Expire
  BY <1>1 DEF SetPending, Expire
<1>2. ASSUME NEW q \in Request, Arrive(q) PROVE TypeOK'
  BY <1>2 DEF Arrive
<1>3. ASSUME NEW q \in Request, Look(q) PROVE TypeOK'
  BY <1>3 DEF Look, ReplayOrRefuse
<1>4. ASSUME NEW q \in Request, Read(q) PROVE TypeOK'
  <2>1. MoveTo(q) \in States /\ Onward(q) \in Pc
    BY DEF MoveTo, Onward
  <2> QED BY <1>4, <2>1 DEF Read
<1>5. ASSUME NEW q \in Request, Claim(q) PROVE TypeOK'
  BY <1>5 DEF Claim, Moved
<1>6. ASSUME NEW q \in Request, Report(q) PROVE TypeOK'
  BY <1>6 DEF Report, Moved
<1>7. ASSUME NEW q \in Request, Put(q) PROVE TypeOK'
  BY <1>7 DEF Put, Onward
<1>8. ASSUME NEW q \in Request, Reserve(q) PROVE TypeOK'
  BY <1>8 DEF Reserve
<1>9. ASSUME NEW q \in Request, ReadKey(q) PROVE TypeOK'
  BY <1>9 DEF ReadKey, ReplayOrRefuse
<1>10. ASSUME NEW q \in Request, StoreFault(q) PROVE TypeOK'
  BY <1>10 DEF StoreFault, Leave
<1>11. ASSUME NEW q \in Request, Enter(q) PROVE TypeOK'
  BY <1>11 DEF Enter
<1>12. ASSUME NEW q \in Request, GuardFails(q) PROVE TypeOK'
  BY <1>12 DEF GuardFails, BackOut
<1>13. ASSUME NEW q \in Request, ReleaseRead(q) PROVE TypeOK'
  BY <1>13 DEF ReleaseRead, ClaimBack
<1>14. ASSUME NEW q \in Request, ReleaseDelete(q) PROVE TypeOK'
  BY <1>14 DEF ReleaseDelete, ClaimBack
<1>15. ASSUME NEW q \in Request, Undo(q) PROVE TypeOK'
  BY <1>15 DEF Undo
<1>16. CASE UNCHANGED vars
  BY <1>16 DEF vars
<1> HIDE DEF TypeOK
<1> QED
  BY <1>1, <1>2, <1>3, <1>4, <1>5, <1>6, <1>7, <1>8, <1>9, <1>10, <1>11, <1>12, <1>13,
     <1>14, <1>15, <1>16 DEF Next

\* Every variable stays in its range, and the feed lists only committed requests.
THEOREM TypeCorrect == Spec => []TypeOK
<1>1. Init => TypeOK
  BY DEF Init, TypeOK, Pc, States
<1> QED BY <1>1, TypeStep, PTL DEF Spec
-----------------------------------------------------------------------------
(* One run per key. *)

\* Nobody wins a reservation that stands, and nobody gives it back but who holds it.
LEMMA KeyStep == TypeOK /\ KeyInv /\ [Next]_vars => KeyInv'
<1> SUFFICES ASSUME TypeOK, KeyInv, [Next]_vars PROVE KeyInv'
  OBVIOUS
<1> USE NoneAssumption
<1> USE DEF TypeOK, requestVars, questionVars, history, Goto,
            KeyInv, RanRuns, KeyedPhases, FirstHolderStands
<1>1. CASE SetPending \/ Expire
  BY <1>1 DEF SetPending, Expire
<1>2. ASSUME NEW q \in Request, Arrive(q) PROVE KeyInv'
  BY <1>2 DEF Arrive
<1>3. ASSUME NEW q \in Request, Look(q) PROVE KeyInv'
  BY <1>3 DEF Look, ReplayOrRefuse
<1>4. ASSUME NEW q \in Request, Read(q) PROVE KeyInv'
  BY <1>4 DEF Read, Onward
<1>5. ASSUME NEW q \in Request, Claim(q) PROVE KeyInv'
  BY <1>5 DEF Claim
<1>6. ASSUME NEW q \in Request, Report(q) PROVE KeyInv'
  BY <1>6 DEF Report
<1>7. ASSUME NEW q \in Request, Put(q) PROVE KeyInv'
  BY <1>7 DEF Put, Onward
<1>8. ASSUME NEW q \in Request, Reserve(q) PROVE KeyInv'
  BY <1>8 DEF Reserve, KeyFree
<1>9. ASSUME NEW q \in Request, ReadKey(q) PROVE KeyInv'
  BY <1>9 DEF ReadKey, ReplayOrRefuse
<1>10. ASSUME NEW q \in Request, StoreFault(q) PROVE KeyInv'
  BY <1>10 DEF StoreFault, Leave
<1>11. ASSUME NEW q \in Request, Enter(q) PROVE KeyInv'
  BY <1>11 DEF Enter
<1>12. ASSUME NEW q \in Request, GuardFails(q) PROVE KeyInv'
  BY <1>12 DEF GuardFails, BackOut
<1>13. ASSUME NEW q \in Request, ReleaseRead(q) PROVE KeyInv'
  BY <1>13 DEF ReleaseRead, ClaimBack
<1>14. ASSUME NEW q \in Request, ReleaseDelete(q) PROVE KeyInv'
  BY <1>14 DEF ReleaseDelete, ClaimBack
<1>15. ASSUME NEW q \in Request, Undo(q) PROVE KeyInv'
  BY <1>15 DEF Undo
<1>16. CASE UNCHANGED vars
  BY <1>16 DEF vars
<1> HIDE DEF KeyInv
<1> QED
  BY <1>1, <1>2, <1>3, <1>4, <1>5, <1>6, <1>7, <1>8, <1>9, <1>10, <1>11, <1>12, <1>13,
     <1>14, <1>15, <1>16 DEF Next

\* KeyRunsOnce for any requests: idem_reserve commits one of those that carry the
\* key, for as long as none of them gives its reservation back.
THEOREM OneRunPerKey == Spec => []KeyRunsOnce
<1>1. Init => KeyInv
  BY DEF Init, KeyInv, RanRuns, KeyedPhases, FirstHolderStands
<1>2. TypeOK /\ KeyInv => KeyRunsOnce
  <2> SUFFICES ASSUME TypeOK, KeyInv, released = {}
               PROVE  \A p, q \in {r \in ran : shape[r].keyed} : p = q
    BY AtMostOne DEF KeyRunsOnce
  <2> QED BY DEF TypeOK, KeyInv, RanRuns, FirstHolderStands
<1> QED BY <1>1, <1>2, TypeCorrect, KeyStep, PTL DEF Spec
-----------------------------------------------------------------------------
(* One run per answer. *)

\* An answer that resp_claim_input did not let take the question does not go on.
LEMMA AnswerStep == TypeOK /\ AnswerInv /\ [Next]_vars => AnswerInv'
<1> SUFFICES ASSUME TypeOK, AnswerInv, [Next]_vars PROVE AnswerInv'
  OBVIOUS
<1> USE NoneAssumption
<1> USE DEF TypeOK, requestVars, questionVars, history, Goto,
            AnswerInv, RanRuns, ClaimPhases, AnswerPhases
<1>1. CASE SetPending \/ Expire
  BY <1>1 DEF SetPending, Expire
<1>2. ASSUME NEW q \in Request, Arrive(q) PROVE AnswerInv'
  BY <1>2 DEF Arrive
<1>3. ASSUME NEW q \in Request, Look(q) PROVE AnswerInv'
  BY <1>3 DEF Look, ReplayOrRefuse
<1>4. ASSUME NEW q \in Request, Read(q) PROVE AnswerInv'
  BY <1>4 DEF Read, Onward, MoveTo
<1>5. ASSUME NEW q \in Request, Claim(q) PROVE AnswerInv'
  BY <1>5 DEF Claim, Moved, Movable
<1>6. ASSUME NEW q \in Request, Report(q) PROVE AnswerInv'
  BY <1>6 DEF Report, Moved, Movable
<1>7. ASSUME NEW q \in Request, Put(q) PROVE AnswerInv'
  BY <1>7 DEF Put, Onward
<1>8. ASSUME NEW q \in Request, Reserve(q) PROVE AnswerInv'
  BY <1>8 DEF Reserve
<1>9. ASSUME NEW q \in Request, ReadKey(q) PROVE AnswerInv'
  BY <1>9 DEF ReadKey, ReplayOrRefuse
<1>10. ASSUME NEW q \in Request, StoreFault(q) PROVE AnswerInv'
  BY <1>10 DEF StoreFault, Leave
<1>11. ASSUME NEW q \in Request, Enter(q) PROVE AnswerInv'
  BY <1>11 DEF Enter
<1>12. ASSUME NEW q \in Request, GuardFails(q) PROVE AnswerInv'
  BY <1>12 DEF GuardFails, BackOut
<1>13. ASSUME NEW q \in Request, ReleaseRead(q) PROVE AnswerInv'
  BY <1>13 DEF ReleaseRead, ClaimBack
<1>14. ASSUME NEW q \in Request, ReleaseDelete(q) PROVE AnswerInv'
  BY <1>14 DEF ReleaseDelete, ClaimBack
<1>15. ASSUME NEW q \in Request, Undo(q) PROVE AnswerInv'
  BY <1>15 DEF Undo
<1>16. CASE UNCHANGED vars
  BY <1>16 DEF vars
<1> HIDE DEF AnswerInv
<1> QED
  BY <1>1, <1>2, <1>3, <1>4, <1>5, <1>6, <1>7, <1>8, <1>9, <1>10, <1>11, <1>12, <1>13,
     <1>14, <1>15, <1>16 DEF Next

\* resp_claim_input takes a question only where it is not answered, the guard gives
\* back one claim with it, and only SetPending frees it under a claim, once.
LEMMA CountStep ==
  TypeOK /\ ClaimPhases /\ ClaimsCounted /\ [Next]_vars => ClaimsCounted'
<1> SUFFICES ASSUME TypeOK, ClaimPhases, ClaimsCounted, [Next]_vars PROVE ClaimsCounted'
  OBVIOUS
<1>a. Cardinality(claimed) \in Nat
  BY FS_CardinalityType DEF ClaimsCounted
<1>0. ASSUME UNCHANGED <<claimed, pend, asked, reset>> PROVE ClaimsCounted'
  BY <1>0 DEF ClaimsCounted
<1>1. CASE SetPending
  <2>1. ~reset
    BY <1>1 DEF SetPending, ClaimsCounted
  <2>2. claimed' = claimed /\ asked' /\ pend' = "pending"
    BY <1>1 DEF SetPending, requestVars
  <2>3. reset' <=> pend = "answered"
    BY <1>1, <2>1 DEF SetPending
  <2>4. Cardinality(claimed) <= IF pend = "answered" THEN 1 ELSE 0
    BY <1>a, <2>1 DEF ClaimsCounted
  <2>5. CASE pend = "answered"
    BY <1>a, <2>2, <2>3, <2>4, <2>5 DEF ClaimsCounted
  <2>6. CASE pend # "answered"
    BY <1>a, <2>2, <2>3, <2>4, <2>6 DEF ClaimsCounted
  <2> QED BY <2>5, <2>6
<1>2. ASSUME NEW q \in Request, Claim(q) PROVE ClaimsCounted'
  <2>1. CASE Movable
    <3>1. claimed' = claimed \cup {q} /\ pend' = "answered" /\ reset' = reset /\ asked' = asked
      BY <1>2, <2>1 DEF Claim, Moved, history
    <3>2. /\ IsFiniteSet(claimed \cup {q})
          /\ Cardinality(claimed \cup {q}) =
               IF q \in claimed THEN Cardinality(claimed) ELSE Cardinality(claimed) + 1
      BY FS_AddElement DEF ClaimsCounted
    <3>3. pend # "answered"
      BY <2>1 DEF Movable
    <3> QED BY <1>a, <3>1, <3>2, <3>3 DEF ClaimsCounted
  <2>2. CASE ~Movable
    <3>1. UNCHANGED <<claimed, pend, asked, reset>>
      BY <1>2, <2>2 DEF Claim, Moved, history
    <3> QED BY <1>0, <3>1
  <2> QED BY <2>1, <2>2
<1>3. ASSUME NEW q \in Request, Report(q) PROVE ClaimsCounted'
  <2>1. pend' = pend \/ (Movable /\ pend' \in {"voided", "expired"})
    BY <1>3 DEF Report, Moved
  <2> QED BY <1>3, <1>a, <2>1 DEF Report, Movable, ClaimsCounted, history
<1>4. ASSUME NEW q \in Request, Undo(q) PROVE ClaimsCounted'
  <2>1. q \in claimed /\ claimed' = claimed \ {q} /\ reset' = reset /\ asked' = asked
    BY <1>4 DEF Undo, ClaimPhases
  <2>2. IsFiniteSet(claimed \ {q}) /\ Cardinality(claimed \ {q}) = Cardinality(claimed) - 1
    BY <2>1, FS_RemoveElement DEF ClaimsCounted
  <2>3. pend' = "pending" \/ pend' = pend
    BY <1>4 DEF Undo
  <2> QED BY <1>a, <2>1, <2>2, <2>3 DEF ClaimsCounted
<1>5. CASE Expire \/ UNCHANGED vars
  BY <1>0, <1>5 DEF Expire, vars, requestVars, questionVars, history
<1>6. ASSUME NEW q \in Request,
             \/ Arrive(q) \/ Look(q) \/ Read(q) \/ Put(q) \/ Reserve(q) \/ ReadKey(q)
             \/ StoreFault(q) \/ Enter(q) \/ GuardFails(q) \/ ReleaseRead(q)
             \/ ReleaseDelete(q)
      PROVE  ClaimsCounted'
  BY <1>0, <1>6 DEF Arrive, Look, Read, Put, Reserve, ReadKey, StoreFault, Enter,
     GuardFails, ReleaseRead, ReleaseDelete, questionVars, history
<1> QED
  BY <1>1, <1>2, <1>3, <1>4, <1>5, <1>6 DEF Next

\* OneAnswerPerAsking for any requests, with no assumption: resp_claim_input lets
\* one answer through, a claim given back is taken again by one, and the turn that
\* asks, which sets its question pending once, lets through one more.
THEOREM OneRunPerAnswer == Spec => []OneAnswerPerAsking
<1>1. Init => AnswerInv /\ ClaimsCounted
  BY FS_EmptySet DEF Init, AnswerInv, RanRuns, ClaimPhases, AnswerPhases, ClaimsCounted
<1>2. AnswerInv => ClaimPhases
  BY DEF AnswerInv
<1>3. TypeOK /\ AnswerInv /\ ClaimsCounted => OneAnswerPerAsking
  <2> SUFFICES ASSUME TypeOK, AnswerInv, ClaimsCounted PROVE OneAnswerPerAsking
    OBVIOUS
  <2> DEFINE A == {r \in ran : shape[r].answers}
  <2>1. A \in SUBSET claimed
    BY DEF TypeOK, AnswerInv, RanRuns, AnswerPhases
  <2>2. IsFiniteSet(A) /\ Cardinality(A) <= Cardinality(claimed)
    <3> HIDE DEF A
    <3> QED BY <2>1, FS_Subset DEF ClaimsCounted
  <2>3. Cardinality(A) \in Nat /\ Cardinality(claimed) \in Nat
    BY <2>2, FS_CardinalityType DEF ClaimsCounted
  <2> QED BY <2>2, <2>3 DEF ClaimsCounted, OneAnswerPerAsking
<1> QED BY <1>1, <1>2, <1>3, TypeCorrect, AnswerStep, CountStep, PTL DEF Spec
-----------------------------------------------------------------------------
(* What a failed accept gives back. *)

\* A key that is held has somebody who runs with it, may still run, or gives it back.
LEMMA HolderStep == TypeOK /\ HolderInv /\ [Next]_vars => HolderInv'
<1> SUFFICES ASSUME TypeOK, HolderInv, [Next]_vars PROVE HolderInv'
  OBVIOUS
<1> USE NoneAssumption
<1> USE DEF TypeOK, requestVars, questionVars, history, Goto,
            HolderInv, RanRuns, KeyedPhases, DeletesOwn, HolderKeyed, HolderAccounted
<1>1. CASE SetPending \/ Expire
  BY <1>1 DEF SetPending, Expire
<1>2. ASSUME NEW q \in Request, Arrive(q) PROVE HolderInv'
  BY <1>2 DEF Arrive
<1>3. ASSUME NEW q \in Request, Look(q) PROVE HolderInv'
  BY <1>3 DEF Look, ReplayOrRefuse
<1>4. ASSUME NEW q \in Request, Read(q) PROVE HolderInv'
  BY <1>4 DEF Read, Onward
<1>5. ASSUME NEW q \in Request, Claim(q) PROVE HolderInv'
  BY <1>5 DEF Claim
<1>6. ASSUME NEW q \in Request, Report(q) PROVE HolderInv'
  BY <1>6 DEF Report
<1>7. ASSUME NEW q \in Request, Put(q) PROVE HolderInv'
  BY <1>7 DEF Put, Onward
<1>8. ASSUME NEW q \in Request, Reserve(q) PROVE HolderInv'
  BY <1>8 DEF Reserve, KeyFree
<1>9. ASSUME NEW q \in Request, ReadKey(q) PROVE HolderInv'
  BY <1>9 DEF ReadKey, ReplayOrRefuse
<1>10. ASSUME NEW q \in Request, StoreFault(q) PROVE HolderInv'
  BY <1>10 DEF StoreFault, Leave
<1>11. ASSUME NEW q \in Request, Enter(q) PROVE HolderInv'
  BY <1>11 DEF Enter
<1>12. ASSUME NEW q \in Request, GuardFails(q) PROVE HolderInv'
  BY <1>12 DEF GuardFails, BackOut
<1>13. ASSUME NEW q \in Request, ReleaseRead(q) PROVE HolderInv'
  BY <1>13 DEF ReleaseRead, ClaimBack
<1>14. ASSUME NEW q \in Request, ReleaseDelete(q) PROVE HolderInv'
  BY <1>14 DEF ReleaseDelete, ClaimBack
<1>15. ASSUME NEW q \in Request, Undo(q) PROVE HolderInv'
  BY <1>15 DEF Undo
<1>16. CASE UNCHANGED vars
  BY <1>16 DEF vars
<1> HIDE DEF HolderInv
<1> QED
  BY <1>1, <1>2, <1>3, <1>4, <1>5, <1>6, <1>7, <1>8, <1>9, <1>10, <1>11, <1>12, <1>13,
     <1>14, <1>15, <1>16 DEF Next

\* A question that reads answered has a claim behind it.
LEMMA ClaimStep == TypeOK /\ ClaimInv /\ [Next]_vars => ClaimInv'
<1> SUFFICES ASSUME TypeOK, ClaimInv, [Next]_vars PROVE ClaimInv'
  OBVIOUS
<1> USE NoneAssumption
<1> USE DEF TypeOK, requestVars, questionVars, history, Goto,
            ClaimInv, ClaimPhases, AnsweredByClaim
<1>1. CASE SetPending \/ Expire
  BY <1>1 DEF SetPending, Expire
<1>2. ASSUME NEW q \in Request, Arrive(q) PROVE ClaimInv'
  BY <1>2 DEF Arrive
<1>3. ASSUME NEW q \in Request, Look(q) PROVE ClaimInv'
  BY <1>3 DEF Look, ReplayOrRefuse
<1>4. ASSUME NEW q \in Request, Read(q) PROVE ClaimInv'
  BY <1>4 DEF Read, Onward
<1>5. ASSUME NEW q \in Request, Claim(q) PROVE ClaimInv'
  BY <1>5 DEF Claim, Moved, Movable
<1>6. ASSUME NEW q \in Request, Report(q) PROVE ClaimInv'
  BY <1>6 DEF Report, Moved, Movable
<1>7. ASSUME NEW q \in Request, Put(q) PROVE ClaimInv'
  BY <1>7 DEF Put, Onward
<1>8. ASSUME NEW q \in Request, Reserve(q) PROVE ClaimInv'
  BY <1>8 DEF Reserve
<1>9. ASSUME NEW q \in Request, ReadKey(q) PROVE ClaimInv'
  BY <1>9 DEF ReadKey, ReplayOrRefuse
<1>10. ASSUME NEW q \in Request, StoreFault(q) PROVE ClaimInv'
  BY <1>10 DEF StoreFault, Leave
<1>11. ASSUME NEW q \in Request, Enter(q) PROVE ClaimInv'
  BY <1>11 DEF Enter
<1>12. ASSUME NEW q \in Request, GuardFails(q) PROVE ClaimInv'
  BY <1>12 DEF GuardFails, BackOut
<1>13. ASSUME NEW q \in Request, ReleaseRead(q) PROVE ClaimInv'
  BY <1>13 DEF ReleaseRead, ClaimBack
<1>14. ASSUME NEW q \in Request, ReleaseDelete(q) PROVE ClaimInv'
  BY <1>14 DEF ReleaseDelete, ClaimBack
<1>15. ASSUME NEW q \in Request, Undo(q) PROVE ClaimInv'
  BY <1>15 DEF Undo
<1>16. CASE UNCHANGED vars
  BY <1>16 DEF vars
<1> HIDE DEF ClaimInv
<1> QED
  BY <1>1, <1>2, <1>3, <1>4, <1>5, <1>6, <1>7, <1>8, <1>9, <1>10, <1>11, <1>12, <1>13,
     <1>14, <1>15, <1>16 DEF Next

\* FailedAcceptGivesBack for any requests, wherever the accept and the store
\* fail: the reservation and the question are in hand, given back, or named as
\* kept.
THEOREM NothingKept == Spec => []FailedAcceptGivesBack
<1>1. Init => HolderInv /\ ClaimInv
  BY DEF Init, HolderInv, RanRuns, KeyedPhases, DeletesOwn, HolderKeyed,
     HolderAccounted, ClaimInv, ClaimPhases, AnsweredByClaim
<1>2. TypeOK /\ HolderInv /\ ClaimInv => FailedAcceptGivesBack
  BY DEF TypeOK, HolderInv, HolderAccounted, ClaimInv, ClaimPhases, AnsweredByClaim,
     FailedAcceptGivesBack
<1> QED BY <1>1, <1>2, TypeCorrect, HolderStep, ClaimStep, PTL DEF Spec
=============================================================================
