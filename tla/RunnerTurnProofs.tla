------------------------- MODULE RunnerTurnProofs -------------------------
(***************************************************************************)
(* The runner's turn registry for any number of calls, keys and cancels:   *)
(* its type, one turn for the calls of one key, and no Stop lost to the    *)
(* spawn it races.  A normaliser may raise or not (ReaderFaults).          *)
(***************************************************************************)
EXTENDS RunnerTurn, TLAPS

\* The labels a call leaves for good when it is answered or refused.
Underway == {"new", "build", "start"}

\* A call that has recorded its turn and not started it yet.
StartsOwn ==
  \A c \in Call : call[c] = "start" => c \in turns /\ got[c] = c

\* A turn's thread is the one its own call starts, once.
NoThreadBefore ==
  \A c \in Call : call[c] \in Underway \cup {"refused"} => thread[c] = "none"

\* _evict_turns drops finished turns alone, so one whose thread is at work is on
\* record.
OnRecord ==
  \A t \in Turn : thread[t] \notin {"none", "done"} => t \in turns

\* The record holds the process from its publication until the thread closes it.
HandleHeld ==
  \A t \in Turn : t \in handle <=> thread[t] \in {"check", "arm", "read", "close"}

\* A cancel call that found its turn knows it.
CancelNamesTurn ==
  \A k \in Cancel : cancel[k].pc # "new" => cancel[k].turn \in Turn

RegistryInv ==
  TypeOK /\ StartsOwn /\ NoThreadBefore /\ OnRecord /\ HandleHeld /\ CancelNamesTurn

\* _turn_by_key names turns of the key.
KeysOwn == \A k \in Key : byKey[k] # None => KeyOf[byKey[k]] = k

\* A call has no answer before it looked under the lock.
NoAnswerBefore ==
  \A c \in Call : call[c] \in {"new", "build", "refused"} => got[c] = None

\* The turn a call was answered with stays the key's until its record is dropped.
AnswerIsKeys ==
  \A c \in Call : got[c] # None /\ got[c] \notin dropped =>
    /\ byKey[KeyOf[c]] = got[c]
    /\ got[c] \in turns

KeyInv == KeysOwn /\ NoAnswerBefore /\ AnswerIsKeys

\* The CLI runs only between its spawn and the end of its output.
RunsWhileRead ==
  \A t \in Turn :
    thread[t] \in {"none", "spawn", "close", "verdict", "finish", "done"} =>
      proc[t] # "running"

\* A cancel past its mark has left the mark.
MarkLeft ==
  \A k \in Cancel :
    cancel[k].pc \in {"take", "kill", "stopped"} => cancel[k].turn \in cancelled

StopInv == RunsWhileRead /\ MarkLeft /\ CancelledTurnIsStopped
-----------------------------------------------------------------------------
(* Type correctness. *)

\* Every step leaves the registry's variables in their ranges and the records of
\* the turns at work on record.
LEMMA RegistryStep == RegistryInv /\ [Next]_vars => RegistryInv'
<1> SUFFICES ASSUME RegistryInv, [Next]_vars PROVE RegistryInv'
  OBVIOUS
<1> USE KeyOfAssumption, NoneAssumption
<1> USE DEF RegistryInv, TypeOK, StartsOwn, NoThreadBefore, OnRecord, HandleHeld,
            CancelNamesTurn, Underway, Turn, callVars, registry, rec, vars, GotoCall, GotoThread, GotoCancel,
            KillProc, ThreadPc, Statuses
<1>1. ASSUME NEW c \in Call, Post(c) PROVE RegistryInv'
  BY <1>1 DEF Post, KeyKnown
<1>2. ASSUME NEW c \in Call, BuildRefused(c) PROVE RegistryInv'
  BY <1>2 DEF BuildRefused
<1>3. ASSUME NEW c \in Call, Record(c) PROVE RegistryInv'
  <2>1. CASE KeyWon(c)
    BY <1>3, <2>1 DEF Record, KeyWon, KeyKnown
  <2>2. CASE ~KeyWon(c)
    <3>1. /\ call' = [call EXCEPT ![c] = "start"] /\ got' = [got EXCEPT ![c] = c]
          /\ turns' = turns \cup {c} /\ byKey' = [byKey EXCEPT ![KeyOf[c]] = c]
          /\ status' = [status EXCEPT ![c] = "running"]
          /\ UNCHANGED <<thread, proc, timer, handle, cancelled, capped, stopped, cancel,
                         dropped>>
      BY <1>3, <2>2 DEF Record
    <3>2. TypeOK'
      BY <1>3, <3>1
    <3>3. StartsOwn' /\ NoThreadBefore'
      BY <1>3, <3>1 DEF Record
    <3>4. OnRecord' /\ HandleHeld' /\ CancelNamesTurn'
      BY <1>3, <3>1
    <3> QED BY <3>2, <3>3, <3>4
  <2> QED BY <2>1, <2>2
<1>4. ASSUME NEW c \in Call, StartThread(c) PROVE RegistryInv'
  BY <1>4 DEF StartThread
<1>5. ASSUME NEW t \in Turn, Evict(t) PROVE RegistryInv'
  BY <1>5 DEF Evict
<1>6. ASSUME NEW t \in Turn, Spawn(t) PROVE RegistryInv'
  BY <1>6 DEF Spawn, SpawnFailed
<1>7. ASSUME NEW t \in Turn, Publish(t) PROVE RegistryInv'
  BY <1>7 DEF Publish
<1>8. ASSUME NEW t \in Turn, CheckStop(t) PROVE RegistryInv'
  BY <1>8 DEF CheckStop
<1>9. ASSUME NEW t \in Turn, Arm(t) PROVE RegistryInv'
  BY <1>9 DEF Arm, CapTimer
<1>10. ASSUME NEW t \in Turn, OutputEnds(t) PROVE RegistryInv'
  BY <1>10 DEF OutputEnds
<1>11. ASSUME NEW t \in Turn, Close(t) PROVE RegistryInv'
  BY <1>11 DEF Close
<1>12. ASSUME NEW t \in Turn, SetStatus(t) PROVE RegistryInv'
  BY <1>12 DEF SetStatus, Verdict
<1>13. ASSUME NEW t \in Turn, Finish(t) PROVE RegistryInv'
  BY <1>13 DEF Finish
<1>14. ASSUME NEW t \in Turn, StopTurn(t) PROVE RegistryInv'
  BY <1>14 DEF StopTurn
<1>15. ASSUME NEW t \in Turn, ReaderRaises(t) PROVE RegistryInv'
  BY <1>15 DEF ReaderRaises
<1>16. ASSUME NEW t \in Turn, ProcExits(t) \/ CapFires(t) \/ CapKills(t) PROVE RegistryInv'
  BY <1>16 DEF ProcExits, CapFires, CapKills
<1>17. ASSUME NEW k \in Cancel, NEW t \in Turn, CancelPost(k, t) PROVE RegistryInv'
  BY <1>17 DEF CancelPost
<1>18. ASSUME NEW k \in Cancel, CancelMark(k) \/ CancelTake(k) \/ CancelKill(k) \/ CancelAnswer(k)
       PROVE RegistryInv'
  <2>1. CASE CancelMark(k)
    BY <2>1 DEF CancelMark
  <2>2. CASE CancelTake(k)
    BY <2>2 DEF CancelTake
  <2>3. CASE CancelKill(k)
    BY <2>3 DEF CancelKill
  <2>4. CASE CancelAnswer(k)
    BY <2>4 DEF CancelAnswer
  <2> QED BY <1>18, <2>1, <2>2, <2>3, <2>4
<1>19. CASE UNCHANGED vars
  BY <1>19
<1> HIDE DEF RegistryInv, vars
<1> QED
  BY <1>1, <1>2, <1>3, <1>4, <1>5, <1>6, <1>7, <1>8, <1>9, <1>10, <1>11, <1>12, <1>13,
     <1>14, <1>15, <1>16, <1>17, <1>18, <1>19 DEF Next, RunThread

\* The registry's invariant, which the theorems below rest on.
THEOREM TypeInvariant == Spec => []RegistryInv
<1>1. Init => RegistryInv
  BY KeyOfAssumption, NoneAssumption
     DEF Init, RegistryInv, TypeOK, StartsOwn, NoThreadBefore, OnRecord, HandleHeld,
         CancelNamesTurn, Underway, Turn, ThreadPc, Statuses
<1> QED BY <1>1, RegistryStep, PTL DEF Spec

\* Every variable of the registry stays in its range; a turn's record is there
\* for as long as its thread is at work.
THEOREM TypeCorrect == Spec => []TypeOK
<1>1. RegistryInv => TypeOK
  BY DEF RegistryInv
<1> QED BY <1>1, TypeInvariant, PTL
-----------------------------------------------------------------------------
(* One turn for the calls of one key. *)

\* A look at the registry answers a call with the turn of its key.
LEMMA AnswerFollowsKey ==
  ASSUME RegistryInv, KeyInv, NEW c \in Call, call[c] \in {"new", "build"}, KeyKnown(c),
         call' = [call EXCEPT ![c] = "answered"],
         got' = [got EXCEPT ![c] = byKey[KeyOf[c]]],
         UNCHANGED registry
  PROVE  KeyInv'
<1> USE KeyOfAssumption, NoneAssumption DEF RegistryInv, TypeOK, Turn, registry, Underway
<1>1. KeysOwn'
  BY DEF KeyInv, KeysOwn
<1>2. NoAnswerBefore'
  BY DEF KeyInv, NoAnswerBefore
<1>3. AnswerIsKeys'
  BY DEF KeyInv, AnswerIsKeys, KeyKnown
<1> QED BY <1>1, <1>2, <1>3 DEF KeyInv

\* Recording a turn under the lock makes it the key's; a turn that another call of
\* the key was answered with has been dropped by then.
LEMMA RecordMakesKeys ==
  ASSUME RegistryInv, KeyInv, NEW c \in Call, Record(c)
  PROVE  KeyInv'
<1> USE KeyOfAssumption, NoneAssumption
    DEF RegistryInv, TypeOK, Turn, registry, Underway, GotoCall
<1>1. call[c] = "build"
  BY DEF Record
<1>2. CASE KeyKnown(c)
  BY <1>1, <1>2, AnswerFollowsKey DEF Record, KeyWon
<1>3. CASE ~KeyKnown(c)
  <2>1. /\ call' = [call EXCEPT ![c] = "start"] /\ got' = [got EXCEPT ![c] = c]
        /\ turns' = turns \cup {c} /\ byKey' = [byKey EXCEPT ![KeyOf[c]] = c]
        /\ dropped' = dropped
    BY <1>3 DEF Record, KeyWon
  <2>2. \A d \in Call : KeyOf[d] = KeyOf[c] => got[d] \in dropped \cup {None}
    BY <1>1, <1>3 DEF KeyInv, AnswerIsKeys, KeyKnown
  <2>3. KeysOwn'
    BY <2>1 DEF KeyInv, KeysOwn
  <2>4. NoAnswerBefore'
    BY <1>1, <2>1 DEF KeyInv, NoAnswerBefore
  <2>5. AnswerIsKeys'
    BY <1>1, <2>1, <2>2 DEF KeyInv, AnswerIsKeys
  <2> QED BY <2>3, <2>4, <2>5 DEF KeyInv
<1> QED BY <1>2, <1>3

\* A record is dropped with its own key alone.
LEMMA EvictLeavesKeys ==
  ASSUME RegistryInv, KeyInv, NEW t \in Turn, Evict(t)
  PROVE  KeyInv'
<1> USE KeyOfAssumption, NoneAssumption DEF RegistryInv, TypeOK, Turn, callVars
<1>1. /\ UNCHANGED callVars
      /\ turns' = turns \ {t} /\ dropped' = dropped \cup {t}
      /\ byKey' = [k \in Key |-> IF byKey[k] = t THEN None ELSE byKey[k]]
  BY DEF Evict
<1>2. KeysOwn'
  BY <1>1 DEF KeyInv, KeysOwn
<1>3. NoAnswerBefore'
  BY <1>1 DEF KeyInv, NoAnswerBefore
<1>4. AnswerIsKeys'
  BY <1>1 DEF KeyInv, AnswerIsKeys
<1> QED BY <1>2, <1>3, <1>4 DEF KeyInv

\* Under _turns_lock a call takes over the turn of its key or records its own.
LEMMA KeyStep == RegistryInv /\ KeyInv /\ [Next]_vars => KeyInv'
<1> SUFFICES ASSUME RegistryInv, KeyInv, [Next]_vars PROVE KeyInv'
  OBVIOUS
<1> USE KeyOfAssumption, NoneAssumption DEF callVars, registry, GotoCall
<1>1. ASSUME NEW c \in Call, Post(c) PROVE KeyInv'
  <2>1. CASE KeyKnown(c)
    BY <1>1, <2>1, AnswerFollowsKey DEF Post
  <2>2. CASE ~KeyKnown(c)
    <3>1. call[c] = "new" /\ call' = [call EXCEPT ![c] = "build"] /\ UNCHANGED <<got, registry>>
      BY <1>1, <2>2 DEF Post
    <3>2. call \in [Call -> {"new", "build", "start", "answered", "refused"}]
      BY DEF RegistryInv, TypeOK
    <3>3. NoAnswerBefore'
      BY <3>1, <3>2 DEF KeyInv, NoAnswerBefore
    <3>4. AnswerIsKeys'
      BY <3>1, <3>2 DEF KeyInv, AnswerIsKeys
    <3>5. KeysOwn'
      BY <3>1 DEF KeyInv, KeysOwn
    <3> QED BY <3>3, <3>4, <3>5 DEF KeyInv
  <2> QED BY <2>1, <2>2
<1>2. ASSUME NEW c \in Call, BuildRefused(c) \/ StartThread(c) PROVE KeyInv'
  BY <1>2 DEF BuildRefused, StartThread, RegistryInv, TypeOK, KeyInv, KeysOwn,
     NoAnswerBefore, AnswerIsKeys
<1>3. ASSUME NEW c \in Call, Record(c) PROVE KeyInv'
  BY <1>3, RecordMakesKeys
<1>4. ASSUME NEW t \in Turn, Evict(t) PROVE KeyInv'
  BY <1>4, EvictLeavesKeys
<1>5. CASE UNCHANGED <<callVars, registry>>
  BY <1>5 DEF KeyInv, KeysOwn, NoAnswerBefore, AnswerIsKeys
<1>6. ASSUME NEW t \in Turn, RunThread(t) \/ StopTurn(t) \/ ReaderRaises(t)
                             \/ ProcExits(t) \/ CapFires(t) \/ CapKills(t)
      PROVE  UNCHANGED <<callVars, registry>>
  BY <1>6 DEF RunThread, Spawn, Publish, CheckStop, Arm, OutputEnds, Close, SetStatus,
     Finish, StopTurn, ReaderRaises, ProcExits, CapFires, CapKills
<1>7. ASSUME NEW k \in Cancel,
             (\E t \in Turn : CancelPost(k, t))
               \/ CancelMark(k) \/ CancelTake(k) \/ CancelKill(k) \/ CancelAnswer(k)
      PROVE  UNCHANGED <<callVars, registry>>
  BY <1>7 DEF CancelPost, CancelMark, CancelTake, CancelKill, CancelAnswer
<1>8. CASE UNCHANGED vars
  BY <1>5, <1>8 DEF vars
<1> QED
  BY <1>1, <1>2, <1>3, <1>4, <1>5, <1>6, <1>7, <1>8 DEF Next

\* OneTurnPerKey for any calls, keys and retries: however they interleave with
\* each other and with evictions, the calls of a key are answered with one turn as
\* long as its record stands (_start_turn looks again under the lock that records
\* it), and a second one starts only after the first was over and dropped.
THEOREM OneTurnForKey == Spec => []OneTurnPerKey
<1>1. Init => KeyInv
  BY NoneAssumption, KeyOfAssumption
     DEF Init, KeyInv, KeysOwn, NoAnswerBefore, AnswerIsKeys
<1>2. KeyInv => OneTurnPerKey
  BY DEF KeyInv, AnswerIsKeys, OneTurnPerKey
<1> QED BY <1>1, <1>2, TypeInvariant, KeyStep, PTL DEF Spec
-----------------------------------------------------------------------------
(* No Stop is lost. *)

\* A cancel marks before it looks for the process and the thread publishes the process
\* before it looks for the mark, so one of the two sees the other.
LEMMA StopStep == RegistryInv /\ StopInv /\ [Next]_vars => StopInv'
<1> SUFFICES ASSUME RegistryInv, StopInv, [Next]_vars PROVE StopInv'
  OBVIOUS
<1> USE DEF Turn, callVars, registry, rec, GotoThread, GotoCancel, KillProc,
            RegistryInv, TypeOK, CancelNamesTurn,
            StopInv, RunsWhileRead, MarkLeft, CancelledTurnIsStopped
<1>1. ASSUME NEW c \in Call, Post(c) \/ BuildRefused(c) \/ Record(c) PROVE StopInv'
  BY <1>1 DEF Post, BuildRefused, Record
<1>2. ASSUME NEW c \in Call, StartThread(c) PROVE StopInv'
  BY <1>2 DEF StartThread, NoThreadBefore, Underway
<1>3. ASSUME NEW t \in Turn, Spawn(t) PROVE StopInv'
  BY <1>3 DEF Spawn
<1>4. ASSUME NEW t \in Turn, Publish(t) PROVE StopInv'
  BY <1>4 DEF Publish
<1>5. ASSUME NEW t \in Turn, CheckStop(t) PROVE StopInv'
  BY <1>5 DEF CheckStop, StoppedAtSpawn
<1>6. ASSUME NEW t \in Turn, Arm(t) \/ OutputEnds(t) \/ Finish(t) PROVE StopInv'
  BY <1>6 DEF Arm, OutputEnds, Finish
<1>7. ASSUME NEW t \in Turn, Close(t) \/ SetStatus(t) PROVE StopInv'
  BY <1>7 DEF Close, SetStatus
<1>8. ASSUME NEW t \in Turn, StopTurn(t) PROVE StopInv'
  BY <1>8 DEF StopTurn
<1>9. ASSUME NEW t \in Turn, ReaderRaises(t) PROVE StopInv'
  BY <1>9 DEF ReaderRaises
<1>10. ASSUME NEW t \in Turn, ProcExits(t) \/ CapFires(t) \/ Evict(t) PROVE StopInv'
  BY <1>10 DEF ProcExits, CapFires, Evict
<1>11. ASSUME NEW t \in Turn, CapKills(t) PROVE StopInv'
  BY <1>11 DEF CapKills
<1>12. ASSUME NEW k \in Cancel, NEW t \in Turn, CancelPost(k, t) PROVE StopInv'
  BY <1>12 DEF CancelPost
<1>13. ASSUME NEW k \in Cancel, CancelMark(k) PROVE StopInv'
  BY <1>13 DEF CancelMark
\* The thread that has not published its process is still to look for the mark;
\* the one that has closed it runs no CLI any more.
<1>14. ASSUME NEW k \in Cancel, CancelTake(k) PROVE StopInv'
  <2>1. PICK t \in Turn : t = cancel[k].turn /\ t \in cancelled
    BY <1>14 DEF CancelTake
  <2>2. CASE t \in handle
    BY <1>14, <2>1, <2>2 DEF CancelTake
  <2>3. CASE t \notin handle
    <3>1. proc[t] # "running" \/ thread[t] \in {"publish", "check", "raised"}
      BY <2>3 DEF HandleHeld, ThreadPc
    <3> QED BY <1>14, <2>1, <2>3, <3>1 DEF CancelTake
  <2> QED BY <2>2, <2>3
<1>15. ASSUME NEW k \in Cancel, CancelKill(k) PROVE StopInv'
  BY <1>15 DEF CancelKill
<1>16. ASSUME NEW k \in Cancel, CancelAnswer(k) PROVE StopInv'
  BY <1>16 DEF CancelAnswer
<1>17. CASE UNCHANGED vars
  BY <1>17 DEF vars
<1> HIDE DEF RegistryInv, StopInv
<1> QED
  BY <1>1, <1>2, <1>3, <1>4, <1>5, <1>6, <1>7, <1>8, <1>9, <1>10, <1>11, <1>12, <1>13,
     <1>14, <1>15, <1>16, <1>17 DEF Next, RunThread

\* CancelledTurnIsStopped for any turns and cancels: a cancel that is through has
\* stopped its turn's CLI, or the turn's thread is about to do it (cancel_turn
\* marks, then takes the process; _run_turn_bg publishes it, then looks for the
\* mark).
THEOREM NoStopLost == Spec => []CancelledTurnIsStopped
<1>1. Init => StopInv
  BY DEF Init, StopInv, RunsWhileRead, MarkLeft, CancelledTurnIsStopped
<1>2. StopInv => CancelledTurnIsStopped
  BY DEF StopInv
<1> QED BY <1>1, <1>2, TypeInvariant, StopStep, PTL DEF Spec
=============================================================================
