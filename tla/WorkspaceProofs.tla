-------------------------- MODULE WorkspaceProofs --------------------------
(***************************************************************************)
(* What a turn works in: the session's workspace under its lease           *)
(* (SessionLease), and the environment that is mounted into it             *)
(* (EnvironmentBuild).                                                     *)
(*                                                                         *)
(* The lease, for any number of turns, any clock and any timing constants: *)
(* fences are unique, a lease document is a lock with fencing tokens, in   *)
(* enforce mode a turn is superseded only after its lease went stale, and  *)
(* an upload that was not overtaken keeps the order of admissions.  All    *)
(* but type correctness need a store that never uses an etag again         *)
(* (~EtagReuse).                                                           *)
(*                                                                         *)
(* The environment, for any number of versions, calls and restarts: its    *)
(* type, and that the version sessions read is whole and did not fail,     *)
(* unless a call with an old number built it again.                        *)
(***************************************************************************)
EXTENDS SessionLease, EnvironmentBuild, WellFoundedInduction, TLAPS

(***************************************************************************)
(* The lease.                                                              *)
(***************************************************************************)

\* The conditional write's snapshot is the document itself unless the etag moved.
SnapOK ==
  \A t \in Turn : pc[t] \in {"cas", "renew", "unlock"} =>
    /\ snap[t].etag <= doc.etag
    /\ snap[t].etag = doc.etag => snap[t] = doc

\* Every admission is at most as late as the document's last one.
AdmissionsPast ==
  \A t \in Turn : fence[t] > 0 =>
    /\ gen[t] <= doc.gen
    /\ gen[t] = doc.gen => fence[t] <= doc.fence

\* A turn has no fence before lease_admit returns one, and only a fenced turn
\* renews or releases, with its own snapshot.
FencedPhases ==
  \A t \in Turn :
    /\ pc[t] \in {"idle", "read", "cas", "create"} => fence[t] = 0
    /\ pc[t] \in {"renew", "unlock"} => fence[t] > 0 /\ snap[t].owner = t
    /\ pc[t] = "renew" => snap[t].ts <= t0[t]

\* A call's clock was taken in the past.
ClockPast == \A t \in Turn : t0[t] <= now

\* In enforce mode the snapshot about to be replaced was judged free.
Judged ==
  \A t \in Turn : Enforce /\ pc[t] = "cas" => ~ActiveConflict(snap[t], t)

StoreInv ==
  TypeOK /\ SnapOK /\ AdmissionsPast /\ FencedPhases /\ ClockPast /\ Judged /\ FenceUnique

\* A fenced turn at work whose lease never lapsed holds the document fresh.
HoldsFresh(t) ==
  /\ doc.present
  /\ doc.owner = t
  /\ Admission(t) = [gen |-> doc.gen, fence |-> doc.fence]
  /\ doc.expires = doc.ts + TTL
  /\ now < doc.ts + Fresh

ActiveHolds ==
  \A t \in Turn : Active(t) /\ fence[t] > 0 /\ t \notin lapsed => HoldsFresh(t)

\* An upload that was not overtaken is of the document's last admission.
SureHolds ==
  \A t \in sure : Admission(t) = [gen |-> doc.gen, fence |-> doc.fence]

\* A round of the loop in progress has not used up the budget.
RoundLeft == \A t \in Turn : pc[t] \in {"cas", "create"} => tries[t] > 0
-----------------------------------------------------------------------------
(* What the document looks like after each write. *)

\* The four writes of the store protocol make well-formed documents.
LEMMA WritesTyped ==
  ASSUME TypeOK, NEW t \in Turn, NEW d \in Doc
  PROVE  /\ Taken(d, t) \in Doc /\ Created(t) \in Doc
         /\ Renewed(d, t) \in Doc /\ Released(d, t) \in Doc
         /\ NoDoc \in Doc
<1>1. t0[t] \in Nat /\ t0[t] + TTL \in Nat /\ doc \in Doc
  BY TimeAssumption DEF TypeOK
<1>2. d.etag + 1 \in Nat /\ d.fence + 1 \in Nat
  BY DEF Doc
<1>3. Taken(d, t) \in Doc
  BY <1>1, <1>2 DEF Taken, Doc
<1>4. Renewed(d, t) \in Doc
  BY <1>1, <1>2 DEF Renewed, Doc
<1>5. Released(d, t) \in Doc
  BY <1>1, <1>2 DEF Released, Doc
<1>6. Created(t) \in Doc /\ NoDoc \in Doc
  BY <1>1 DEF Created, NoDoc, Doc
<1> QED BY <1>3, <1>4, <1>5, <1>6

\* A returning call leaves every turn's locals in their ranges.
LEMMA ReturnTyped ==
  ASSUME TypeOK, NEW t \in Turn, Return(t)
  PROVE  /\ snap' \in [Turn -> Doc]
         /\ t0' \in [Turn -> Nat]
         /\ tries' \in [Turn -> 0 .. CasTries]
<1>1. NoDoc \in Doc BY DEF NoDoc, Doc
<1>2. 0 \in 0 .. CasTries BY TimeAssumption
<1> QED BY <1>1, <1>2 DEF TypeOK, Return

\* Goto stays within the program's points.
LEMMA GotoTyped ==
  ASSUME TypeOK, NEW t \in Turn, NEW l \in PcValues, Goto(t, l)
  PROVE  pc' \in [Turn -> PcValues]
BY DEF TypeOK, Goto

\* Every step keeps the types; only a round with budget left uses some of it.
LEMMA TypeStep == TypeOK /\ RoundLeft /\ [Next]_vars => TypeOK'
<1> SUFFICES ASSUME TypeOK, RoundLeft, [Next]_vars PROVE TypeOK'
  OBVIOUS
<1> USE DEF PcValues
<1>1. CASE UNCHANGED vars
  BY <1>1 DEF vars, TypeOK
<1>2. CASE Tick
  BY <1>2 DEF Tick, TypeOK
<1>3. ASSUME NEW t \in Turn, Admit(t) PROVE TypeOK'
  <2>1. CASE AdmitStart(t)
    <3>1. CasTries \in 0 .. CasTries BY TimeAssumption
    <3> QED BY <2>1, <3>1, GotoTyped DEF AdmitStart, TypeOK
  <2>2. CASE AdmitRead(t)
    BY <2>2, GotoTyped, ReturnTyped DEF AdmitRead, TypeOK
  <2>3. CASE AdmitReplace(t)
    <3>1. snap[t] \in Doc BY DEF TypeOK
    <3>2. snap[t].fence + 1 \in Nat /\ snap[t].gen \in Nat BY <3>1 DEF Doc
    <3> QED BY <2>3, <3>1, <3>2, WritesTyped, GotoTyped, ReturnTyped
        DEF AdmitReplace, Admitted, TypeOK
  <2>4. CASE AdmitMoved(t)
    <3>1. NoDoc \in Doc BY WritesTyped DEF TypeOK
    <3>2. pc' \in [Turn -> PcValues] BY <2>4, GotoTyped DEF AdmitMoved
    <3>3. tries[t] - 1 \in 0 .. CasTries
      BY <2>4, TimeAssumption DEF AdmitMoved, TypeOK, RoundLeft
    <3>4. tries' \in [Turn -> 0 .. CasTries]
      BY <2>4, <3>3 DEF AdmitMoved, TypeOK
    <3> QED BY <2>4, <3>1, <3>2, <3>4 DEF AdmitMoved, TypeOK
  <2>5. CASE AdmitCreate(t)
    <3>1. doc.gen + 1 \in Nat BY DEF TypeOK, Doc
    <3>2. Created(t) \in Doc BY WritesTyped DEF TypeOK
    <3> QED BY <2>5, <3>1, <3>2, GotoTyped, ReturnTyped
        DEF AdmitCreate, Admitted, TypeOK
  <2>6. CASE AdmitExists(t)
    <3>1. tries[t] - 1 \in 0 .. CasTries
      BY <2>6, TimeAssumption DEF AdmitExists, TypeOK, RoundLeft
    <3> QED BY <2>6, <3>1, GotoTyped DEF AdmitExists, TypeOK
  <2>7. CASE AdmitGiveUp(t)
    BY <2>7, GotoTyped, ReturnTyped DEF AdmitGiveUp, TypeOK
  <2>8. CASE AdmitFault(t)
    <3>1. snap[t] \in Doc BY DEF TypeOK
    <3>2. doc' \in Doc BY <2>8, <3>1, WritesTyped DEF AdmitFault, TypeOK
    <3> QED BY <2>8, <3>2, GotoTyped, ReturnTyped DEF AdmitFault, TypeOK
  <2> QED BY <1>3, <2>1, <2>2, <2>3, <2>4, <2>5, <2>6, <2>7, <2>8 DEF Admit
<1>4. ASSUME NEW t \in Turn, Execute(t) PROVE TypeOK'
  <2>0. snap[t] \in Doc BY DEF TypeOK
  <2>1. CASE HydrateOk(t) BY <2>1, GotoTyped DEF HydrateOk, TypeOK
  <2>2. CASE HydrateFailed(t) BY <2>2, GotoTyped DEF HydrateFailed, TypeOK
  <2>3. CASE RenewRead(t) BY <2>3, GotoTyped DEF RenewRead, TypeOK
  <2>4. CASE RenewWrite(t)
    <3>1. doc' \in Doc BY <2>4, <2>0, WritesTyped DEF RenewWrite, TypeOK
    <3> QED BY <2>4, <3>1, GotoTyped, ReturnTyped DEF RenewWrite, TypeOK
  <2>5. CASE RunEnds(t) BY <2>5, GotoTyped DEF RunEnds, TypeOK
  <2> QED BY <1>4, <2>1, <2>2, <2>3, <2>4, <2>5 DEF Execute
<1>5. ASSUME NEW t \in Turn, Settle(t) PROVE TypeOK'
  <2>0. snap[t] \in Doc BY DEF TypeOK
  <2>1. CASE CheckFence(t) BY <2>1, GotoTyped DEF CheckFence, TypeOK
  <2>2. CASE CheckFault(t) BY <2>2, GotoTyped DEF CheckFault, TypeOK
  <2>3. CASE PutCheckpoint(t)
    <3>1. Admission(t) \in [gen : Nat, fence : Nat] BY DEF Admission, TypeOK
    <3>2. saved' \in [gen : Nat, fence : Nat]
      BY <2>3, <3>1 DEF PutCheckpoint, TypeOK
    <3> QED BY <2>3, <3>2, GotoTyped DEF PutCheckpoint, TypeOK
  <2>4. CASE ReleaseRead(t) BY <2>4, GotoTyped DEF ReleaseRead, TypeOK
  <2>5. CASE ReleaseWrite(t)
    <3>1. doc' \in Doc BY <2>5, <2>0, WritesTyped DEF ReleaseWrite, TypeOK
    <3> QED BY <2>5, <3>1, GotoTyped, ReturnTyped DEF ReleaseWrite, TypeOK
  <2>6. CASE WriteFault(t)
    BY <2>6, GotoTyped, ReturnTyped DEF WriteFault, TypeOK
  <2> QED BY <1>5, <2>1, <2>2, <2>3, <2>4, <2>5, <2>6 DEF Settle
<1>6. ASSUME NEW t \in Turn, Crash(t) PROVE TypeOK'
  BY <1>6, GotoTyped, ReturnTyped DEF Crash, TypeOK
<1> QED BY <1>1, <1>2, <1>3, <1>4, <1>5, <1>6 DEF Next

\* A round starts only with budget left, and a turn's own budget is its own.
LEMMA RoundStep == TypeOK /\ RoundLeft /\ [Next]_vars => RoundLeft'
<1> SUFFICES ASSUME TypeOK, RoundLeft, [Next]_vars, NEW u \in Turn,
                    pc'[u] \in {"cas", "create"}
             PROVE  tries'[u] > 0
  BY DEF RoundLeft
<1> USE DEF Goto, Return, TypeOK, RoundLeft
<1>1. CASE UNCHANGED vars BY <1>1 DEF vars
<1>2. CASE Tick BY <1>2 DEF Tick
<1>3. ASSUME NEW t \in Turn, Admit(t) PROVE tries'[u] > 0
  BY <1>3 DEF Admit, AdmitStart, AdmitRead, AdmitReplace, AdmitMoved, AdmitCreate,
              AdmitExists, AdmitGiveUp, AdmitFault
<1>4. ASSUME NEW t \in Turn, Execute(t) PROVE tries'[u] > 0
  BY <1>4 DEF Execute, HydrateOk, HydrateFailed, RenewRead, RenewWrite, RunEnds
<1>5. ASSUME NEW t \in Turn, Settle(t) PROVE tries'[u] > 0
  BY <1>5 DEF Settle, CheckFence, CheckFault, PutCheckpoint, ReleaseRead,
              ReleaseWrite, WriteFault
<1>6. ASSUME NEW t \in Turn, Crash(t) PROVE tries'[u] > 0
  BY <1>6 DEF Crash
<1> QED BY <1>1, <1>2, <1>3, <1>4, <1>5, <1>6 DEF Next

\* The protocol starts in range, with every round left.
LEMMA TypeInit == Init => TypeOK /\ RoundLeft
<1> SUFFICES ASSUME Init PROVE TypeOK /\ RoundLeft OBVIOUS
<1>1. NoDoc \in Doc BY DEF NoDoc, Doc
<1>2. 0 \in 0 .. CasTries BY TimeAssumption
<1> QED BY <1>1, <1>2 DEF Init, TypeOK, PcValues, NoAdmission, RoundLeft

\* lease_admit's retry budget never goes below zero, and every other variable
\* stays in its range, in every mode and on either store.
THEOREM TypeCorrect == Spec => []TypeOK
BY TypeInit, TypeStep, RoundStep, PTL DEF Spec
-----------------------------------------------------------------------------
(* The store protocol: conditional writes over unique etags. *)

\* A step leaves the document alone, replaces it by the caller's next version
\* of the very document it read, or makes a new one after the old expired.
Replaces(t) ==
  /\ pc[t] \in {"cas", "renew", "unlock"}
  /\ Visible
  /\ snap[t] = doc
  /\ doc' \in {Taken(doc, t), Renewed(doc, t), Released(doc, t)}
  /\ pc[t] = "cas" => doc' = Taken(doc, t)
  /\ pc[t] = "renew" => doc' = Renewed(doc, t)
  /\ pc[t] = "unlock" => doc' = Released(doc, t)

Creates(t) ==
  /\ pc[t] = "create"
  /\ ~Visible
  /\ doc' = Created(t)

\* A step leaves the document, replaces it over an unmoved etag, or creates it.
LEMMA StepKinds ==
  ASSUME TypeOK, SnapOK, [Next]_vars
  PROVE  doc' = doc \/ \E t \in Turn : Replaces(t) \/ Creates(t)
<1> USE DEF Replaces, Creates, Unmoved, SnapOK
<1>1. CASE UNCHANGED vars BY <1>1 DEF vars
<1>2. CASE Tick BY <1>2 DEF Tick
<1>3. ASSUME NEW t \in Turn, Admit(t) PROVE doc' = doc \/ Replaces(t) \/ Creates(t)
  BY <1>3 DEF Admit, AdmitStart, AdmitRead, AdmitReplace, AdmitMoved, AdmitCreate,
              AdmitExists, AdmitGiveUp, AdmitFault
<1>4. ASSUME NEW t \in Turn, Execute(t) PROVE doc' = doc \/ Replaces(t)
  BY <1>4 DEF Execute, HydrateOk, HydrateFailed, RenewRead, RenewWrite, RunEnds
<1>5. ASSUME NEW t \in Turn, Settle(t) PROVE doc' = doc \/ Replaces(t)
  BY <1>5 DEF Settle, CheckFence, CheckFault, PutCheckpoint, ReleaseRead,
              ReleaseWrite, WriteFault
<1>6. ASSUME NEW t \in Turn, Crash(t) PROVE doc' = doc
  BY <1>6 DEF Crash
<1> QED BY <1>1, <1>2, <1>3, <1>4, <1>5, <1>6 DEF Next

\* Etags grow with every write, and tokens never go back.
LEMMA DocGrows ==
  ASSUME TypeOK, SnapOK, ~EtagReuse, [Next]_vars
  PROVE  /\ doc' = doc \/ doc'.etag > doc.etag
         /\ doc.gen <= doc'.gen
         /\ doc'.gen = doc.gen => doc.fence <= doc'.fence
<1>0. doc \in Doc BY DEF TypeOK
<1>1. CASE doc' = doc BY <1>0, <1>1 DEF Doc
<1>2. ASSUME NEW t \in Turn, Replaces(t)
      PROVE  doc'.etag = doc.etag + 1 /\ doc'.gen = doc.gen
             /\ doc'.fence \in {doc.fence, doc.fence + 1}
  BY <1>0, <1>2 DEF Replaces, Taken, Renewed, Released, Doc
<1>3. ASSUME NEW t \in Turn, Creates(t)
      PROVE  doc'.etag = doc.etag + 1 /\ doc'.gen = doc.gen + 1
  BY <1>3 DEF Creates, Created
<1> QED BY <1>0, <1>1, <1>2, <1>3, StepKinds DEF Doc

\* A turn that holds a snapshot after a step held it before, or just read it.
LEMMA SnapSource ==
  ASSUME TypeOK, [Next]_vars, NEW u \in Turn, pc'[u] \in {"cas", "renew", "unlock"}
  PROVE  \/ pc'[u] = pc[u] /\ snap'[u] = snap[u] /\ t0'[u] = t0[u] /\ fence'[u] = fence[u]
         \/ /\ snap'[u] = doc /\ doc' = doc /\ fence'[u] = fence[u]
            /\ pc'[u] = "cas" => pc[u] = "read" /\ t0'[u] = t0[u]
                                 /\ ~(Enforce /\ ActiveConflict(doc, u))
            /\ pc'[u] \in {"renew", "unlock"} => fence[u] > 0 /\ doc.owner = u
            /\ pc'[u] = "renew" => doc.ts <= t0'[u]
<1> DEFINE Goal == \/ pc'[u] = pc[u] /\ snap'[u] = snap[u] /\ t0'[u] = t0[u] /\ fence'[u] = fence[u]
                   \/ /\ snap'[u] = doc /\ doc' = doc /\ fence'[u] = fence[u]
                      /\ pc'[u] = "cas" => pc[u] = "read" /\ t0'[u] = t0[u]
                                           /\ ~(Enforce /\ ActiveConflict(doc, u))
                      /\ pc'[u] \in {"renew", "unlock"} => fence[u] > 0 /\ doc.owner = u
                      /\ pc'[u] = "renew" => doc.ts <= t0'[u]
<1> USE DEF Goto, Return, TypeOK, Mine
<1>0. doc.ts \in Nat /\ now \in Nat BY DEF Doc
<1>1. CASE UNCHANGED vars BY <1>1 DEF vars
<1>2. CASE Tick BY <1>2 DEF Tick
<1>3. ASSUME NEW t \in Turn, Admit(t) PROVE Goal
  BY <1>3 DEF Admit, AdmitStart, AdmitRead, AdmitReplace, AdmitMoved, AdmitCreate,
              AdmitExists, AdmitGiveUp, AdmitFault
<1>4. ASSUME NEW t \in Turn, Execute(t) PROVE Goal
  BY <1>0, <1>4 DEF Execute, HydrateOk, HydrateFailed, RenewRead, RenewWrite, RunEnds
<1>5. ASSUME NEW t \in Turn, Settle(t) PROVE Goal
  BY <1>5 DEF Settle, CheckFence, CheckFault, PutCheckpoint, ReleaseRead,
              ReleaseWrite, WriteFault
<1>6. ASSUME NEW t \in Turn, Crash(t) PROVE Goal
  BY <1>6 DEF Crash
<1> QED BY <1>1, <1>2, <1>3, <1>4, <1>5, <1>6 DEF Next

\* While a write is pending its snapshot is the document, or the etag has moved.
LEMMA SnapStep ==
  ASSUME TypeOK, RoundLeft, SnapOK, ~EtagReuse, [Next]_vars
  PROVE  SnapOK'
<1> SUFFICES ASSUME NEW u \in Turn, pc'[u] \in {"cas", "renew", "unlock"}
             PROVE  /\ snap'[u].etag <= doc'.etag
                    /\ snap'[u].etag = doc'.etag => snap'[u] = doc'
  BY DEF SnapOK
<1>1. doc \in Doc /\ doc' \in Doc /\ snap[u] \in Doc
  BY TypeStep DEF TypeOK
<1> QED BY <1>1, SnapSource, DocGrows DEF SnapOK, Doc

\* A fence is what it was, or the token of the admission made in this step,
\* which is later than the document's last.
LEMMA FenceSource ==
  ASSUME TypeOK, SnapOK, [Next]_vars, NEW u \in Turn
  PROVE  \/ fence'[u] = fence[u] /\ gen'[u] = gen[u]
         \/ /\ pc[u] \in {"cas", "create"}
            /\ fence'[u] = doc'.fence /\ gen'[u] = doc'.gen
            /\ doc'.gen > doc.gen \/ (doc'.gen = doc.gen /\ doc'.fence > doc.fence)
            /\ \A v \in Turn \ {u} : fence'[v] = fence[v] /\ gen'[v] = gen[v]
<1> DEFINE Same == fence' = fence /\ gen' = gen
<1>0. doc \in Doc BY DEF TypeOK
<1>1. CASE UNCHANGED vars BY <1>1 DEF vars
<1>2. CASE Tick BY <1>2 DEF Tick
<1>3. ASSUME NEW t \in Turn, AdmitReplace(t)
      PROVE  /\ pc[t] = "cas"
             /\ fence' = [fence EXCEPT ![t] = doc'.fence]
             /\ gen' = [gen EXCEPT ![t] = doc'.gen]
             /\ doc'.gen = doc.gen /\ doc'.fence > doc.fence
  <2>1. snap[t] = doc BY <1>3 DEF AdmitReplace, Unmoved, SnapOK
  <2> QED BY <1>0, <1>3, <2>1 DEF AdmitReplace, Taken, Doc
<1>4. ASSUME NEW t \in Turn, AdmitCreate(t)
      PROVE  /\ pc[t] = "create"
             /\ fence' = [fence EXCEPT ![t] = doc'.fence]
             /\ gen' = [gen EXCEPT ![t] = doc'.gen]
             /\ doc'.gen > doc.gen
  BY <1>0, <1>4 DEF AdmitCreate, Created, Doc
<1>5. ASSUME NEW t \in Turn, Admit(t), ~AdmitReplace(t), ~AdmitCreate(t) PROVE Same
  BY <1>5 DEF Admit, AdmitStart, AdmitRead, AdmitMoved, AdmitExists, AdmitGiveUp,
              AdmitFault
<1>6. ASSUME NEW t \in Turn, Execute(t) PROVE Same
  BY <1>6 DEF Execute, HydrateOk, HydrateFailed, RenewRead, RenewWrite, RunEnds
<1>7. ASSUME NEW t \in Turn, Settle(t) PROVE Same
  BY <1>7 DEF Settle, CheckFence, CheckFault, PutCheckpoint, ReleaseRead,
              ReleaseWrite, WriteFault
<1>8. ASSUME NEW t \in Turn, Crash(t) PROVE Same
  BY <1>8 DEF Crash
<1>9. fence \in [Turn -> Nat] /\ gen \in [Turn -> Nat] BY DEF TypeOK
<1> QED BY <1>1, <1>2, <1>3, <1>4, <1>5, <1>6, <1>7, <1>8, <1>9 DEF Next

\* No admission gets ahead of the document's own.
LEMMA AdmissionsStep ==
  ASSUME TypeOK, RoundLeft, SnapOK, AdmissionsPast, ~EtagReuse, [Next]_vars
  PROVE  AdmissionsPast'
<1> SUFFICES ASSUME NEW u \in Turn, fence'[u] > 0
             PROVE  /\ gen'[u] <= doc'.gen
                    /\ gen'[u] = doc'.gen => fence'[u] <= doc'.fence
  BY DEF AdmissionsPast
<1>1. doc \in Doc /\ doc' \in Doc /\ gen[u] \in Nat /\ fence[u] \in Nat
  BY TypeStep DEF TypeOK
<1> QED BY <1>1, FenceSource, DocGrows DEF AdmissionsPast, Doc

\* The fence a write of lease_admit returns is no other turn's.
LEMMA FenceUniqueStep ==
  ASSUME TypeOK, RoundLeft, SnapOK, AdmissionsPast, FenceUnique, [Next]_vars
  PROVE  FenceUnique'
<1> SUFFICES ASSUME NEW u \in Turn, NEW v \in Turn, u # v, fence'[u] > 0, fence'[v] > 0
             PROVE  gen'[u] # gen'[v] \/ fence'[u] # fence'[v]
  BY DEF FenceUnique, Admission
<1>1. /\ doc \in Doc /\ doc' \in Doc
      /\ gen[u] \in Nat /\ fence[u] \in Nat /\ gen[v] \in Nat /\ fence[v] \in Nat
  BY TypeStep DEF TypeOK
<1>2. CASE /\ fence'[u] = fence[u] /\ gen'[u] = gen[u]
           /\ fence'[v] = fence[v] /\ gen'[v] = gen[v]
  BY <1>2 DEF FenceUnique, Admission
<1>3. CASE ~(fence'[u] = fence[u] /\ gen'[u] = gen[u])
  BY <1>1, <1>3, FenceSource DEF AdmissionsPast, Doc
<1>4. CASE ~(fence'[v] = fence[v] /\ gen'[v] = gen[v])
  BY <1>1, <1>4, FenceSource DEF AdmissionsPast, Doc
<1> QED BY <1>2, <1>3, <1>4

\* Fences are given by admission alone; renewal and release are the holder's.
LEMMA PhasesStep ==
  ASSUME TypeOK, FencedPhases, [Next]_vars
  PROVE  FencedPhases'
<1> SUFFICES ASSUME NEW u \in Turn
             PROVE  /\ pc'[u] \in {"idle", "read", "cas", "create"} => fence'[u] = 0
                    /\ pc'[u] \in {"renew", "unlock"} => fence'[u] > 0 /\ snap'[u].owner = u
                    /\ pc'[u] = "renew" => snap'[u].ts <= t0'[u]
  BY DEF FencedPhases
<1>1. /\ pc'[u] \in {"renew", "unlock"} => fence'[u] > 0 /\ snap'[u].owner = u
      /\ pc'[u] = "renew" => snap'[u].ts <= t0'[u]
  BY SnapSource DEF FencedPhases
<1> DEFINE Goal == pc'[u] \in {"idle", "read", "cas", "create"} => fence'[u] = 0
<1> USE DEF Goto, TypeOK, FencedPhases
<1>2. CASE UNCHANGED vars BY <1>2 DEF vars
<1>3. CASE Tick BY <1>3 DEF Tick
<1>4. ASSUME NEW t \in Turn, Admit(t) PROVE Goal
  BY <1>4 DEF Admit, AdmitStart, AdmitRead, AdmitReplace, AdmitMoved, AdmitCreate,
              AdmitExists, AdmitGiveUp, AdmitFault
<1>5. ASSUME NEW t \in Turn, Execute(t) PROVE Goal
  BY <1>5 DEF Execute, HydrateOk, HydrateFailed, RenewRead, RenewWrite, RunEnds
<1>6. ASSUME NEW t \in Turn, Settle(t) PROVE Goal
  BY <1>6 DEF Settle, CheckFence, CheckFault, PutCheckpoint, ReleaseRead,
              ReleaseWrite, WriteFault
<1>7. ASSUME NEW t \in Turn, Crash(t) PROVE Goal
  BY <1>7 DEF Crash
<1> QED BY <1>1, <1>2, <1>3, <1>4, <1>5, <1>6, <1>7 DEF Next

\* The clock only moves forward, and calls take it as it is.
LEMMA ClockStep ==
  ASSUME TypeOK, ClockPast, [Next]_vars
  PROVE  ClockPast' /\ now <= now'
<1> USE DEF Return, TypeOK, ClockPast
<1>1. CASE UNCHANGED vars BY <1>1 DEF vars
<1>2. CASE Tick BY <1>2 DEF Tick
<1>3. ASSUME NEW t \in Turn, Admit(t) PROVE ClockPast' /\ now' = now
  BY <1>3 DEF Admit, AdmitStart, AdmitRead, AdmitReplace, AdmitMoved, AdmitCreate,
              AdmitExists, AdmitGiveUp, AdmitFault
<1>4. ASSUME NEW t \in Turn, Execute(t) PROVE ClockPast' /\ now' = now
  BY <1>4 DEF Execute, HydrateOk, HydrateFailed, RenewRead, RenewWrite, RunEnds
<1>5. ASSUME NEW t \in Turn, Settle(t) PROVE ClockPast' /\ now' = now
  BY <1>5 DEF Settle, CheckFence, CheckFault, PutCheckpoint, ReleaseRead,
              ReleaseWrite, WriteFault
<1>6. ASSUME NEW t \in Turn, Crash(t) PROVE ClockPast' /\ now' = now
  BY <1>6 DEF Crash
<1> QED BY <1>1, <1>2, <1>3, <1>4, <1>5, <1>6 DEF Next

\* The judgement stays with the snapshot and the clock it was made by.
LEMMA JudgedStep ==
  ASSUME TypeOK, Judged, [Next]_vars
  PROVE  Judged'
<1> SUFFICES ASSUME NEW u \in Turn, Enforce, pc'[u] = "cas"
             PROVE  ~ActiveConflict(snap[u], u)'
  BY DEF Judged
<1> QED BY SnapSource DEF Judged, ActiveConflict

CoreInv == StoreInv /\ RoundLeft

\* What holds of the store holds at the start.
LEMMA CoreInit == Init => CoreInv
<1> SUFFICES ASSUME Init PROVE CoreInv OBVIOUS
<1>1. TypeOK /\ RoundLeft BY TypeInit
<1>2. SnapOK /\ AdmissionsPast /\ FencedPhases /\ ClockPast /\ Judged /\ FenceUnique
  BY DEF Init, SnapOK, AdmissionsPast, FencedPhases, ClockPast, Judged, FenceUnique
<1> QED BY <1>1, <1>2 DEF CoreInv, StoreInv

\* Every step keeps what holds of the store, whatever the heartbeats do.
LEMMA CoreStep == ~EtagReuse /\ CoreInv /\ [Next]_vars => CoreInv'
<1> SUFFICES ASSUME ~EtagReuse, CoreInv, [Next]_vars PROVE CoreInv' OBVIOUS
<1> USE DEF CoreInv, StoreInv
<1>1. TypeOK' /\ RoundLeft' BY TypeStep, RoundStep
<1>2. SnapOK' BY SnapStep
<1>3. AdmissionsPast' BY AdmissionsStep
<1>4. FenceUnique' BY FenceUniqueStep
<1>5. FencedPhases' BY PhasesStep
<1>6. ClockPast' BY ClockStep
<1>7. Judged' BY JudgedStep
<1> QED BY <1>1, <1>2, <1>3, <1>4, <1>5, <1>6, <1>7

\* No two admissions of lease_admit share a fence of the same lease document:
\* in any mode, with any timing, and whatever store calls fail or replicas die.
THEOREM FencesAreUnique == ~EtagReuse => (Spec => []FenceUnique)
<1> SUFFICES ASSUME ~EtagReuse PROVE Spec => []FenceUnique OBVIOUS
<1>1. Init => CoreInv BY CoreInit
<1>2. CoreInv /\ [Next]_vars => CoreInv' BY CoreStep
<1>3. CoreInv => FenceUnique BY DEF CoreInv, StoreInv
<1> QED BY <1>1, <1>2, <1>3, PTL DEF Spec
-----------------------------------------------------------------------------
(* In enforce mode only a turn whose lease went stale is superseded at work. *)

\* A turn that becomes a fenced worker was just admitted.
LEMMA WorkerSource ==
  ASSUME TypeOK, FencedPhases, [Next]_vars, NEW u \in Turn, Active(u)', fence'[u] > 0
  PROVE  \/ Active(u) /\ fence'[u] = fence[u]
         \/ AdmitReplace(u) \/ AdmitCreate(u)
<1> DEFINE Goal == \/ Active(u) /\ fence'[u] = fence[u]
                   \/ AdmitReplace(u) \/ AdmitCreate(u)
<1> USE DEF Goto, TypeOK, FencedPhases, Active
<1>1. CASE UNCHANGED vars BY <1>1 DEF vars
<1>2. CASE Tick BY <1>2 DEF Tick
<1>3. ASSUME NEW t \in Turn, Admit(t) PROVE Goal
  BY <1>3 DEF Admit, AdmitStart, AdmitRead, AdmitReplace, AdmitMoved, AdmitCreate,
              AdmitExists, AdmitGiveUp, AdmitFault
<1>4. ASSUME NEW t \in Turn, Execute(t) PROVE Goal
  BY <1>4 DEF Execute, HydrateOk, HydrateFailed, RenewRead, RenewWrite, RunEnds
<1>5. ASSUME NEW t \in Turn, Settle(t) PROVE Goal
  BY <1>5 DEF Settle, CheckFence, CheckFault, PutCheckpoint, ReleaseRead,
              ReleaseWrite, WriteFault
<1>6. ASSUME NEW t \in Turn, Crash(t) PROVE Goal
  BY <1>6 DEF Crash
<1> QED BY <1>1, <1>2, <1>3, <1>4, <1>5, <1>6 DEF Next

\* While a turn holds the document fresh, nobody else writes it.
LEMMA HolderWritesAlone ==
  ASSUME CoreInv, Enforce,
         NEW u \in Turn, fence[u] > 0, HoldsFresh(u), NEW t \in Turn,
         Replaces(t) \/ Creates(t)
  PROVE  t = u /\ pc[t] \in {"renew", "unlock"}
<1> USE DEF CoreInv, StoreInv
<1>0. /\ doc \in Doc /\ now \in Nat /\ t0[t] \in Nat /\ t0[t] <= now
      /\ TTL \in Nat /\ Fresh \in Nat /\ DocTTL \in Nat /\ Fresh <= TTL /\ Fresh <= DocTTL
  BY TimeAssumption DEF TypeOK, ClockPast
<1>1. ~Creates(t)
  BY <1>0 DEF Creates, Visible, HoldsFresh, Doc
<1>2. CASE Replaces(t) /\ pc[t] = "cas" /\ t # u
  <2>1. ~ActiveConflict(doc, t) BY <1>2 DEF Judged, Replaces
  <2>2. doc.owner # t BY <1>2 DEF HoldsFresh
  <2>3. t0[t] < doc.ts + Fresh /\ doc.ts \in Nat BY <1>0 DEF HoldsFresh, Doc
  <2>4. doc.expires > t0[t] BY <1>0, <2>3 DEF HoldsFresh, Doc
  <2>5. t0[t] - doc.ts < Fresh BY <1>0, <2>3
  <2> QED BY <2>1, <2>2, <2>4, <2>5 DEF ActiveConflict
<1>3. CASE Replaces(t) /\ pc[t] \in {"renew", "unlock"}
  BY <1>3 DEF Replaces, FencedPhases, HoldsFresh
<1>4. ~(pc[t] = "cas" /\ t = u) BY DEF FencedPhases
<1> QED BY <1>1, <1>2, <1>3, <1>4 DEF Replaces

\* Only an admission with an old clock or a tick finds a turn's lease stale.
LEMMA LapsedGrows ==
  ASSUME [Next]_vars
  PROVE  lapsed \subseteq lapsed'
BY DEF Next, vars, Tick, Admit, AdmitStart, AdmitRead, AdmitReplace, AdmitMoved,
       AdmitCreate, AdmitExists, AdmitGiveUp, AdmitFault, Admitted, Execute, HydrateOk,
       HydrateFailed, RenewRead, RenewWrite, RunEnds, Settle, CheckFence, CheckFault,
       PutCheckpoint, ReleaseRead, ReleaseWrite, WriteFault, Crash

\* A fenced turn at work keeps its lease: another turn's admission finds it fresh.
LEMMA ActiveHoldsStep ==
  ASSUME CoreInv, ~EtagReuse, Enforce, ActiveHolds, [Next]_vars
  PROVE  ActiveHolds'
<1> SUFFICES ASSUME NEW u \in Turn, Active(u)', fence'[u] > 0, u \notin lapsed'
             PROVE  HoldsFresh(u)'
  BY DEF ActiveHolds
<1>0. /\ TypeOK /\ SnapOK /\ FencedPhases /\ ClockPast /\ RoundLeft
      /\ doc \in Doc /\ doc' \in Doc /\ now \in Nat /\ Fresh \in Nat /\ t0[u] \in Nat
  BY TypeStep, TimeAssumption DEF CoreInv, StoreInv, TypeOK
<1>1. CASE AdmitReplace(u)
  <2>1. snap[u] = doc /\ pc[u] = "cas" /\ now' = now
    BY <1>0, <1>1 DEF AdmitReplace, Unmoved, SnapOK
  <2>2. now < t0[u] + Fresh BY <1>0, <1>1 DEF AdmitReplace, Admitted
  <2>3. doc.present BY <1>1 DEF AdmitReplace, Unmoved, Visible
  <2>4. Admission(u)' = [gen |-> doc'.gen, fence |-> doc'.fence]
    BY <1>0, <1>1, <2>1 DEF AdmitReplace, Taken, Admission, TypeOK, Doc
  <2> QED BY <1>0, <1>1, <2>1, <2>2, <2>3, <2>4 DEF AdmitReplace, Taken, HoldsFresh, Doc
<1>2. CASE AdmitCreate(u)
  <2>1. now < t0[u] + Fresh /\ now' = now BY <1>0, <1>2 DEF AdmitCreate, Admitted
  <2>2. Admission(u)' = [gen |-> doc'.gen, fence |-> doc'.fence]
    BY <1>0, <1>2 DEF AdmitCreate, Created, Admission, TypeOK
  <2> QED BY <1>0, <1>2, <2>1, <2>2 DEF AdmitCreate, Created, HoldsFresh
<1>3. CASE Active(u) /\ fence'[u] = fence[u]
  <2>1. HoldsFresh(u) BY <1>3, LapsedGrows DEF ActiveHolds
  <2>2. Admission(u)' = Admission(u)
    BY <1>0, <1>3, FenceSource DEF Active, Admission, FencedPhases
  <2>3. CASE doc' = doc
    <3>1. CASE Tick
      <4>1. now' < doc.ts + Fresh
        <5>1. ~(doc.ts + Fresh <= now + 1) BY <1>3, <3>1 DEF Tick
        <5>2. doc.ts \in Nat /\ now' = now + 1 BY <1>0, <3>1 DEF Tick, Doc
        <5> QED BY <1>0, <5>1, <5>2
      <4> QED BY <2>1, <2>2, <2>3, <4>1 DEF HoldsFresh
    <3>2. CASE ~Tick
      <4>1. now' = now
        BY <3>2 DEF Next, vars, Admit, AdmitStart, AdmitRead, AdmitReplace, AdmitMoved,
                    AdmitCreate, AdmitExists, AdmitGiveUp, AdmitFault, Execute, HydrateOk,
                    HydrateFailed, RenewRead, RenewWrite, RunEnds, Settle, CheckFence,
                    CheckFault, PutCheckpoint, ReleaseRead, ReleaseWrite, WriteFault, Crash
      <4> QED BY <2>1, <2>2, <2>3, <4>1 DEF HoldsFresh
    <3> QED BY <3>1, <3>2
  <2>4. ASSUME NEW t \in Turn, Replaces(t) \/ Creates(t), doc' # doc
        PROVE  HoldsFresh(u)'
    <3>1. t = u /\ pc[u] \in {"renew", "unlock"}
      BY <1>3, <2>1, <2>4, HolderWritesAlone
    <3>2. pc[u] = "renew" BY <1>3, <3>1 DEF Active
    <3>3. doc' = Renewed(doc, u) /\ snap[u] = doc
      BY <2>4, <3>1, <3>2 DEF Replaces, Creates
    <3>4. now' = now
      BY <2>4 DEF Next, vars, Tick, Admit, AdmitStart, AdmitRead, AdmitReplace,
                  AdmitMoved, AdmitCreate, AdmitExists, AdmitGiveUp, AdmitFault, Execute,
                  HydrateOk, HydrateFailed, RenewRead, RenewWrite, RunEnds, Settle,
                  CheckFence, CheckFault, PutCheckpoint, ReleaseRead, ReleaseWrite,
                  WriteFault, Crash
    <3>5. now < t0[u] + Fresh
      <4>1. doc.ts <= t0[u] /\ doc.ts \in Nat
        BY <1>0, <3>2, <3>3 DEF FencedPhases, Doc
      <4> QED BY <1>0, <2>1, <4>1 DEF HoldsFresh
    <3> QED BY <1>0, <2>1, <2>2, <3>3, <3>4, <3>5 DEF Renewed, HoldsFresh, Doc
  <2> QED BY <1>0, <2>3, <2>4, StepKinds
<1> QED BY <1>0, <1>1, <1>2, <1>3, WorkerSource

\* An admission empties sure; any other step keeps every token and adds to it
\* only a turn that reads its own lease.
LEMMA SureSource ==
  ASSUME TypeOK, SnapOK, [Next]_vars
  PROVE  \/ sure' = {}
         \/ /\ fence' = fence /\ gen' = gen
            /\ doc'.gen = doc.gen /\ doc'.fence = doc.fence
            /\ \A v \in sure' : v \in sure \/ Current(v)
<1> DEFINE Kept == /\ fence' = fence /\ gen' = gen
                   /\ doc'.gen = doc.gen /\ doc'.fence = doc.fence
                   /\ \A v \in sure' : v \in sure \/ Current(v)
<1>0. doc \in Doc BY DEF TypeOK
<1>1. CASE UNCHANGED vars BY <1>1 DEF vars
<1>2. CASE Tick BY <1>2 DEF Tick
<1>3. ASSUME NEW t \in Turn, Admit(t) PROVE sure' = {} \/ Kept
  BY <1>3 DEF Admit, AdmitStart, AdmitRead, AdmitReplace, AdmitMoved, AdmitCreate,
              AdmitExists, AdmitGiveUp, AdmitFault, Admitted
<1>4. ASSUME NEW t \in Turn, Execute(t) PROVE Kept
  <2>1. CASE RenewWrite(t)
    <3>1. Unmoved(t) => snap[t] = doc BY <2>1 DEF RenewWrite, Unmoved, SnapOK
    <3>2. UNCHANGED <<fence, gen, sure>> BY <2>1 DEF RenewWrite
    <3>3. doc' = doc \/ doc' = Renewed(doc, t) BY <2>1, <3>1 DEF RenewWrite
    <3>4. doc'.gen = doc.gen /\ doc'.fence = doc.fence BY <1>0, <3>3 DEF Renewed, Doc
    <3> QED BY <3>2, <3>4
  <2> QED BY <1>4, <2>1 DEF Execute, HydrateOk, HydrateFailed, RenewRead, RunEnds
<1>5. ASSUME NEW t \in Turn, Settle(t) PROVE Kept
  <2>1. CASE ReleaseWrite(t)
    <3>1. Unmoved(t) => snap[t] = doc BY <2>1 DEF ReleaseWrite, Unmoved, SnapOK
    <3>2. UNCHANGED <<fence, gen, sure>> BY <2>1 DEF ReleaseWrite
    <3>3. doc' = doc \/ doc' = Released(doc, t) BY <2>1, <3>1 DEF ReleaseWrite
    <3>4. doc'.gen = doc.gen /\ doc'.fence = doc.fence BY <1>0, <3>3 DEF Released, Doc
    <3> QED BY <3>2, <3>4
  <2>2. CASE CheckFence(t) BY <2>2 DEF CheckFence
  <2> QED BY <1>5, <2>1, <2>2 DEF Settle, CheckFault, PutCheckpoint, ReleaseRead,
              WriteFault
<1>6. ASSUME NEW t \in Turn, Crash(t) PROVE Kept
  BY <1>6 DEF Crash
<1> QED BY <1>1, <1>2, <1>3, <1>4, <1>5, <1>6 DEF Next

\* A fence check that read the turn's own lease stays true until an admission.
LEMMA SureStep ==
  ASSUME TypeOK, SnapOK, SureHolds, [Next]_vars
  PROVE  SureHolds'
BY SureSource DEF SureHolds, Current, Admission

\* The last saved checkpoint is of an admission the document has seen.
SavedPast == NoLaterThan(saved, [gen |-> doc.gen, fence |-> doc.fence])

\* What is saved is of no later admission than the document's.
LEMMA SavedStep ==
  ASSUME CoreInv, ~EtagReuse, SavedPast, [Next]_vars
  PROVE  SavedPast'
<1>0. /\ TypeOK /\ SnapOK /\ AdmissionsPast
      /\ doc \in Doc /\ doc' \in Doc /\ saved \in [gen : Nat, fence : Nat]
  BY TypeStep DEF CoreInv, StoreInv, TypeOK
<1>1. CASE saved' = saved
  BY <1>0, <1>1, DocGrows DEF SavedPast, NoLaterThan, Doc
<1>2. ASSUME NEW t \in Turn, fence[t] > 0, saved' = Admission(t), doc' = doc
      PROVE  SavedPast'
  <2>1. gen[t] \in Nat /\ fence[t] \in Nat /\ doc.gen \in Nat /\ doc.fence \in Nat
    BY <1>0 DEF TypeOK, Doc
  <2>2. gen[t] < doc.gen \/ (gen[t] = doc.gen /\ fence[t] <= doc.fence)
    BY <1>0, <1>2, <2>1 DEF AdmissionsPast
  <2> QED BY <1>2, <2>2 DEF SavedPast, NoLaterThan, Admission
<1>3. saved' = saved \/ \E t \in Turn : fence[t] > 0 /\ saved' = Admission(t) /\ doc' = doc
  BY DEF Next, vars, Tick, Admit, AdmitStart, AdmitRead, AdmitReplace, AdmitMoved,
         AdmitCreate, AdmitExists, AdmitGiveUp, AdmitFault, Execute, HydrateOk,
         HydrateFailed, RenewRead, RenewWrite, RunEnds, Settle, CheckFence, CheckFault,
         PutCheckpoint, ReleaseRead, ReleaseWrite, WriteFault, Crash
<1> QED BY <1>1, <1>2, <1>3

LeaseInv ==
  CoreInv /\ SavedPast /\ SureHolds /\ (Enforce => ActiveHolds)

\* The invariant of the lease holds at the start.
LEMMA LeaseInvInit == Init => LeaseInv
<1> SUFFICES ASSUME Init PROVE LeaseInv OBVIOUS
<1>1. CoreInv BY CoreInit
<1>2. SavedPast BY DEF Init, SavedPast, NoLaterThan, NoAdmission, NoDoc
<1>3. ActiveHolds /\ SureHolds BY DEF Init, ActiveHolds, SureHolds, Active
<1> QED BY <1>1, <1>2, <1>3 DEF LeaseInv

\* Every step keeps the invariant of the lease.
LEMMA LeaseInvStep == ~EtagReuse /\ LeaseInv /\ [Next]_vars => LeaseInv'
<1> SUFFICES ASSUME ~EtagReuse, LeaseInv, [Next]_vars PROVE LeaseInv' OBVIOUS
<1>1. CoreInv' BY CoreStep DEF LeaseInv
<1>2. SavedPast' BY SavedStep DEF LeaseInv
<1>3. Enforce => ActiveHolds' BY ActiveHoldsStep DEF LeaseInv
<1>4. SureHolds' BY SureStep DEF LeaseInv, CoreInv, StoreInv
<1> QED BY <1>1, <1>2, <1>3, <1>4 DEF LeaseInv

\* In enforce mode a fenced turn that restores, runs or saves the workspace of a
\* session is joined by a later one only after its own lease went stale, however
\* many turns are sent to the session and however late heartbeats are.
THEOREM FencedTurnsExclude == ~EtagReuse => (Spec => []FencedExclusive)
<1> SUFFICES ASSUME ~EtagReuse PROVE Spec => []FencedExclusive OBVIOUS
<1>1. Init => LeaseInv BY LeaseInvInit
<1>2. LeaseInv /\ [Next]_vars => LeaseInv' BY LeaseInvStep
<1>3. LeaseInv => FencedExclusive
  <2> SUFFICES ASSUME LeaseInv, Enforce, NEW t \in Turn, NEW u \in Turn, t # u,
                      Active(t), fence[t] > 0, fence[u] > 0,
                      NoLaterThan(Admission(t), Admission(u)), t \notin lapsed
               PROVE  FALSE
    BY DEF FencedExclusive
  <2>1. HoldsFresh(t) BY DEF LeaseInv, ActiveHolds
  <2>2. /\ gen[t] = doc.gen /\ fence[t] = doc.fence
        /\ gen[t] < gen[u] \/ (gen[t] = gen[u] /\ fence[t] <= fence[u])
    BY <2>1 DEF HoldsFresh, Admission, NoLaterThan
  <2>3. gen[u] <= doc.gen /\ (gen[u] = doc.gen => fence[u] <= doc.fence)
    BY DEF LeaseInv, CoreInv, StoreInv, AdmissionsPast
  <2>4. /\ gen[t] \in Nat /\ gen[u] \in Nat /\ fence[t] \in Nat /\ fence[u] \in Nat
    BY DEF LeaseInv, CoreInv, StoreInv, TypeOK
  <2>5. gen[t] = gen[u] /\ fence[t] = fence[u] BY <2>2, <2>3, <2>4
  <2> QED BY <2>5 DEF LeaseInv, CoreInv, StoreInv, FenceUnique, Admission
<1> QED BY <1>1, <1>2, <1>3, PTL DEF Spec

\* Checkpoints are saved in the order of admission, in any mode and however late
\* heartbeats are, but for an upload that was overtaken: one whose check did not
\* read the turn's own lease, or during which somebody was admitted.
THEOREM CheckpointsOrdered == ~EtagReuse => (Spec => CheckpointsInOrder)
<1> SUFFICES ASSUME ~EtagReuse PROVE Spec => CheckpointsInOrder OBVIOUS
<1> DEFINE Ordered == \/ NoLaterThan(saved, saved')
                      \/ \E t \in Turn \ sure : pc[t] = "put" /\ saved' = Admission(t)
<1>1. Init => LeaseInv BY LeaseInvInit
<1>2. LeaseInv /\ [Next]_vars => LeaseInv' BY LeaseInvStep
<1>3. LeaseInv /\ [Next]_vars => [Ordered]_saved
  <2> SUFFICES ASSUME LeaseInv, [Next]_vars, saved' # saved PROVE Ordered
    OBVIOUS
  <2>1. PICK t \in Turn : pc[t] = "put" /\ fence[t] > 0 /\ saved' = Admission(t)
    BY DEF Next, vars, Tick, Admit, AdmitStart, AdmitRead, AdmitReplace, AdmitMoved,
           AdmitCreate, AdmitExists, AdmitGiveUp, AdmitFault, Execute, HydrateOk,
           HydrateFailed, RenewRead, RenewWrite, RunEnds, Settle, CheckFence, CheckFault,
           PutCheckpoint, ReleaseRead, ReleaseWrite, WriteFault, Crash
  <2>2. CASE t \in sure
    <3>1. Admission(t) = [gen |-> doc.gen, fence |-> doc.fence]
      BY <2>2 DEF LeaseInv, SureHolds
    <3> QED BY <2>1, <3>1 DEF LeaseInv, SavedPast
  <2>3. CASE t \notin sure BY <2>1, <2>3
  <2> QED BY <2>2, <2>3
<1> QED BY <1>1, <1>2, <1>3, PTL DEF Spec, CheckpointsInOrder
-----------------------------------------------------------------------------
(* Refinement: the lease document is a lock with fencing tokens. *)

\* Who writes the document holds the lock, or nobody does.
LEMMA HolderAfterWrite ==
  ASSUME TypeOK, NEW t \in Turn, doc'.owner = t
  PROVE  Holder' \in {t, NoTurn}
BY DEF Holder

\* Every step of the lease is a step of the lock or leaves it as it is.
LEMMA LockStep ==
  ASSUME CoreInv, ~EtagReuse, [Next]_vars
  PROVE  [Lock!Next]_Lock!vars
<1>0. /\ TypeOK /\ SnapOK /\ doc \in Doc /\ doc' \in Doc /\ now \in Nat /\ now' \in Nat
      /\ Fresh \in Nat /\ DocTTL \in Nat
  BY TypeStep, TimeAssumption DEF CoreInv, StoreInv, TypeOK
<1>1. now <= now' BY ClockStep DEF CoreInv, StoreInv
<1>2. CASE doc' = doc
  <2>1. Holder' \in {Holder, NoTurn}
    <3> SUFFICES ASSUME Holder' # NoTurn PROVE Holder' = Holder OBVIOUS
    <3>1. Visible' /\ doc.expires > now' /\ now' - doc.ts < Fresh
      BY <1>2 DEF Holder
    <3>2. Visible /\ doc.expires > now /\ now - doc.ts < Fresh
      BY <1>0, <1>1, <1>2, <3>1 DEF Visible, Doc
    <3> QED BY <1>2, <3>1, <3>2 DEF Holder
  <2> QED BY <1>2, <2>1 DEF Lock!Next, Lock!Lapse, Lock!vars
<1>3. ASSUME NEW t \in Turn, Replaces(t), pc[t] = "cas"
      PROVE  Lock!Grant(t)
  <2>1. Enforce => Holder \in {NoTurn, t}
    <3> SUFFICES ASSUME Enforce, Holder # NoTurn, Holder # t PROVE FALSE OBVIOUS
    <3>1. doc.owner # t /\ doc.expires > now /\ now - doc.ts < Fresh
      BY DEF Holder
    <3>2. t0[t] \in Nat /\ t0[t] <= now
      BY DEF CoreInv, StoreInv, TypeOK, ClockPast
    <3>3. ActiveConflict(doc, t)
      BY <1>0, <3>1, <3>2 DEF ActiveConflict, Doc
    <3> QED BY <1>3, <3>3 DEF CoreInv, StoreInv, Judged, Replaces
  <2>2. doc'.owner = t /\ doc'.gen = doc.gen /\ doc'.fence = doc.fence + 1
    BY <1>0, <1>3 DEF Replaces, Taken, Doc
  <2>3. doc'.gen \in Nat /\ doc'.fence \in Nat /\ doc'.fence > doc.fence
    BY <1>0, <2>2 DEF Doc
  <2> QED BY <1>0, <2>1, <2>2, <2>3, HolderAfterWrite
      DEF Lock!Grant, Lock!Tokens, Lock!Later
<1>4. ASSUME NEW t \in Turn, Replaces(t), pc[t] # "cas"
      PROVE  Lock!Extend \/ Lock!Lapse
  <2>1. doc' = Renewed(doc, t) \/ doc' = Released(doc, t)
    BY <1>4 DEF Replaces
  <2>2. doc'.owner = doc.owner /\ doc'.gen = doc.gen /\ doc'.fence = doc.fence
    BY <1>0, <2>1 DEF Renewed, Released, Doc
  <2>3. Holder' \in {doc.owner, NoTurn} BY <2>2 DEF Holder
  <2> QED BY <2>2, <2>3 DEF Lock!Extend, Lock!Lapse
<1>5. ASSUME NEW t \in Turn, Creates(t)
      PROVE  Lock!Grant(t)
  <2>1. Holder = NoTurn BY <1>5 DEF Creates, Holder
  <2>2. doc'.owner = t /\ doc'.gen = doc.gen + 1 /\ doc'.fence = 1
    BY <1>5 DEF Creates, Created
  <2>3. doc'.gen \in Nat /\ doc'.fence \in Nat /\ doc'.gen > doc.gen
    BY <1>0, <2>2 DEF Doc
  <2> QED BY <1>0, <2>1, <2>2, <2>3, HolderAfterWrite
      DEF Lock!Grant, Lock!Tokens, Lock!Later
<1> QED BY <1>0, <1>2, <1>3, <1>4, <1>5, StepKinds DEF Lock!Next

\* The store protocol of the lease implements the abstract lock, in any mode,
\* whatever fails and however late a heartbeat comes.
THEOREM LeaseImplementsLock == ~EtagReuse => (Spec => LeaseIsFencedLock)
<1> SUFFICES ASSUME ~EtagReuse PROVE Spec => LeaseIsFencedLock OBVIOUS
<1>1. Init => CoreInv BY CoreInit
<1>2. Init => Lock!Init
  BY DEF Init, NoDoc, Lock!Init, Holder, Visible
<1>3. CoreInv /\ [Next]_vars => CoreInv' BY CoreStep
<1>4. CoreInv /\ [Next]_vars => [Lock!Next]_Lock!vars BY LockStep
<1> QED BY <1>1, <1>2, <1>3, <1>4, PTL DEF Spec, LeaseIsFencedLock, Lock!Spec
-----------------------------------------------------------------------------
(***************************************************************************)
(* The environment.                                                        *)
(***************************************************************************)

\* A build and the calls that start or activate one name a version.
NamesVersion ==
  /\ build.pc # "none" => build.n \in Version
  /\ \A b \in Builder : builder[b].pc = "post" => builder[b].n \in Version
  /\ \A a \in Activator : activator[a].pc = "point" => activator[a].n \in Version

RangeInv == EnvTypeOK /\ NamesVersion

\* A version that was finished is not said to be while it is built again, and a
\* build that failed did not finish, unless it failed before it cleared anything.
UnderWay ==
  /\ build.pc \in {"install", "was", "point", "mount", "record", "undo"} =>
       record[build.n] = "building"
  /\ build.pc = "fail" => record[build.n] # "ready" \/ build.n \in rebuilt

\* A finished build has its files, and they are there from the installation on.
ReadyIsWhole ==
  /\ \A v \in Version : record[v] = "ready" => tree[v] = "whole"
  /\ build.pc \in {"was", "point", "mount", "record", "undo"} => tree[build.n] = "whole"

\* What a call is about to make active is a finished build, or is built again.
ActivatesReady ==
  \A a \in Activator : activator[a].pc = "point" =>
    record[activator[a].n] = "ready" \/ activator[a].n \in rebuilt

Sound(v) == v \notin rebuilt \cup {None} =>
  /\ tree[v] = "whole"
  /\ record[v] # "failed" \/ v \in unhealed

\* A version that is built for the first time is not active before it is pointed
\* at; what was active then is another version, and sound; if its build failed it
\* is not active, unless the disk kept it so.
BuildNotActive ==
  /\ build.pc \in {"install", "was", "point"} => active # build.n \/ build.n \in rebuilt
  /\ build.pc \in {"point", "mount", "record", "undo"} =>
       (build.was # build.n \/ build.n \in rebuilt) /\ Sound(build.was)
  /\ build.pc = "fail" => active # build.n \/ build.n \in unhealed \cup rebuilt

VersionInv ==
  /\ UnderWay /\ ReadyIsWhole /\ ActivatesReady /\ BuildNotActive
  /\ ActiveIsWhole
-----------------------------------------------------------------------------
(* The next version's number. *)

\* A set of naturals below a bound that is not empty has a greatest member.
LEMMA MaxOfBounded ==
  ASSUME NEW n \in Nat, NEW S, S \subseteq 1 .. n, S # {}
  PROVE  Max(S) \in S /\ \A v \in S : v <= Max(S)
<1> DEFINE Above == {k \in Nat : \A v \in S : v <= k}
<1>1. n \in Above
  OBVIOUS
<1>2. PICK m \in Above : \A k \in Above : ~(k < m)
  <2>1. PICK m \in Above : \A k \in Above : <<k, m>> \notin OpToRel(<, Nat)
    BY <1>1, WFMin, NatLessThanWellFounded, Zenon
  <2> QED BY <2>1, Zenon DEF OpToRel
<1>3. m \in Nat /\ \A v \in S : v <= m
  BY <1>2
<1>4. m \in S
  <2> SUFFICES ASSUME m \notin S PROVE FALSE
    OBVIOUS
  <2>1. \A v \in S : v <= m - 1
    BY <1>3
  <2>2. m - 1 \in Nat
    <3>1. PICK v \in S : TRUE
      OBVIOUS
    <3>2. v \in 1 .. n /\ v <= m
      BY <1>3
    <3> QED BY <1>3, <3>2
  <2> QED BY <1>2, <1>3, <2>1, <2>2
<1>5. \E x \in S : \A y \in S : x >= y
  BY <1>3, <1>4
<1>6. /\ (CHOOSE x \in S : \A y \in S : x >= y) \in S
      /\ \A y \in S : (CHOOSE x \in S : \A y_1 \in S : x >= y_1) >= y
  BY <1>5
<1> QED BY <1>6 DEF Max

\* The number after the latest one, which the gateway asks the runner to build, is free.
LEMMA NextVersionFree ==
  /\ Latest \in 0 .. MaxVersion
  /\ Latest # 0 => Latest \in Version
  /\ Latest + 1 \notin Known
<1> USE MaxVersionAssumption
<1>1. Known \subseteq 1 .. MaxVersion
  BY DEF Known, Version
<1>2. CASE Known = {}
  BY <1>2 DEF Latest
<1>3. CASE Known # {}
  <2>1. Max(Known) \in Known /\ \A v \in Known : v <= Max(Known)
    BY <1>1, <1>3, MaxOfBounded
  <2>2. Latest = Max(Known)
    BY <1>3 DEF Latest
  <2>3. Latest \in Known /\ Latest \in 1 .. MaxVersion /\ \A v \in Known : v <= Latest
    BY <1>1, <2>1, <2>2
  <2>4. Latest + 1 \notin Known
    BY <2>3
  <2> QED BY <2>3, <2>4 DEF Version
<1> QED BY <1>2, <1>3

\* The status shown for a version is one of the four of its record.
LEMMA StatusTyped ==
  EnvTypeOK => LiveStatus \in {"empty", "building", "ready", "failed"}
  BY DEF LiveStatus
-----------------------------------------------------------------------------
(* Type correctness. *)

\* A build call takes a version number that is in range, and its build and every other
\* variable stay in theirs.
LEMMA RangeStep == RangeInv /\ [EnvNext]_envVars => RangeInv'
<1> SUFFICES ASSUME RangeInv, [EnvNext]_envVars PROVE RangeInv'
  OBVIOUS
<1> USE DEF calls, files, vertex, history, EnvTypeOK, CallPc, BuildPc, RangeInv,
            NamesVersion
<1>1. CASE Refresh
  BY <1>1, StatusTyped DEF Refresh
<1>2. CASE Clear
  BY <1>2 DEF Clear, Step
<1>3. CASE Install
  BY <1>3 DEF Install, Step
<1>4. CASE ReadActive
  BY <1>4 DEF ReadActive, Following
<1>5. CASE Point
  BY <1>5 DEF Point, Step, Following
<1>6. CASE Mount
  BY <1>6 DEF Mount, Step, Following
<1>7. CASE RecordReady
  BY <1>7 DEF RecordReady, Following, NoBuild
<1>8. CASE LastStepFails
  BY <1>8 DEF LastStepFails, Step
<1>9. CASE Undo
  BY <1>9 DEF Undo, Step, ActiveBefore
<1>10. CASE Fail
  BY <1>10 DEF Fail, Failed, NoBuild
<1>11. CASE OtherMounts
  BY <1>11 DEF OtherMounts
<1>12. CASE Resolve
  BY <1>12 DEF Resolve
<1>13. CASE Restart
  BY <1>13, MaxRestartsAssumption DEF Restart, NoBuild, Idle
<1>14. ASSUME NEW b \in Builder, BuildRead(b) PROVE RangeInv'
  <2>1. Latest + 1 \in Version
    BY <1>14, NextVersionFree, MaxVersionAssumption DEF BuildRead, Version
  <2> QED BY <1>14, <2>1, StatusTyped DEF BuildRead
<1>15. ASSUME NEW b \in Builder, BuildPost(b) PROVE RangeInv'
  BY <1>15 DEF BuildPost
<1>16. ASSUME NEW b \in Builder, BuildMark(b) PROVE RangeInv'
  BY <1>16 DEF BuildMark
<1>17. ASSUME NEW a \in Activator, NEW v \in Version, ActivateRead(a, v) PROVE RangeInv'
  BY <1>17 DEF ActivateRead, Finished
<1>18. ASSUME NEW a \in Activator, ActivatePoint(a) PROVE RangeInv'
  BY <1>18 DEF ActivatePoint
<1>19. ASSUME NEW a \in Activator, ActivateMount(a) PROVE RangeInv'
  BY <1>19, StatusTyped DEF ActivateMount
<1>20. ASSUME NEW d \in Deleter, DeleteRead(d) PROVE RangeInv'
  BY <1>20, StatusTyped DEF DeleteRead
<1>21. ASSUME NEW d \in Deleter, DeleteUnmount(d) PROVE RangeInv'
  BY <1>21 DEF DeleteUnmount
<1>22. ASSUME NEW d \in Deleter, DeleteMark(d) PROVE RangeInv'
  BY <1>22 DEF DeleteMark
<1>23. CASE UNCHANGED envVars
  BY <1>23 DEF envVars
<1> HIDE DEF RangeInv
<1> QED
  BY <1>1, <1>2, <1>3, <1>4, <1>5, <1>6, <1>7, <1>8, <1>9, <1>10, <1>11, <1>12,
     <1>13, <1>14, <1>15, <1>16, <1>17, <1>18, <1>19, <1>20, <1>21, <1>22, <1>23 DEF
     EnvNext, BuildThread

\* The invariant that the theorems below rest on.
THEOREM NamesVersions == EnvSpec => []RangeInv
<1>1. EnvInit => RangeInv
  <2> SUFFICES ASSUME EnvInit PROVE RangeInv
    OBVIOUS
  <2>1. EnvTypeOK
    <3>1. /\ Idle \in [pc : CallPc, n : Version \cup {None}]
          /\ Idle \in [pc : CallPc, n : {None}]
          /\ NoBuild \in [pc : BuildPc, n : Version \cup {None}, was : Version \cup {None}]
      BY DEF CallPc, BuildPc, NoBuild, Idle
    <3>2. 0 \in 0 .. MaxRestarts
      BY MaxRestartsAssumption
    <3> QED BY <3>1, <3>2 DEF EnvInit, EnvTypeOK
  <2>2. NamesVersion
    BY DEF EnvInit, NamesVersion, NoBuild, Idle
  <2> QED BY <2>1, <2>2 DEF RangeInv
<1> QED BY <1>1, RangeStep, PTL DEF EnvSpec

\* Every variable of the files, the calls and the vertex stays in its range: in
\* particular a build's number is a version's.
THEOREM EnvTypeCorrect == EnvSpec => []EnvTypeOK
<1>1. RangeInv => EnvTypeOK
  BY DEF RangeInv
<1> QED BY <1>1, NamesVersions, PTL
-----------------------------------------------------------------------------
(* The active version is whole. *)

\* Every step of a build, an activation or a restart keeps the active version whole
\* or knows it as built again: the link moves only to a finished one.
LEMMA VersionStep == RangeInv /\ VersionInv /\ [EnvNext]_envVars => VersionInv'
<1> SUFFICES ASSUME RangeInv, VersionInv, [EnvNext]_envVars PROVE VersionInv'
  OBVIOUS
<1> USE NoneAssumption
<1> USE DEF calls, files, vertex, history, EnvTypeOK, CallPc, BuildPc, RangeInv,
            NamesVersion, VersionInv, UnderWay, ReadyIsWhole,
            ActivatesReady, BuildNotActive, ActiveIsWhole, Sound
<1>1. CASE Refresh
  BY <1>1 DEF Refresh
<1>2. CASE Clear
  <2>1. /\ build.pc = "clear" /\ build.n \in Version
        /\ rebuilt \subseteq rebuilt'
        /\ record[build.n] = "ready" \/ active = build.n => build.n \in rebuilt'
        /\ UNCHANGED <<active, activator, unhealed>>
        /\ build'.n = build.n /\ build'.pc \in {"install", "fail"}
    BY <1>2 DEF Clear, Step
  <2>2. \A v \in Version \ {build.n} :
          record'[v] = record[v] /\ tree'[v] = tree[v] /\ (v \in rebuilt' <=> v \in rebuilt)
    BY <1>2, <2>1 DEF Clear, Step
  <2>3. /\ build'.pc = "install" => record'[build.n] = "building"
        /\ build'.pc = "fail" => record'[build.n] \in {"none", record[build.n]}
        /\ record'[build.n] = "ready" => record[build.n] = "ready" /\ tree' = tree
    BY <1>2, <2>1 DEF Clear, Step
  <2>4. UnderWay'
    BY <2>1, <2>3
  <2>5. ReadyIsWhole'
    BY <2>1, <2>2, <2>3
  <2>6. ActivatesReady'
    BY <2>1, <2>2
  <2>7. BuildNotActive'
    BY <2>1
  <2>8. ActiveIsWhole'
    BY <2>1, <2>2
  <2> QED BY <2>4, <2>5, <2>6, <2>7, <2>8
<1>3. CASE Install
  BY <1>3 DEF Install, Step
<1>4. CASE ReadActive
  BY <1>4 DEF ReadActive, Following
<1>5. CASE Point
  <2>1. /\ build.pc = "point" /\ build.n \in Version /\ active' = build.n
        /\ build' = [build EXCEPT !.pc = "mount"]
        /\ UNCHANGED <<record, tree, mount, calls, unhealed, rebuilt>>
    BY <1>5 DEF Point, Step, Following
  <2>2. record[build.n] # "failed"
    BY <2>1
  <2>3. UnderWay' /\ ReadyIsWhole' /\ ActivatesReady'
    BY <2>1
  <2>4. BuildNotActive'
    BY <2>1
  <2>5. ActiveIsWhole'
    BY <2>1, <2>2
  <2> QED BY <2>3, <2>4, <2>5
<1>6. CASE Mount
  BY <1>6 DEF Mount, Step, Following
<1>7. CASE RecordReady
  BY <1>7 DEF RecordReady, Following, NoBuild
<1>8. CASE LastStepFails
  BY <1>8 DEF LastStepFails, Step
<1>9. CASE Undo
  BY <1>9 DEF Undo, Step, ActiveBefore
<1>10. CASE Fail
  BY <1>10 DEF Fail, Failed, NoBuild
<1>11. CASE OtherMounts
  BY <1>11 DEF OtherMounts
<1>12. CASE Resolve
  BY <1>12 DEF Resolve
<1>13. CASE Restart
  BY <1>13 DEF Restart, NoBuild, Idle
<1>14. ASSUME NEW b \in Builder, BuildRead(b) PROVE VersionInv'
  BY <1>14 DEF BuildRead
<1>15. ASSUME NEW b \in Builder, BuildPost(b) PROVE VersionInv'
  BY <1>15 DEF BuildPost
<1>16. ASSUME NEW b \in Builder, BuildMark(b) PROVE VersionInv'
  BY <1>16 DEF BuildMark
<1>17. ASSUME NEW a \in Activator, NEW v \in Version, ActivateRead(a, v)
      PROVE  VersionInv'
  BY <1>17 DEF ActivateRead, Finished
<1>18. ASSUME NEW a \in Activator, ActivatePoint(a) PROVE VersionInv'
  BY <1>18 DEF ActivatePoint
<1>19. ASSUME NEW a \in Activator, ActivateMount(a) PROVE VersionInv'
  BY <1>19 DEF ActivateMount
<1>20. ASSUME NEW d \in Deleter, DeleteRead(d) PROVE VersionInv'
  BY <1>20 DEF DeleteRead
<1>21. ASSUME NEW d \in Deleter, DeleteUnmount(d) PROVE VersionInv'
  BY <1>21 DEF DeleteUnmount
<1>22. ASSUME NEW d \in Deleter, DeleteMark(d) PROVE VersionInv'
  BY <1>22 DEF DeleteMark
<1>23. CASE UNCHANGED envVars
  BY <1>23 DEF envVars
<1> HIDE DEF VersionInv
<1> QED
  BY <1>1, <1>2, <1>3, <1>4, <1>5, <1>6, <1>7, <1>8, <1>9, <1>10, <1>11, <1>12,
     <1>13, <1>14, <1>15, <1>16, <1>17, <1>18, <1>19, <1>20, <1>21, <1>22, <1>23 DEF
     EnvNext, BuildThread

\* ActiveIsWhole for any versions, calls, activations, deletions, failing disks
\* and restarts: a build points the link only at whole files and puts back what
\* was active before it says that it failed, and the one way to lose an active
\* version's files is to build that version again.
THEOREM ActiveWhole == EnvSpec => []ActiveIsWhole
<1>1. EnvInit => VersionInv
  BY NoneAssumption DEF EnvInit, VersionInv, UnderWay, ReadyIsWhole, ActivatesReady,
     BuildNotActive, ActiveIsWhole, NoBuild, Idle
<1>2. RangeInv /\ VersionInv /\ [EnvNext]_envVars => VersionInv'
  BY VersionStep
<1>3. VersionInv => ActiveIsWhole
  BY DEF VersionInv
<1> QED BY <1>1, <1>2, <1>3, NamesVersions, PTL DEF EnvSpec
=============================================================================
