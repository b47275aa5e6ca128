---------------------------- MODULE SessionLease ----------------------------
(***************************************************************************)
(* The per-session execution lease of gateway/control_store.py, with the   *)
(* turn (gateway/app.py, _resp_execute and _checkpoint) that takes, renews,*)
(* consults and releases it.                                               *)
(*                                                                         *)
(* Every call of the control store is a read followed by a conditional     *)
(* write, and other replicas act between the two, so each call is the      *)
(* steps it makes at the store.  A turn is one response id, which is also  *)
(* the owner it writes into the lease.                                     *)
(***************************************************************************)
EXTENDS Integers

CONSTANTS
  Turn,         \* response ids that run a turn on this session
  Enforce,      \* HR_SESSION_LEASE: TRUE for "enforce", FALSE for "observe"
  StoreFaults,  \* TRUE: a store call may fail, before or after its effect
  EtagReuse,    \* TRUE: a document made anew starts at etag 1 (control_sqlite)
  TTL,          \* LEASE_TTL_S
  Fresh,        \* LEASE_FRESH_S
  DocTTL,       \* the document's own ttl, max(4 * TTL, 3600) in the code
  CasTries,     \* rounds of lease_admit's compare-and-swap loop, 5 in the code
  MaxNow,       \* bound: the clock's last value
  NoTurn        \* the owner of a document nobody ever wrote

ASSUME ModeAssumption ==
  /\ Enforce \in BOOLEAN
  /\ StoreFaults \in BOOLEAN
  /\ EtagReuse \in BOOLEAN

ASSUME TimeAssumption ==
  /\ TTL \in Nat /\ Fresh \in Nat \ {0} /\ DocTTL \in Nat
  /\ Fresh <= TTL
  /\ Fresh <= DocTTL
  /\ CasTries \in Nat
  /\ MaxNow \in Nat

ASSUME NoTurnAssumption == NoTurn \notin Turn

VARIABLES
  now,    \* the wall clock, in units of the smallest interval that matters
  doc,    \* the document lease::<org>::<sid>
  pc,     \* where each turn stands in the code
  fence,  \* rec["lease_fence"]: the fence admission returned, 0 if unfenced
  snap,   \* the document the turn's last read_item returned
  t0,     \* the clock the turn took for its pending write
  tries,  \* rounds left in lease_admit's loop
  gen,    \* history: the generation of the document the fence came from
  saved,  \* history: the admission of the last fenced turn that checkpointed
  lapsed, \* history: turns whose lease was not fresh at some moment of their work
  sure    \* history: turns whose fence check read their own lease, and since
          \* when nobody has been admitted

vars == <<now, doc, pc, fence, snap, t0, tries, gen, saved, lapsed, sure>>
-----------------------------------------------------------------------------
(* The document.  etag is bumped by every write.  gen counts how often the *)
(* document was made anew and is not part of the code's document: a fence  *)
(* starts again at 1 when the document has outlived its ttl.               *)

Doc == [present : BOOLEAN, etag : Nat, gen : Nat, fence : Nat,
        owner : Turn \cup {NoTurn}, expires : Nat, ts : Nat]

NoDoc == [present |-> FALSE, etag |-> 0, gen |-> 0, fence |-> 0,
          owner |-> NoTurn, expires |-> 0, ts |-> 0]

\* What read_item finds: a document past its ttl reads as absent.
Visible == doc.present /\ now < doc.ts + DocTTL

\* Mutant: an incumbent one unit short of the window counts as stale.
ActiveConflictOffByOne(d, t) ==
  d.expires > t0[t] /\ d.owner # t /\ t0[t] - d.ts < Fresh - 1

\* lease_admit's classification of the document d at the turn's own clock.
ActiveConflict(d, t) ==
  /\ d.expires > t0[t]
  /\ d.owner # t
  /\ t0[t] - d.ts < Fresh

\* The document lease_admit writes over the one it read, and the one it creates.
Taken(d, t) ==
  [d EXCEPT !.etag = @ + 1, !.fence = @ + 1, !.owner = t,
            !.expires = t0[t] + TTL, !.ts = t0[t]]

Created(t) ==
  [present |-> TRUE, etag |-> IF EtagReuse THEN 1 ELSE doc.etag + 1,
   gen |-> doc.gen + 1, fence |-> 1,
   owner |-> t, expires |-> t0[t] + TTL, ts |-> t0[t]]

\* The write lease_renew makes, and lease_release's.
Renewed(d, t) ==
  [d EXCEPT !.etag = @ + 1, !.expires = t0[t] + TTL, !.ts = t0[t]]

\* Mutant of Released: the expiry is set one unit into the past.
ReleasedInThePast(d, t) ==
  [d EXCEPT !.etag = @ + 1, !.expires = t0[t] - 1, !.ts = t0[t]]

Released(d, t) ==
  [d EXCEPT !.etag = @ + 1, !.expires = 0, !.ts = t0[t]]

\* lease_renew and lease_release act only for the fence and owner they hold.
Mine(t) == Visible /\ doc.fence = fence[t] /\ doc.owner = t

\* Mutant: replace_item without its etag condition.
UnmovedAnyEtag(t) == Visible

\* replace_item's condition: the document is still the one that was read.
Unmoved(t) == Visible /\ doc.etag = snap[t].etag

PcValues == {"idle", "read", "cas", "create", "hydrate", "run", "renew",
             "check", "put", "release", "unlock", "ended", "crashed"}

\* The phases in which a turn uses the session's workspace.
Active(t) == pc[t] \in {"hydrate", "run", "renew", "check", "put"}

Goto(t, l) == pc' = [pc EXCEPT ![t] = l]

\* A store call returns: its local variables are gone.
Return(t) ==
  /\ snap' = [snap EXCEPT ![t] = NoDoc]
  /\ t0' = [t0 EXCEPT ![t] = 0]
  /\ tries' = [tries EXCEPT ![t] = 0]

\* An admission is known by the document's generation and the fence in it.
NoAdmission == [gen |-> 0, fence |-> 0]
Admission(t) == [gen |-> gen[t], fence |-> fence[t]]
NoLaterThan(a, b) == a.gen < b.gen \/ (a.gen = b.gen /\ a.fence <= b.fence)

\* History of an admission that landed: written with an old clock the lease is
\* stale at once, and no earlier fence check is worth anything now.
Admitted(t) ==
  /\ lapsed' = IF t0[t] + Fresh <= now THEN lapsed \cup {t} ELSE lapsed
  /\ sure' = {}
-----------------------------------------------------------------------------
Init ==
  /\ now = 0
  /\ doc = NoDoc
  /\ pc = [t \in Turn |-> "idle"]
  /\ fence = [t \in Turn |-> 0]
  /\ snap = [t \in Turn |-> NoDoc]
  /\ t0 = [t \in Turn |-> 0]
  /\ tries = [t \in Turn |-> 0]
  /\ gen = [t \in Turn |-> 0]
  /\ saved = NoAdmission
  /\ lapsed = {}
  /\ sure = {}

(* lease_admit, called before the workspace is restored. *)

AdmitStart(t) ==
  /\ pc[t] = "idle"
  /\ Goto(t, "read")
  /\ t0' = [t0 EXCEPT ![t] = now]
  /\ tries' = [tries EXCEPT ![t] = CasTries]
  /\ UNCHANGED <<now, doc, fence, snap, gen, saved, lapsed, sure>>

AdmitRead(t) ==
  /\ pc[t] = "read"
  /\ tries[t] > 0
  /\ \/ /\ ~Visible
        /\ Goto(t, "create")
        /\ UNCHANGED <<snap, t0, tries>>
     \/ /\ Visible
        /\ Enforce /\ ActiveConflict(doc, t)
        /\ Goto(t, "ended")               \* rejected: the turn never ran
        /\ Return(t)
     \/ /\ Visible
        /\ ~(Enforce /\ ActiveConflict(doc, t))
        /\ snap' = [snap EXCEPT ![t] = doc]
        /\ Goto(t, "cas")
        /\ UNCHANGED <<t0, tries>>
  /\ UNCHANGED <<now, doc, fence, gen, saved, lapsed, sure>>

AdmitReplace(t) ==
  /\ pc[t] = "cas"
  /\ Unmoved(t)
  /\ doc' = Taken(snap[t], t)
  /\ fence' = [fence EXCEPT ![t] = snap[t].fence + 1]
  /\ gen' = [gen EXCEPT ![t] = snap[t].gen]
  /\ Goto(t, "hydrate")
  /\ Return(t)
  /\ Admitted(t)
  /\ UNCHANGED <<now, saved>>

AdmitMoved(t) ==
  /\ pc[t] = "cas"
  /\ ~Unmoved(t)
  /\ \/ /\ Visible                        \* the etag moved: read again
        /\ Goto(t, "read")
        /\ tries' = [tries EXCEPT ![t] = @ - 1]
     \/ /\ ~Visible                       \* expired since the read: create it
        /\ Goto(t, "create")
        /\ UNCHANGED tries
  /\ snap' = [snap EXCEPT ![t] = NoDoc]
  /\ UNCHANGED <<now, doc, fence, t0, gen, saved, lapsed, sure>>

\* Mutant: the document is upserted where it should be created.
AdmitUpsert(t) ==
  /\ pc[t] = "create"
  /\ doc' = Created(t)
  /\ fence' = [fence EXCEPT ![t] = 1]
  /\ gen' = [gen EXCEPT ![t] = doc.gen + 1]
  /\ Goto(t, "hydrate")
  /\ Return(t)
  /\ Admitted(t)
  /\ UNCHANGED <<now, saved>>

AdmitCreate(t) ==
  /\ pc[t] = "create"
  /\ ~Visible
  /\ doc' = Created(t)
  /\ fence' = [fence EXCEPT ![t] = 1]
  /\ gen' = [gen EXCEPT ![t] = doc.gen + 1]
  /\ Goto(t, "hydrate")
  /\ Return(t)
  /\ Admitted(t)
  /\ UNCHANGED <<now, saved>>

AdmitExists(t) ==
  /\ pc[t] = "create"
  /\ Visible
  /\ Goto(t, "read")
  /\ tries' = [tries EXCEPT ![t] = @ - 1]
  /\ UNCHANGED <<now, doc, fence, snap, t0, gen, saved, lapsed, sure>>

AdmitGiveUp(t) ==                         \* five rounds lost: run unfenced
  /\ pc[t] = "read"
  /\ tries[t] = 0
  /\ Goto(t, "hydrate")
  /\ Return(t)
  /\ UNCHANGED <<now, doc, fence, gen, saved, lapsed, sure>>

\* A store error in admission: the turn runs unfenced, and a write whose
\* reply was lost has still happened.
AdmitFault(t) ==
  /\ StoreFaults
  /\ pc[t] \in {"read", "cas", "create"}
  /\ \/ UNCHANGED doc
     \/ pc[t] = "cas" /\ Unmoved(t) /\ doc' = Taken(snap[t], t)
     \/ pc[t] = "create" /\ ~Visible /\ doc' = Created(t)
  /\ sure' = IF doc' = doc THEN sure ELSE {}
  /\ Goto(t, "hydrate")
  /\ Return(t)
  /\ UNCHANGED <<now, fence, gen, saved, lapsed>>

(* The turn: restore the workspace, run, heartbeat. *)

HydrateOk(t) ==
  /\ pc[t] = "hydrate"
  /\ Goto(t, "run")
  /\ UNCHANGED <<now, doc, fence, snap, t0, tries, gen, saved, lapsed, sure>>

\* A checkpoint exists and cannot be restored: the turn returns at once.
HydrateFailed(t) ==
  /\ pc[t] = "hydrate"
  /\ Goto(t, "ended")
  /\ UNCHANGED <<now, doc, fence, snap, t0, tries, gen, saved, lapsed, sure>>

\* lease_renew's read.  The poll loop renews once per interval: at most once
\* at each value of the clock.
RenewRead(t) ==
  /\ pc[t] = "run"
  /\ fence[t] > 0
  /\ Mine(t)
  /\ doc.ts < now
  /\ snap' = [snap EXCEPT ![t] = doc]
  /\ t0' = [t0 EXCEPT ![t] = now]
  /\ Goto(t, "renew")
  /\ UNCHANGED <<now, doc, fence, tries, gen, saved, lapsed, sure>>

\* The renewal's write; whatever it answers, the poll loop goes on.
RenewWrite(t) ==
  /\ pc[t] = "renew"
  /\ IF Unmoved(t) THEN doc' = Renewed(snap[t], t) ELSE UNCHANGED doc
  /\ Goto(t, "run")
  /\ Return(t)
  /\ UNCHANGED <<now, fence, gen, saved, lapsed, sure>>

\* The runner's turn is over and its files are collected.
RunEnds(t) ==
  /\ pc[t] = "run"
  /\ Goto(t, "check")
  /\ UNCHANGED <<now, doc, fence, snap, t0, tries, gen, saved, lapsed, sure>>

(* _checkpoint: lease_still_held, then the upload. *)

StillHeld(t) == fence[t] = 0 \/ ~Visible \/ doc.fence = fence[t]

\* The document is the one the turn was admitted to, and nobody was since.
Current(t) ==
  Visible /\ fence[t] > 0 /\ Admission(t) = [gen |-> doc.gen, fence |-> doc.fence]

CheckFence(t) ==
  /\ pc[t] = "check"
  /\ IF StillHeld(t) \/ ~Enforce THEN Goto(t, "put") ELSE Goto(t, "release")
  /\ sure' = IF Current(t) THEN sure \cup {t} ELSE sure
  /\ UNCHANGED <<now, doc, fence, snap, t0, tries, gen, saved, lapsed>>

CheckFault(t) ==                          \* store unreadable: the write proceeds
  /\ StoreFaults
  /\ pc[t] = "check"
  /\ Goto(t, "put")
  /\ UNCHANGED <<now, doc, fence, snap, t0, tries, gen, saved, lapsed, sure>>

\* The upload lands, or fails and the last checkpoint stands.
PutCheckpoint(t) ==
  /\ pc[t] = "put"
  /\ Goto(t, "release")
  /\ saved' \in {saved, IF fence[t] > 0 THEN Admission(t) ELSE saved}
  /\ UNCHANGED <<now, doc, fence, snap, t0, tries, gen, lapsed, sure>>

(* lease_release. *)

ReleaseRead(t) ==
  /\ pc[t] = "release"
  /\ IF fence[t] > 0 /\ Mine(t)
     THEN /\ snap' = [snap EXCEPT ![t] = doc]
          /\ t0' = [t0 EXCEPT ![t] = now]
          /\ Goto(t, "unlock")
     ELSE /\ Goto(t, "ended")
          /\ UNCHANGED <<snap, t0>>
  /\ UNCHANGED <<now, doc, fence, tries, gen, saved, lapsed, sure>>

ReleaseWrite(t) ==
  /\ pc[t] = "unlock"
  /\ IF Unmoved(t) THEN doc' = Released(snap[t], t) ELSE UNCHANGED doc
  /\ Goto(t, "ended")
  /\ Return(t)
  /\ UNCHANGED <<now, fence, gen, saved, lapsed, sure>>

\* A store error while renewing or releasing changes nothing and is swallowed.
WriteFault(t) ==
  /\ StoreFaults
  /\ \/ pc[t] = "renew" /\ Goto(t, "run")
     \/ pc[t] \in {"release", "unlock"} /\ Goto(t, "ended")
  /\ Return(t)
  /\ UNCHANGED <<now, doc, fence, gen, saved, lapsed, sure>>

\* The replica running the turn dies.
Crash(t) ==
  /\ pc[t] \notin {"idle", "ended", "crashed"}
  /\ Goto(t, "crashed")
  /\ Return(t)
  /\ UNCHANGED <<now, doc, fence, gen, saved, lapsed, sure>>

\* Time passes, whoever is due: only the poll loop renews, so a lease may go
\* stale while its turn restores, waits for the store or uploads.
Tick ==
  /\ now < MaxNow
  /\ now' = now + 1
  /\ lapsed' = lapsed \cup
       {t \in Turn : Active(t) /\ fence[t] > 0 /\ doc.ts + Fresh <= now + 1}
  /\ UNCHANGED <<doc, pc, fence, snap, t0, tries, gen, saved, sure>>

Admit(t) ==
  \/ AdmitStart(t) \/ AdmitRead(t) \/ AdmitReplace(t) \/ AdmitMoved(t)
  \/ AdmitCreate(t) \/ AdmitExists(t) \/ AdmitGiveUp(t) \/ AdmitFault(t)

Execute(t) ==
  \/ HydrateOk(t) \/ HydrateFailed(t) \/ RenewRead(t) \/ RenewWrite(t) \/ RunEnds(t)

Settle(t) ==
  \/ CheckFence(t) \/ CheckFault(t) \/ PutCheckpoint(t)
  \/ ReleaseRead(t) \/ ReleaseWrite(t) \/ WriteFault(t)

Next == Tick \/ \E t \in Turn : Admit(t) \/ Execute(t) \/ Settle(t) \/ Crash(t)

Spec == Init /\ [][Next]_vars
-----------------------------------------------------------------------------
(* Properties. *)

\* Every variable stays in its range; the retry budget never goes below zero.
TypeOK ==
  /\ now \in Nat
  /\ doc \in Doc
  /\ pc \in [Turn -> PcValues]
  /\ fence \in [Turn -> Nat]
  /\ snap \in [Turn -> Doc]
  /\ t0 \in [Turn -> Nat]
  /\ tries \in [Turn -> 0 .. CasTries]
  /\ gen \in [Turn -> Nat]
  /\ saved \in [gen : Nat, fence : Nat]
  /\ lapsed \subseteq Turn
  /\ sure \subseteq Turn

\* Two admissions never get the same fence from the same lease document, in
\* any mode and whatever store calls fail: lease_admit's compare-and-swap is
\* what lets lease_still_held tell a superseded turn from the current one.
FenceUnique ==
  \A t, u \in Turn :
    t # u /\ fence[t] > 0 /\ fence[u] > 0 => Admission(t) # Admission(u)

\* In enforce mode no second fenced turn restores, runs or saves the session's
\* workspace beside a turn whose lease has been fresh ever since it was admitted:
\* of two at work together the earlier one has let its lease go stale, in a long
\* restore or upload or by a late heartbeat.
FencedExclusive ==
  Enforce =>
    \A t, u \in Turn :
      /\ t # u
      /\ Active(t) /\ Active(u)
      /\ fence[t] > 0 /\ fence[u] > 0
      /\ NoLaterThan(Admission(t), Admission(u))
      => t \in lapsed

\* The checkpoint of an earlier fenced turn never replaces that of a later one,
\* in any mode and however late heartbeats are, unless the upload was overtaken:
\* its check did not find the turn's own lease (lost, unreadable, outlived), or
\* somebody was admitted between the check and the upload's end.
CheckpointsInOrder ==
  [][\/ NoLaterThan(saved, saved')
     \/ \E t \in Turn \ sure : pc[t] = "put" /\ saved' = Admission(t)]_saved

\* The lease document is a lock with fencing tokens: its holder is the owner
\* whose lease lease_admit would count as an active conflict now.
Holder ==
  IF Visible /\ doc.expires > now /\ now - doc.ts < Fresh
  THEN doc.owner ELSE NoTurn

Lock == INSTANCE FencedLock WITH
  Client <- Turn, Nobody <- NoTurn, Exclusive <- Enforce,
  holder <- Holder, last <- doc.owner,
  token <- [gen |-> doc.gen, fence |-> doc.fence]

\* The store protocol implements the lock: in enforce mode, whatever fails and
\* however late a heartbeat comes, the lease is granted only while no other
\* turn holds it fresh, and every grant has a later token than the one before.
LeaseIsFencedLock == Lock!Spec
=============================================================================
