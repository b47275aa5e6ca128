--------------------------- MODULE ResponseAccept ---------------------------
(***************************************************************************)
(* How a task is accepted (gateway/app.py create_response): the            *)
(* reservation of its Idempotency-Key and the claim on the question that   *)
(* the previous response asked, from the first look at the key to the      *)
(* point where the turn is committed to run.                               *)
(*                                                                         *)
(* The requests all continue one response, which ended on a question.      *)
(* Those that carry a key carry the same one.  A request answers the       *)
(* question or is another message, which passes the question over; the two *)
(* payloads hash differently.  Every await is a step; the control record's *)
(* compare-and-swap loops, which decide on what they replace, are one.     *)
(* A store call that fails has no effect.  Nothing outlives its TTL.       *)
(***************************************************************************)
EXTENDS Integers, FiniteSets

CONSTANTS
  Request,      \* requests, each with the response id it would run as
  GuardFaults,  \* TRUE: an accept may fail between its reservation and its run
  StoreFaults,  \* TRUE: a store call may fail for good
  None          \* no request

ASSUME NoneAssumption == None \notin Request

VARIABLES
  pc,       \* where each request stands
  shape,    \* what it is: keyed, and answers the question
  target,   \* the state it is moving the question to
  claimed,  \* requests whose answer took the question
  idem,     \* the request that holds the key
  asked,    \* the turn that asks has set the question pending there
  pend,     \* the question's state on the control record
  record,   \* the question's state on the stored record
  seen,     \* the states a replica may have of that record: it caches it
  expired,  \* the question's expires_at has passed
  listed,   \* requests the session's turns feed shows
  ran,      \* requests committed to execution
  released, \* history: requests that gave their reservation back
  stuck,    \* history: requests whose reservation a failing store kept
  leaked,   \* history: requests that left with their claim in place
  reset     \* history: setting it pending undid an answer that had come before

requestVars == <<pc, shape, target, claimed>>
questionVars == <<asked, pend, record, seen, expired>>
history == <<released, stuck, leaked, reset>>
vars == <<requestVars, idem, questionVars, listed, ran, history>>
-----------------------------------------------------------------------------
Pc == {"new", "look", "read", "settle", "put", "reserve", "readKey", "guard",
       "releaseRead", "releaseDelete", "undo", "runs", "replayed", "refused"}
States == {"none", "pending", "answered", "voided", "expired"}
Shape == [keyed : BOOLEAN, answers : BOOLEAN]

Goto(q, l) == pc' = [pc EXCEPT ![q] = l]
SamePayload(p, q) == shape[p].answers = shape[q].answers

\* Mutant: a state that no reader of the question knows.
MoveToPassedOver(q) ==
  IF ~shape[q].answers THEN "passed_over"
  ELSE IF expired THEN "expired" ELSE "answered"

\* What a request does to a pending question.
MoveTo(q) ==
  IF ~shape[q].answers THEN "voided"
  ELSE IF expired THEN "expired" ELSE "answered"

\* What follows the question: the reservation, for a request with a key.
Onward(q) == IF shape[q].keyed THEN "reserve" ELSE "guard"

\* A request that leaves without running, its claim in place.
Leave(q) ==
  /\ Goto(q, "refused")
  /\ leaked' = IF q \in claimed THEN leaked \cup {q} ELSE leaked

\* The key is another request's: its result is given, to the same payload only.
ReplayOrRefuse(q, holder) ==
  /\ Goto(q, IF SamePayload(holder, q) THEN "replayed" ELSE "refused")
  /\ leaked' = IF q \in claimed THEN leaked \cup {q} ELSE leaked

\* Mutant: a claim looks at nothing.
AlwaysMovable == TRUE

\* resp_claim_input: a question still pending, or never written, may be moved.
Movable == pend \in {"none", "pending"}

\* Mutant: the reservation is an upsert, which never finds the key taken.
AlwaysFree == TRUE

\* idem_reserve's create_item: the key's document does not exist.
KeyFree == idem = None

\* Mutant: an accept that fails leaves its reservation and its claim.
BackOutToRefusal(q) == "refused"

\* The guard gives back the reservation, then the claim.
BackOut(q) == IF shape[q].keyed THEN "releaseRead"
              ELSE IF q \in claimed THEN "undo" ELSE "refused"

ClaimBack(q) == IF q \in claimed THEN "undo" ELSE "refused"
-----------------------------------------------------------------------------
Init ==
  /\ pc = [q \in Request |-> "new"]
  /\ shape \in [Request -> Shape]
  /\ target = [q \in Request |-> "none"]
  /\ claimed = {}
  /\ idem = None
  /\ asked = FALSE /\ pend = "none"
  /\ record = "pending" /\ seen = {"pending"}
  /\ expired = FALSE
  /\ listed = {} /\ ran = {}
  /\ released = {} /\ stuck = {} /\ leaked = {} /\ reset = FALSE

\* persist("incomplete") of the turn that asks: the stored record, which is
\* there from the start, and then resp_set_pending_input, whatever is there and
\* however many requests came in between.  Best effort: it may never come.
SetPending ==
  /\ ~asked
  /\ asked' = TRUE
  /\ pend' = "pending"
  /\ reset' = (reset \/ pend = "answered")
  /\ UNCHANGED <<requestVars, idem, record, seen, expired, listed, ran, released,
                 stuck, leaked>>

\* The question's days pass.
Expire ==
  /\ ~expired
  /\ expired' = TRUE
  /\ UNCHANGED <<requestVars, idem, asked, pend, record, seen, listed, ran,
                 history>>

(* The key's first look, and the question. *)

Arrive(q) ==
  /\ pc[q] = "new"
  /\ Goto(q, IF shape[q].keyed THEN "look" ELSE "read")
  /\ UNCHANGED <<shape, target, claimed, idem, questionVars, listed,
                 ran, history>>

\* idem_get: a key already held is replayed before anything is touched.
Look(q) ==
  /\ pc[q] = "look"
  /\ IF KeyFree THEN Goto(q, "read") /\ UNCHANGED leaked
                ELSE ReplayOrRefuse(q, idem)
  /\ UNCHANGED <<shape, target, claimed, idem, questionVars, listed, ran,
                 released, stuck, reset>>

\* The previous response is read, perhaps as this replica cached it.  An answer
\* is refused when a later task is listed (a listing that fails lists none) or
\* when the question is not pending; another message voids a pending question.
Read(q) ==
  /\ pc[q] = "read"
  /\ \E state \in seen \cup (IF StoreFaults THEN {"none"} ELSE {}),
        passedOver \in {listed # {}} \cup (IF StoreFaults THEN {FALSE} ELSE {}) :
       Goto(q, IF shape[q].answers /\ (passedOver \/ state # "pending")
               THEN "refused"
               ELSE IF state = "pending" THEN "settle" ELSE Onward(q))
  /\ target' = [target EXCEPT ![q] = MoveTo(q)]
  /\ UNCHANGED <<shape, claimed, idem, questionVars, listed, ran,
                 history>>

(* _input_request_settle: the control record, then the stored one. *)

Moved(q) == pend' = IF Movable THEN target[q] ELSE pend

\* An answer goes on only if this call moved the question.
Claim(q) ==
  /\ pc[q] = "settle" /\ target[q] = "answered"
  /\ Moved(q)
  /\ claimed' = IF Movable THEN claimed \cup {q} ELSE claimed
  /\ Goto(q, IF Movable THEN "put" ELSE "refused")
  /\ UNCHANGED <<shape, target, idem, asked, record, seen, expired,
                 listed, ran, history>>

\* A void or an expiry is reported whether or not it moved the question.
Report(q) ==
  /\ pc[q] = "settle" /\ target[q] \in {"voided", "expired"}
  /\ Moved(q) \/ (StoreFaults /\ UNCHANGED pend)
  /\ Goto(q, "put")
  /\ UNCHANGED <<shape, target, claimed, idem, asked, record, seen,
                 expired, listed, ran, history>>

\* The stored record follows; a write that fails is passed over.
Put(q) ==
  /\ pc[q] = "put"
  /\ \/ record' = target[q] /\ seen' = seen \cup {target[q]}
     \/ StoreFaults /\ UNCHANGED <<record, seen>>
  /\ Goto(q, IF target[q] \in {"answered", "voided"} THEN Onward(q) ELSE "refused")
  /\ UNCHANGED <<shape, target, claimed, idem, asked, pend, expired,
                 listed, ran, history>>

(* The reservation, and the run. *)

Reserve(q) ==
  /\ pc[q] = "reserve"
  /\ IF KeyFree THEN idem' = q /\ Goto(q, "guard")
                ELSE UNCHANGED idem /\ Goto(q, "readKey")
  /\ UNCHANGED <<shape, target, claimed, questionVars, listed, ran,
                 history>>

\* The key was taken when this request tried.  Gone since, it counts as won.
ReadKey(q) ==
  /\ pc[q] = "readKey"
  /\ IF idem = None THEN Goto(q, "guard") /\ UNCHANGED leaked
                    ELSE ReplayOrRefuse(q, idem)
  /\ UNCHANGED <<shape, target, claimed, idem, questionVars, listed, ran,
                 released, stuck, reset>>

\* The store cannot be asked: 503, before the guard.
StoreFault(q) ==
  /\ StoreFaults
  /\ \/ pc[q] \in {"look", "reserve", "readKey"}
     \/ pc[q] = "settle" /\ target[q] = "answered"
  /\ Leave(q)
  /\ UNCHANGED <<shape, target, claimed, idem, questionVars, listed,
                 ran, released, stuck, reset>>

\* The running record is written, at best effort, and the turn is committed.
Enter(q) ==
  /\ pc[q] = "guard"
  /\ ran' = ran \cup {q}
  /\ listed' \in {listed \cup {q}} \cup (IF StoreFaults THEN {listed} ELSE {})
  /\ Goto(q, "runs")
  /\ UNCHANGED <<shape, target, claimed, idem, questionVars, history>>

(* The guard: an accept that fails gives back what it holds. *)

GuardFails(q) ==
  /\ pc[q] = "guard" /\ GuardFaults
  /\ Goto(q, BackOut(q))
  /\ target' = [target EXCEPT ![q] = "pending"]
  /\ UNCHANGED <<shape, claimed, idem, questionVars, listed, ran, history>>

\* idem_release reads the reservation, and deletes it if it is this request's.
ReleaseRead(q) ==
  /\ pc[q] = "releaseRead"
  /\ \/ Goto(q, IF idem = q THEN "releaseDelete" ELSE ClaimBack(q)) /\ UNCHANGED stuck
     \/ StoreFaults /\ Goto(q, ClaimBack(q)) /\ stuck' = stuck \cup {q}
  /\ UNCHANGED <<shape, target, claimed, idem, questionVars, listed,
                 ran, released, leaked, reset>>

ReleaseDelete(q) ==
  /\ pc[q] = "releaseDelete"
  /\ \/ /\ idem' = None /\ released' = released \cup {q}
        /\ UNCHANGED stuck
     \/ StoreFaults /\ stuck' = stuck \cup {q} /\ UNCHANGED <<idem, released>>
  /\ Goto(q, ClaimBack(q))
  /\ UNCHANGED <<shape, target, claimed, questionVars, listed, ran,
                 leaked, reset>>

\* The move back to pending looks at nothing.
Undo(q) ==
  /\ pc[q] = "undo"
  /\ \/ pend' = "pending" /\ UNCHANGED leaked
     \/ StoreFaults /\ leaked' = leaked \cup {q} /\ UNCHANGED pend
  /\ claimed' = claimed \ {q}
  /\ Goto(q, "put")
  /\ UNCHANGED <<shape, target, idem, asked, record, seen, expired,
                 listed, ran, released, stuck, reset>>

Next ==
  \/ SetPending \/ Expire
  \/ \E q \in Request :
       \/ Arrive(q) \/ Look(q) \/ Read(q)
       \/ Claim(q) \/ Report(q) \/ Put(q)
       \/ Reserve(q) \/ ReadKey(q) \/ StoreFault(q) \/ Enter(q)
       \/ GuardFails(q) \/ ReleaseRead(q) \/ ReleaseDelete(q) \/ Undo(q)

Spec == Init /\ [][Next]_vars
-----------------------------------------------------------------------------
TypeOK ==
  /\ pc \in [Request -> Pc]
  /\ shape \in [Request -> Shape]
  /\ target \in [Request -> States]
  /\ claimed \subseteq Request /\ listed \subseteq ran /\ ran \subseteq Request
  /\ idem \in Request \cup {None}
  /\ pend \in States /\ record \in States /\ seen \subseteq States
  /\ asked \in BOOLEAN /\ expired \in BOOLEAN
  /\ released \subseteq Request /\ stuck \subseteq Request /\ leaked \subseteq Request
  /\ reset \in BOOLEAN

\* One answer, one turn: of all the requests that answer the question, at most
\* one is committed to run (resp_claim_input, control_store.py:422-454).
AnswerRunsOnce == Cardinality({q \in ran : shape[q].answers}) <= 1

\* One answer, one turn, each time the question is set pending: the turn that
\* asks may undo one answer that came before its record (that is reset), which
\* lets a second one run; nothing that is passed over, given back, lost by the
\* store or claimed again lets through a second one without, or a third one.
OneAnswerPerAsking ==
  Cardinality({q \in ran : shape[q].answers}) <= IF reset THEN 2 ELSE 1

\* While no reservation has been given back, the requests that carry the key
\* commit to at most one run between them (idem_reserve, control_store.py:127).
KeyRunsOnce ==
  released = {} => Cardinality({q \in ran : shape[q].keyed}) <= 1

\* An accept that fails keeps nothing: the request that holds the key runs, may
\* still run or is about to give it back (unless the store failed that release),
\* and a question that reads answered has an answer, a turn that runs on it or a
\* request that still has it in hand.  (The requests that the reservation turns
\* away with their claim in place are the exception the code makes.)
FailedAcceptGivesBack ==
  /\ idem # None =>
       idem \in ran \cup stuck \/ pc[idem] \in {"guard", "releaseRead", "releaseDelete"}
  /\ pend = "answered" => \E q \in claimed \cup leaked : pc[q] # "refused" \/ q \in leaked
=============================================================================
