----------------------------- MODULE RunnerTurn -----------------------------
(***************************************************************************)
(* The runner's turn registry (runner/server.py): POST /turn, which starts *)
(* a turn once per idempotency key, the thread that runs a turn's CLI      *)
(* (_run_turn_bg), its wall-clock cap, and POST /turn/{id}/cancel.         *)
(*                                                                         *)
(* Requests and turns are threads; what they share is the two maps, which  *)
(* _turns_lock guards, and each turn's record, which nothing does.  A step *)
(* is one access to what is shared.  The registry is in memory and the     *)
(* container ends when the runner does, so nothing here outlives a crash.  *)
(* The record of a finished turn is dropped by its age alone               *)
(* (_evict_turns: the hard cap and thirty minutes after its start); here   *)
(* at any time after its end, also while calls or cancels are under way.   *)
(***************************************************************************)
EXTENDS FiniteSets

CONSTANTS
  Call,         \* POST /turn calls; a call that starts a turn gives it its name
  Key,          \* idempotency keys
  KeyOf,        \* the key of each call: its own, or the call's it repeats
  Cancel,       \* POST /turn/{id}/cancel calls
  ReaderFaults, \* TRUE: a normaliser may raise on a line of the CLI's output
  None          \* no turn

ASSUME KeyOfAssumption == KeyOf \in [Call -> Key]
ASSUME NoneAssumption == None \notin Call

VARIABLES
  call,      \* where each POST /turn stands
  got,       \* the turn it was answered with
  turns,     \* _turns: the turns on record
  byKey,     \* _turn_by_key
  dropped,   \* history: turns whose records were evicted
  thread,    \* where each turn's runner thread stands
  proc,      \* the CLI's process
  timer,     \* the turn's cap timer
  handle,    \* turns whose record holds the process ("proc")
  cancelled, \* turns whose record says cancelled
  capped,    \* turns whose record says capped
  stopped,   \* turns stopped at their step budget or at the model's question
  status,    \* the record's status
  cancel     \* each cancel call: where it stands, and its turn

callVars == <<call, got>>
registry == <<turns, byKey, dropped>>
rec == <<handle, cancelled, capped, stopped, status>>
vars == <<callVars, registry, thread, proc, timer, rec, cancel>>
-----------------------------------------------------------------------------
Turn == Call
Statuses == {"none", "running", "done", "max_turns", "failed", "timeout", "cancelled"}
ThreadPc == {"none", "spawn", "publish", "check", "arm", "read", "close",
             "verdict", "finish", "done", "raised"}

GotoCall(c, l) == call' = [call EXCEPT ![c] = l]
GotoThread(t, l) == thread' = [thread EXCEPT ![t] = l]
GotoCancel(k, l) == cancel' = [cancel EXCEPT ![k].pc = l]

\* SIGKILL to the CLI, its descendants and its group, if it still runs.
KillProc(t) == proc' = [proc EXCEPT ![t] = IF @ = "running" THEN "killed" ELSE @]

\* The call's key names a turn on record.
KeyKnown(c) == byKey[KeyOf[c]] \in turns

\* Mutant: the key is not looked up again under the lock that records it.
KeyUnchecked(c) == FALSE

\* A call with the same key came first, seen under that lock.
KeyWon(c) == KeyKnown(c)

\* Mutant: a stop that raced the spawn is left to the pipe's end.
NotStoppedYet(t) == FALSE

StoppedAtSpawn(t) == t \in cancelled

\* Mutant: no wall-clock cap.
Uncapped == "off"

CapTimer == "on"

\* The turn's status: a stop, else the cap, else what the CLI said of itself or
\* its exit code did.  A killed CLI may have written its success before.
Verdict(t) ==
  IF t \in cancelled THEN {"cancelled"}
  ELSE IF t \in capped THEN {"timeout"}
  ELSE IF t \in stopped THEN {"max_turns", "failed"}
  ELSE {"done", "failed"}

\* Mutant: a spelling the gateway does not read.
SpawnError == "error"

SpawnFailed == "failed"
-----------------------------------------------------------------------------
Init ==
  /\ call = [c \in Call |-> "new"]
  /\ got = [c \in Call |-> None]
  /\ turns = {} /\ byKey = [k \in Key |-> None] /\ dropped = {}
  /\ thread = [t \in Turn |-> "none"]
  /\ proc = [t \in Turn |-> "none"]
  /\ timer = [t \in Turn |-> "off"]
  /\ handle = {} /\ cancelled = {} /\ capped = {} /\ stopped = {}
  /\ status = [t \in Turn |-> "none"]
  /\ cancel = [k \in Cancel |-> [pc |-> "new", turn |-> None]]

(* POST /turn. *)

\* A key already on record answers with its turn, before anything is built.
Post(c) ==
  /\ call[c] = "new"
  /\ IF KeyKnown(c) THEN GotoCall(c, "answered") /\ got' = [got EXCEPT ![c] = byKey[KeyOf[c]]]
                    ELSE GotoCall(c, "build") /\ UNCHANGED got
  /\ UNCHANGED <<registry, thread, proc, timer, rec, cancel>>

\* The command cannot be built: the session's tree refuses a write, or the
\* backend is not one.
BuildRefused(c) ==
  /\ call[c] = "build"
  /\ GotoCall(c, "refused")
  /\ UNCHANGED <<got, registry, thread, proc, timer, rec, cancel>>

\* Under the lock: the winner of the key, else this turn, is the key's.
Record(c) ==
  /\ call[c] = "build"
  /\ IF KeyWon(c)
     THEN /\ GotoCall(c, "answered") /\ got' = [got EXCEPT ![c] = byKey[KeyOf[c]]]
          /\ UNCHANGED <<registry, status>>
     ELSE /\ GotoCall(c, "start") /\ got' = [got EXCEPT ![c] = c]
          /\ turns' = turns \cup {c}
          /\ byKey' = [byKey EXCEPT ![KeyOf[c]] = c]
          /\ status' = [status EXCEPT ![c] = "running"]
          /\ UNCHANGED dropped
  /\ UNCHANGED <<thread, proc, timer, handle, cancelled, capped, stopped, cancel>>

StartThread(c) ==
  /\ call[c] = "start"
  /\ GotoCall(c, "answered")
  /\ GotoThread(c, "spawn")
  /\ UNCHANGED <<got, registry, proc, timer, rec, cancel>>

\* _evict_turns, which any session's later POST /turn runs: the record of a turn
\* that is done, and its key with it.
Evict(t) ==
  /\ t \in turns /\ thread[t] = "done"
  /\ dropped' = dropped \cup {t}
  /\ turns' = turns \ {t}
  /\ byKey' = [k \in Key |-> IF byKey[k] = t THEN None ELSE byKey[k]]
  /\ UNCHANGED <<callVars, thread, proc, timer, rec, cancel>>

(* _run_turn_bg. *)

Spawn(t) ==
  /\ thread[t] = "spawn"
  /\ \/ /\ proc' = [proc EXCEPT ![t] = "running"]
        /\ GotoThread(t, "publish")
        /\ UNCHANGED status
     \/ /\ status' = [status EXCEPT ![t] = SpawnFailed]
        /\ GotoThread(t, "done")
        /\ UNCHANGED proc
  /\ UNCHANGED <<callVars, registry, timer, handle, cancelled, capped, stopped,
                 cancel>>

\* The process on the record is what a cancel kills.
Publish(t) ==
  /\ thread[t] = "publish"
  /\ handle' = handle \cup {t}
  /\ GotoThread(t, "check")
  /\ UNCHANGED <<callVars, registry, proc, timer, cancelled, capped, stopped,
                 status, cancel>>

CheckStop(t) ==
  /\ thread[t] = "check"
  /\ IF StoppedAtSpawn(t) THEN KillProc(t) ELSE UNCHANGED proc
  /\ GotoThread(t, "arm")
  /\ UNCHANGED <<callVars, registry, timer, rec, cancel>>

Arm(t) ==
  /\ thread[t] = "arm"
  /\ timer' = [timer EXCEPT ![t] = CapTimer]
  /\ GotoThread(t, "read")
  /\ UNCHANGED <<callVars, registry, proc, rec, cancel>>

\* The step budget is spent, or the model has asked the person: the process is
\* stopped the way a cancel stops it.
StopTurn(t) ==
  /\ thread[t] = "read" /\ t \notin stopped /\ proc[t] = "running"
  /\ stopped' = stopped \cup {t}
  /\ KillProc(t)
  /\ UNCHANGED <<callVars, registry, thread, timer, handle, cancelled, capped,
                 status, cancel>>

\* The output ends with the process, which is waited for.
OutputEnds(t) ==
  /\ thread[t] = "read" /\ proc[t] \in {"exited", "killed"}
  /\ GotoThread(t, "close")
  /\ UNCHANGED <<callVars, registry, proc, timer, rec, cancel>>

\* A line the normaliser cannot take raises out of the thread: the timer and
\* the handle go, and nothing is left to say how the turn ended.
ReaderRaises(t) ==
  /\ ReaderFaults
  /\ thread[t] = "read"
  /\ timer' = [timer EXCEPT ![t] = IF @ = "on" THEN "off" ELSE @]
  /\ handle' = handle \ {t}
  /\ GotoThread(t, "raised")
  /\ UNCHANGED <<callVars, registry, proc, cancelled, capped, stopped, status,
                 cancel>>

\* A timer that has begun to fire is not called back.
Close(t) ==
  /\ thread[t] = "close"
  /\ timer' = [timer EXCEPT ![t] = IF @ = "on" THEN "off" ELSE @]
  /\ handle' = handle \ {t}
  /\ GotoThread(t, "verdict")
  /\ UNCHANGED <<callVars, registry, proc, cancelled, capped, stopped, status,
                 cancel>>

SetStatus(t) ==
  /\ thread[t] = "verdict"
  /\ \E s \in Verdict(t) : status' = [status EXCEPT ![t] = s]
  /\ GotoThread(t, "finish")
  /\ UNCHANGED <<callVars, registry, proc, timer, handle, cancelled, capped,
                 stopped, cancel>>

\* The result event goes out last, and the record is done.
Finish(t) ==
  /\ thread[t] = "finish"
  /\ GotoThread(t, "done")
  /\ UNCHANGED <<callVars, registry, proc, timer, rec, cancel>>

(* The process and its cap. *)

ProcExits(t) ==
  /\ proc[t] = "running"
  /\ proc' = [proc EXCEPT ![t] = "exited"]
  /\ UNCHANGED <<callVars, registry, thread, timer, rec, cancel>>

CapFires(t) ==
  /\ timer[t] = "on"
  /\ timer' = [timer EXCEPT ![t] = "firing"]
  /\ capped' = capped \cup {t}
  /\ UNCHANGED <<callVars, registry, thread, proc, handle, cancelled, stopped,
                 status, cancel>>

CapKills(t) ==
  /\ timer[t] = "firing"
  /\ timer' = [timer EXCEPT ![t] = "off"]
  /\ KillProc(t)
  /\ UNCHANGED <<callVars, registry, thread, rec, cancel>>

(* POST /turn/{id}/cancel. *)

\* A finished turn is left alone.
CancelPost(k, t) ==
  /\ cancel[k].pc = "new" /\ t \in turns
  /\ cancel' = [cancel EXCEPT ![k] =
                  [pc |-> IF thread[t] = "done" THEN "answered" ELSE "mark", turn |-> t]]
  /\ UNCHANGED <<callVars, registry, thread, proc, timer, rec>>

CancelMark(k) ==
  /\ cancel[k].pc = "mark"
  /\ cancelled' = cancelled \cup {cancel[k].turn}
  /\ GotoCancel(k, "take")
  /\ UNCHANGED <<callVars, registry, thread, proc, timer, handle, capped, stopped,
                 status>>

CancelTake(k) ==
  /\ cancel[k].pc = "take"
  /\ GotoCancel(k, IF cancel[k].turn \in handle THEN "kill" ELSE "stopped")
  /\ UNCHANGED <<callVars, registry, thread, proc, timer, rec>>

\* A remote backend's stop is a thread that outlives the answer; the call then
\* stands for that thread, and the driver may end by itself meanwhile.
CancelKill(k) ==
  /\ cancel[k].pc = "kill"
  /\ KillProc(cancel[k].turn)
  /\ GotoCancel(k, "stopped")
  /\ UNCHANGED <<callVars, registry, thread, timer, rec>>

CancelAnswer(k) ==
  /\ cancel[k].pc = "stopped"
  /\ GotoCancel(k, "answered")
  /\ UNCHANGED <<callVars, registry, thread, proc, timer, rec>>

RunThread(t) ==
  \/ Spawn(t) \/ Publish(t) \/ CheckStop(t) \/ Arm(t)
  \/ OutputEnds(t) \/ Close(t) \/ SetStatus(t) \/ Finish(t)

Next ==
  \/ \E c \in Call : Post(c) \/ BuildRefused(c) \/ Record(c) \/ StartThread(c)
  \/ \E t \in Turn :
       \/ Evict(t) \/ RunThread(t) \/ StopTurn(t) \/ ReaderRaises(t)
       \/ ProcExits(t) \/ CapFires(t) \/ CapKills(t)
  \/ \E k \in Cancel :
       \/ \E t \in Turn : CancelPost(k, t)
       \/ CancelMark(k) \/ CancelTake(k) \/ CancelKill(k) \/ CancelAnswer(k)

Spec == Init /\ [][Next]_vars

\* A thread that can go on goes on, and an armed timer fires: the interpreter's
\* threads and threading.Timer.  Nothing obliges a CLI to exit by itself.
Fairness ==
  /\ \A c \in Call : WF_vars(StartThread(c))
  /\ \A t \in Turn : WF_vars(RunThread(t)) /\ WF_vars(CapFires(t)) /\ WF_vars(CapKills(t))

FairSpec == Spec /\ Fairness
-----------------------------------------------------------------------------
TypeOK ==
  /\ call \in [Call -> {"new", "build", "start", "answered", "refused"}]
  /\ got \in [Call -> Turn \cup {None}]
  /\ turns \subseteq Turn /\ byKey \in [Key -> turns \cup {None}]
  /\ thread \in [Turn -> ThreadPc]
  /\ proc \in [Turn -> {"none", "running", "exited", "killed"}]
  /\ timer \in [Turn -> {"off", "on", "firing"}]
  /\ handle \subseteq turns /\ cancelled \subseteq Turn /\ dropped \subseteq Turn
  /\ capped \subseteq Turn /\ stopped \subseteq Turn
  /\ status \in [Turn -> Statuses]
  /\ cancel \in [Cancel -> [pc : {"new", "mark", "take", "kill", "stopped", "answered"},
                            turn : Turn \cup {None}]]

\* The calls of one key, retried or concurrent, start one CLI between them and
\* are answered with the same turn (_start_turn, server.py:17147-17150), unless
\* the turn of one of them was over and its record dropped in the meantime.
OneTurnPerKey ==
  \A c, d \in Call :
    KeyOf[c] = KeyOf[d] /\ got[c] # None /\ got[d] # None =>
      got[c] = got[d] \/ got[c] \in dropped \/ got[d] \in dropped

\* A Stop that races the spawn is not lost: once a cancel call is through, the
\* CLI of its turn does not run, unless the turn's own thread is still about to
\* look for the Stop (_run_turn_bg and cancel_turn look in opposite orders).
CancelledTurnIsStopped ==
  \A k \in Cancel : cancel[k].pc = "stopped" =>
    \/ proc[cancel[k].turn] # "running"
    \/ thread[cancel[k].turn] \in {"publish", "check", "raised"}

\* A turn that is started ends: by its CLI's exit, a Stop or the cap, except
\* where its reader raised.
StartedTurnEnds ==
  \A t \in Turn : (call[t] = "start" /\ got[t] = t) ~> thread[t] \in {"done", "raised"}
=============================================================================
