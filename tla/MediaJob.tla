------------------------------ MODULE MediaJob ------------------------------
(***************************************************************************)
(* Media jobs (gateway/app.py, the media server): a generate call walks a  *)
(* capability's chain of models, buys a render and records a job; passes   *)
(* of the sweeper, of check_jobs and of the browser's route poll the job,  *)
(* land its file, advance its chain once, meter it and settle its element  *)
(* on the canvas, which place has put there meanwhile.                     *)
(*                                                                         *)
(* One session in one gateway process, whose locks, budgets and stand-     *)
(* downs live in memory.  A job bears the name of the call that made it,   *)
(* every render has the price 1, and a worker (a call or a pass) moves     *)
(* from one await to the next in one step.                                 *)
(***************************************************************************)
EXTENDS Integers, Sequences, FiniteSets, FiniteSetsExt

CONSTANTS
  Call,         \* the generate calls, and the jobs they make
  Sweep,        \* the passes with a budget of their own: sweeper, browser
  Check,        \* the agent's check_jobs calls, on the session's budget
  Place,        \* the agent's place calls, of one job each
  Model,        \* the models
  Inline,       \* those that answer with the file, the others with a task
  Chain,        \* the capability's candidates, in the order of the catalog
  MaxAdvances,  \* _MEDIA_MAX_ADVANCES
  MaxSubmits,   \* _MEDIA_MAX_SUBMITS
  MaxTroubles   \* bound: deletes, restarts, switches, disconnects, unreadable canvases
                \* and lost saves

ASSUME CallAssumption ==
  /\ Call \cap (Sweep \cup Check \cup Place) = {}
  /\ Sweep \cap (Check \cup Place) = {} /\ Check \cap Place = {}
ASSUME ChainAssumption == Chain \in Seq(Model) /\ Inline \subseteq Model
ASSUME BudgetAssumption == MaxAdvances \in Nat /\ MaxSubmits \in Nat
ASSUME BoundAssumption == MaxTroubles \in Nat

VARIABLES
  rec,       \* the jobs' vertices
  clip,      \* the element of each job on the canvas
  down,      \* the models stood down
  aged,      \* the jobs older than JOB_MAX_S
  serving,   \* the media server is connected and switched on
  gone,      \* the models whose provider is not connected
  pc,        \* where each worker stands
  at,        \* the job it works on
  copy,      \* the job as it holds it
  cand,      \* the candidate it has submitted to
  view,      \* what for_job says the job has bought already
  todo,      \* the jobs a pass has still to look at
  submits,   \* per budget: the submits of the request
  billed,    \* the money side of the session's budget
  purge,     \* how far the session's purge is
  troubles,  \* how many of them there were
  bought,    \* history: the models that were paid for a render, per job, in order
  landed,    \* history: the files stored, per job
  reported,  \* history: what was reported as used, per job
  stale,     \* history: the holders whose copy is not the record's last state
  torn,      \* history: jobs written from such a copy, polled from the row of a
             \* vertex that was gone, held in a restart, or with a save that was lost
  blurred    \* history: jobs whose element a step could not reach, or with more
             \* than one, of which they name the last

jobVars == <<rec, clip>>
worldVars == <<down, aged, serving, gone>>
workVars == <<pc, at, copy, cand, view, todo>>
budgetVars == <<submits, billed>>
historyVars == <<bought, landed, reported, stale, torn, blurred>>
vars == <<jobVars, worldVars, workVars, budgetVars, purge, troubles, historyVars>>
-----------------------------------------------------------------------------
Pass == Sweep \cup Check
Worker == Call \cup Pass \cup Place
None == "none"

Record == [status : {"absent", "running", "succeeded", "failed", "deleted"},
           model : Model \cup {None}, task : BOOLEAN, advances : Nat, banked : Nat,
           tried : SUBSET Model, metered : BOOLEAN, element : BOOLEAN, due : BOOLEAN]

\* The call's job before there is one: the tally of its walk.
Blank == [status |-> "running", model |-> None, task |-> FALSE, advances |-> 0, banked |-> 0,
          tried |-> {}, metered |-> FALSE, element |-> FALSE, due |-> FALSE]

\* No vertex.
NoRow == [Blank EXCEPT !.status = "absent"]
Known(j) == rec[j].status # "absent"

\* What waits for an await, and what holds the job's lock while it does.
Active(w) == pc[w] \notin {"idle", "over"}
Locked(p) == pc[p] \notin {"idle", "open", "lock"}
Holds(w) == pc[w] \notin {"idle", "open", "over"}

Terminal(c) == c.status \in {"succeeded", "failed"}
Spent(c) == c.banked + IF c.status = "succeeded" THEN 1 ELSE 0

\* Mutant: a pass that waited for the lock goes on from what it saw before.
AlwaysDue(c) == c.task

\* What _media_job_advance asks of a record, once before the lock and once under it.
Pollable(c) == c.status = "running" /\ c.task /\ c.due

\* Mutant: the job starts with a money ceiling of its own.
Uncarried(c) == [c EXCEPT !.advances = 0]

\* What the walk has bought already, written onto the job it ends in.
Carried(c) == [c EXCEPT !.advances = c.banked]

\* Mutant: a failed render's price is forgotten when the next one replaces it.
BankedNothing(c, m) == [c EXCEPT !.tried = @ \cup {m}]

\* _media_billed: the attempt and the money; whoever says so stands the model
\* down in the same step.
Banked(c, m) == [c EXCEPT !.tried = @ \cup {m}, !.banked = @ + 1]

\* A model the walk does not come back to.
Tried(c, m) == [c EXCEPT !.tried = @ \cup {m}]

\* A model that took the job, with a task or the file itself; the first poll is
\* some time away.
Taken(c, m) == [c EXCEPT !.model = m, !.due = FALSE, !.task = @ \/ m \notin Inline]

\* One advance less to go, another status, another time of the next poll, and the
\* mark that what the job used is reported.
Advanced(c) == [c EXCEPT !.advances = @ + 1]
Ended(c, s) == [c EXCEPT !.status = s]
DueNow(c, b) == [c EXCEPT !.due = b]
Marked(c, b) == [c EXCEPT !.metered = @ \/ b]

\* Mutant: the element's name stays with the answer of place.
Unnamed(c) == c

\* place writes down which element shows the job.
Named(c) == [c EXCEPT !.element = TRUE]

\* Mutant: the element takes the job's own word for a finished one.
Verbatim(c) == c.status

\* What the canvas calls a job's status.
Shown(c) == IF c.status = "succeeded" THEN "ready" ELSE c.status

\* Mutant: a job that its provider never ends is put down again for ever.
NeverOld(j) == FALSE

\* JOB_MAX_S.
TooOld(j) == j \in aged

\* media_plane.resolve: the first candidate that is connected, neither tried nor
\* stood down.
Candidate(tried) ==
  LET free == {i \in DOMAIN Chain : Chain[i] \notin tried \cup down \cup gone}
  IN  IF free = {} THEN None ELSE Chain[Min(free)]

\* The budget a worker's submits are counted in.
Purse(w) == IF w \in Sweep THEN w ELSE "session"

\* _MediaBudget.claim: money by the call's budget or the job's view of it,
\* sockets by the request's.
Bills(w) == IF w \in Call THEN billed ELSE view[w]
MayClaim(w) == Bills(w) <= MaxAdvances /\ submits[Purse(w)] < MaxSubmits
Claim(w) ==
  /\ submits' = [submits EXCEPT ![Purse(w)] = @ + 1]
  /\ billed' = IF w \in Call THEN billed + 1 ELSE billed
  /\ view' = IF w \in Pass THEN [view EXCEPT ![w] = @ + 1] ELSE view
Free(w) ==
  /\ billed' = IF w \in Call THEN billed - 1 ELSE billed
  /\ view' = IF w \in Pass THEN [view EXCEPT ![w] = @ - 1] ELSE view
Keep(w) == UNCHANGED <<billed, view>>

\* The session's turns can call the agent's tools: its delete stops them before
\* it purges, and lets the calls under way go on (delete_trace).
Served(w) == w \in Sweep \/ purge \notin {"marked", "gone"}

\* _media_budget_for: who finds nobody at the session's budget opens a new one.
OpenPurse(w) ==
  LET fresh == w \in Sweep \/ \A o \in Call \cup Check : ~Active(o)
  IN  /\ submits' = IF fresh THEN [submits EXCEPT ![Purse(w)] = 0] ELSE submits
      /\ billed' = IF fresh /\ w \notin Sweep THEN 0 ELSE billed
-----------------------------------------------------------------------------
Init ==
  /\ rec = [j \in Call |-> NoRow]
  /\ clip = [j \in Call |-> None]
  /\ down = {} /\ aged = {} /\ serving = TRUE /\ gone = {}
  /\ pc = [w \in Worker |-> "idle"]
  /\ at = [w \in Worker |-> IF w \in Call THEN w ELSE None]
  /\ copy = [w \in Worker |-> Blank]
  /\ cand = [w \in Worker |-> None]
  /\ view = [p \in Pass |-> 0]
  /\ todo = [p \in Pass |-> {}]
  /\ submits = [b \in Sweep \cup {"session"} |-> 0]
  /\ billed = 0
  /\ purge = "none"
  /\ troubles = 0
  /\ bought = [j \in Call |-> <<>>]
  /\ landed = [j \in Call |-> 0]
  /\ reported = [j \in Call |-> 0]
  /\ stale = {} /\ torn = {} /\ blurred = {}

Goto(w, l) == pc' = [pc EXCEPT ![w] = l]
Trouble == troubles < MaxTroubles /\ troubles' = troubles + 1

\* A pass goes to its next job or ends, any other call to its answer; what it held is
\* dropped.
Leave(w) ==
  /\ Goto(w, IF w \notin Pass THEN "over" ELSE IF todo[w] = {} THEN "idle" ELSE "open")
  /\ at' = IF w \in Call THEN at ELSE [at EXCEPT ![w] = None]
  /\ copy' = [copy EXCEPT ![w] = Blank]
  /\ cand' = [cand EXCEPT ![w] = None]
  /\ view' = IF w \in Pass THEN [view EXCEPT ![w] = 0] ELSE view

OthersOn(w, j) == {o \in Worker \ {w} : Holds(o) /\ at[o] = j}

\* _media_meter_once: what c used is reported the moment it is terminal.
Meter(c) == Terminal(c) /\ ~c.metered
Metered(j, c) ==
  reported' = IF Meter(c) THEN [reported EXCEPT ![j] = @ + Spent(c)] ELSE reported

\* The write that follows: put over the vertex key by key, which keeps a meter
\* mark that c does not know of.
Kept(w, c) ==
  LET j == at[w]
  IN  /\ rec' = [rec EXCEPT ![j] = Marked(c, Meter(c) \/ rec[j].metered)]
      /\ Metered(j, c)
      /\ torn' = IF w \in stale THEN torn \cup {j} ELSE torn
      /\ stale' = (stale \ {w}) \cup OthersOn(w, j)

\* It fails, and nobody is told (_vg_upsert).
Lost(w, c) ==
  /\ Metered(at[w], c)
  /\ torn' = torn \cup {at[w]}
  /\ stale' = stale \cup {w}
  /\ UNCHANGED rec

\* _media_job_save of c by w: reported first, then written.
Save(w, c) ==
  \/ Kept(w, c) /\ UNCHANGED troubles
  \/ Lost(w, c) /\ Trouble

Paid(w, m) == bought' = [bought EXCEPT ![at[w]] = Append(@, m)]
-----------------------------------------------------------------------------
\* A generate call opens its budget (_media_tool_call).
Ask(c) ==
  /\ pc[c] = "idle" /\ Served(c)
  /\ OpenPurse(c)
  /\ Goto(c, "walk")
  /\ UNCHANGED <<jobVars, worldVars, at, copy, cand, view, todo, purge, troubles, historyVars>>

\* Submits to candidate m if the budget allows it; else the walk is at l.
Submit(w, m, sent, l) ==
  \/ /\ m # None /\ MayClaim(w)
     /\ Claim(w)
     /\ cand' = [cand EXCEPT ![w] = m]
     /\ Goto(w, sent)
  \/ /\ m = None \/ ~MayClaim(w)
     /\ Goto(w, l)
     /\ UNCHANGED <<cand, view, budgetVars>>

\* The next candidate of the submit walk (_media_chain, _media_call).
Walk(c) ==
  /\ pc[c] = "walk"
  /\ Submit(c, Candidate(copy[c].tried), "sent", "spent")
  /\ UNCHANGED <<jobVars, worldVars, at, copy, todo, purge, troubles, historyVars>>

\* A refusal costs nothing and leaves the model in the chain.
Refused(w, from, l) ==
  /\ pc[w] = from
  /\ Free(w)
  /\ copy' = [copy EXCEPT ![w] = Tried(@, cand[w])]
  /\ cand' = [cand EXCEPT ![w] = None]
  /\ Goto(w, l)
  /\ UNCHANGED <<jobVars, worldVars, at, todo, submits, purge, troubles, historyVars>>

\* A 200 with nothing in it has billed: banked, and the model stood down.
Empty(w, from, l) ==
  /\ pc[w] = from
  /\ Paid(w, cand[w])
  /\ copy' = [copy EXCEPT ![w] = Banked(@, cand[w])]
  /\ down' = down \cup {cand[w]}
  /\ cand' = [cand EXCEPT ![w] = None]
  /\ Goto(w, l)
  /\ UNCHANGED <<jobVars, aged, serving, gone, at, view, todo, budgetVars, purge, troubles,
                 landed, reported, stale, torn, blurred>>

\* The candidate takes the job, with a task to poll or with the file itself.
Accepted(w, from, base, l) ==
  /\ pc[w] = from
  /\ Paid(w, cand[w])
  /\ copy' = [copy EXCEPT ![w] = Taken(base, cand[w])]
  /\ cand' = [cand EXCEPT ![w] = None]
  /\ Goto(w, l)
  /\ UNCHANGED <<jobVars, worldVars, at, view, todo, budgetVars, purge, troubles,
                 landed, reported, stale, torn, blurred>>

Reply(c) ==
  \/ Refused(c, "sent", "walk")
  \/ Empty(c, "sent", "walk")
  \/ Accepted(c, "sent", Carried(copy[c]), "made")

\* The job is recorded before its file is fetched (_media_generate).
Make(c) ==
  /\ pc[c] = "made"
  /\ Save(c, copy[c])
  /\ \/ /\ copy[c].task
        /\ Leave(c)
     \/ /\ ~copy[c].task
        /\ Goto(c, "store")
        /\ UNCHANGED <<at, copy, cand, view>>
  /\ UNCHANGED <<clip, worldVars, todo, budgetVars, purge, bought, landed, blurred>>

\* A walk that delivered nothing leaves what it bought in a failed job
\* (_media_walk_spend), or nothing at all.
WalkOver(c) ==
  /\ pc[c] = "spent"
  /\ Leave(c)
  /\ \/ /\ copy[c].banked > 0
        /\ Save(c, Ended(Carried(copy[c]), "failed"))
     \/ /\ copy[c].banked = 0
        /\ UNCHANGED <<rec, reported, torn, stale, troubles>>
  /\ UNCHANGED <<clip, worldVars, todo, budgetVars, purge, bought, landed, blurred>>
-----------------------------------------------------------------------------
\* A pass lists what it will look at: the sweeper what is running and due, a
\* check_jobs what it was asked for.
Open(p) ==
  /\ pc[p] = "idle" /\ Served(p)
  /\ \E js \in SUBSET {j \in Call : Known(j)} :
       /\ js # {}
       /\ p \in Sweep => js = {j \in Call : Pollable(rec[j])}
       /\ todo' = [todo EXCEPT ![p] = js]
  /\ OpenPurse(p)
  /\ Goto(p, "open")
  /\ UNCHANGED <<jobVars, worldVars, at, copy, cand, view, purge, troubles, historyVars>>

\* It takes a job's row and goes to the lock if there is something to poll.
Take(p, j) ==
  /\ pc[p] = "open" /\ j \in todo[p]
  /\ todo' = [todo EXCEPT ![p] = @ \ {j}]
  /\ \/ /\ Pollable(rec[j])
        /\ at' = [at EXCEPT ![p] = j]
        /\ copy' = [copy EXCEPT ![p] = rec[j]]
        /\ stale' = stale \ {p}
        /\ Goto(p, "lock")
     \/ /\ ~Pollable(rec[j])
        /\ Goto(p, IF todo[p] = {j} THEN "idle" ELSE "open")
        /\ UNCHANGED <<at, copy, stale>>
  /\ UNCHANGED <<jobVars, worldVars, cand, view, budgetVars, purge, troubles,
                 bought, landed, reported, torn, blurred>>

\* Under the lock it reads the job again, and keeps its row when there is none
\* (_media_job_advance).
Enter(p) ==
  /\ pc[p] = "lock"
  /\ \A o \in Pass : at[o] = at[p] => ~Locked(o)
  /\ LET fresh == IF Known(at[p]) THEN rec[at[p]] ELSE copy[p]
     IN  \/ /\ Pollable(fresh)
            /\ copy' = [copy EXCEPT ![p] = fresh]
            /\ stale' = IF Known(at[p]) THEN stale \ {p} ELSE stale
            /\ torn' = IF Known(at[p]) THEN torn ELSE torn \cup {at[p]}
            /\ Goto(p, "poll")
            /\ UNCHANGED <<at, cand, view>>
         \/ /\ ~Pollable(fresh)
            /\ Leave(p)
            /\ stale' = stale \ {p}
            /\ UNCHANGED torn
  /\ UNCHANGED <<jobVars, worldVars, todo, budgetVars, purge, troubles,
                 bought, landed, reported, blurred>>

\* _media_job_live: a server switched off leaves the job as it is.
NotServing(p) ==
  /\ pc[p] = "poll" /\ ~serving
  /\ Leave(p)
  /\ UNCHANGED <<jobVars, worldVars, todo, budgetVars, purge, troubles, historyVars>>

\* A poll needs the provider that runs the job.
Reachable(p) == copy[p].model \notin gone

\* Still running, or no answer that says anything: put down until the next poll
\* (_media_job_stalled), as every job is whose provider is not connected, however
\* old.
Progress(p) ==
  /\ pc[p] = "poll" /\ serving /\ (TooOld(at[p]) => ~Reachable(p))
  /\ Save(p, DueNow(copy[p], FALSE))
  /\ Leave(p)
  /\ UNCHANGED <<clip, worldVars, todo, budgetVars, purge, bought, landed, blurred>>

\* Lands at l with a render that was paid for and came to nothing.
WriteOff(w, l) ==
  /\ copy' = [copy EXCEPT ![w] = Banked(@, @.model)]
  /\ down' = down \cup {copy[w].model}
  /\ Goto(w, l)

\* The same answer for a job too old to go on.
TimedOut(p) ==
  /\ pc[p] = "poll" /\ serving /\ Reachable(p) /\ TooOld(at[p])
  /\ WriteOff(p, "failing")
  /\ UNCHANGED <<jobVars, aged, serving, gone, at, cand, view, todo, budgetVars, purge,
                 troubles, historyVars>>

\* _media_job_billable_failure: banked, stood down, and one advance if the job
\* has one left.
BillFailure(w) ==
  LET left == copy[w].advances < MaxAdvances
      lost == Banked(copy[w], copy[w].model)
  IN  /\ copy' = [copy EXCEPT ![w] =
                    IF left THEN Advanced(lost) ELSE lost]
      /\ down' = down \cup {copy[w].model}
      /\ view' = IF w \in Pass THEN [view EXCEPT ![w] = copy[w].advances] ELSE view
      /\ Goto(w, IF left THEN "again" ELSE "failing")

PollFailed(p) ==
  /\ pc[p] = "poll" /\ serving /\ Reachable(p)
  /\ BillFailure(p)
  /\ UNCHANGED <<jobVars, aged, serving, gone, at, cand, todo, budgetVars, purge, troubles,
                 historyVars>>

PollSucceeded(p) ==
  /\ pc[p] = "poll" /\ serving /\ Reachable(p)
  /\ Goto(p, "store")
  /\ UNCHANGED <<jobVars, worldVars, at, copy, cand, view, todo, budgetVars, purge,
                 troubles, historyVars>>

\* _media_job_resubmit; the image it needs may not be readable.
Again(w) ==
  /\ pc[w] = "again"
  /\ \/ Submit(w, Candidate(copy[w].tried \cup {copy[w].model}), "resent", "failing")
     \/ /\ Goto(w, "failing")
        /\ UNCHANGED <<cand, view, budgetVars>>
  /\ UNCHANGED <<jobVars, worldVars, at, copy, todo, purge, troubles, historyVars>>

ReplyAgain(w) ==
  \/ Refused(w, "resent", "failing")
  \/ Empty(w, "resent", "failing")
  \/ Accepted(w, "resent", copy[w], IF cand[w] \in Inline THEN "restore" ELSE "keep")

\* The job goes on with the new task.
Resume(w) ==
  /\ pc[w] = "keep"
  /\ Save(w, copy[w])
  /\ Leave(w)
  /\ UNCHANGED <<clip, worldVars, todo, budgetVars, purge, bought, landed, blurred>>

\* The file is fetched, is what it should be, and is stored (_media_store).
FileGood(w) ==
  /\ pc[w] \in {"store", "restore"}
  /\ landed' = [landed EXCEPT ![at[w]] = @ + 1]
  /\ copy' = [copy EXCEPT ![w] = Ended(@, "succeeded")]
  /\ Goto(w, "landing")
  /\ UNCHANGED <<jobVars, worldVars, at, cand, view, todo, budgetVars, purge, troubles,
                 bought, reported, stale, torn, blurred>>

\* It is not: a failed render, with an advance when this was the first file.
FileBad(w) ==
  /\ \/ pc[w] = "store" /\ BillFailure(w)
     \/ pc[w] = "restore" /\ WriteOff(w, "failing") /\ UNCHANGED view
  /\ UNCHANGED <<jobVars, aged, serving, gone, at, cand, todo, budgetVars, purge, troubles,
                 historyVars>>

\* The job is saved with its outcome; its element is next.
Settle(w) ==
  /\ pc[w] \in {"landing", "failing", "refail"}
  /\ LET c == IF pc[w] = "landing" THEN copy[w] ELSE Ended(copy[w], "failed")
     IN  /\ Save(w, c)
         /\ copy' = [copy EXCEPT ![w] = Marked(c, TRUE)]
  /\ Goto(w, IF pc[w] = "refail" THEN "redraw" ELSE "draw")
  /\ UNCHANGED <<clip, worldVars, at, cand, view, todo, budgetVars, purge,
                 bought, landed, blurred>>

\* _media_element_ready, _media_element_failed: the element the job names, if
\* the canvas still has it.
Draw(w) ==
  /\ pc[w] \in {"draw", "redraw"}
  /\ clip' = IF copy[w].element /\ clip[at[w]] # None
               THEN [clip EXCEPT ![at[w]] = Shown(copy[w])]
               ELSE clip
  /\ Leave(w)
  /\ UNCHANGED <<rec, worldVars, todo, budgetVars, purge, troubles, historyVars>>

\* The canvas cannot be read: what raised puts the job down as a poll that told
\* nothing, and a second time nobody listens (_media_job_advance).
DrawFails(p) ==
  /\ pc[p] \in {"draw", "redraw"} /\ copy[p].element
  /\ IF pc[p] = "draw" THEN Trouble ELSE UNCHANGED troubles
  /\ blurred' = blurred \cup {at[p]}
  /\ \/ /\ pc[p] = "draw" /\ ~TooOld(at[p])
        /\ Kept(p, DueNow(copy[p], FALSE)) \/ Lost(p, DueNow(copy[p], FALSE))
        /\ Leave(p)
        /\ UNCHANGED down
     \/ /\ pc[p] = "draw" /\ TooOld(at[p])
        /\ WriteOff(p, "refail")
        /\ UNCHANGED <<rec, at, cand, view, reported, stale, torn>>
     \/ /\ pc[p] = "redraw"
        /\ Leave(p)
        /\ UNCHANGED <<rec, down, reported, stale, torn>>
  /\ UNCHANGED <<clip, aged, serving, gone, todo, budgetVars, purge, bought, landed>>
-----------------------------------------------------------------------------
\* place reads the job, puts its element on the canvas, and saves what it read
\* with the element's name (_media_tool_call); no lock of the job is held.
PlaceRead(w, j) ==
  /\ pc[w] = "idle" /\ Served(w) /\ Known(j)
  /\ at' = [at EXCEPT ![w] = j]
  /\ copy' = [copy EXCEPT ![w] = rec[j]]
  /\ stale' = stale \ {w}
  /\ Goto(w, "place")
  /\ UNCHANGED <<jobVars, worldVars, cand, view, todo, budgetVars, purge, troubles,
                 bought, landed, reported, torn, blurred>>

\* Every place draws an element of its own, and the canvas keeps the earlier one,
\* which no job names any more.
PlaceDraw(w) ==
  /\ pc[w] = "place"
  /\ clip' = [clip EXCEPT ![at[w]] = Shown(copy[w])]
  /\ blurred' = IF clip[at[w]] # None THEN blurred \cup {at[w]} ELSE blurred
  /\ Goto(w, "name")
  /\ UNCHANGED <<rec, worldVars, at, copy, cand, view, todo, budgetVars, purge, troubles,
                 bought, landed, reported, stale, torn>>

PlaceSave(w) ==
  /\ pc[w] = "name"
  /\ Save(w, Named(copy[w]))
  /\ Leave(w)
  /\ UNCHANGED <<clip, worldVars, todo, budgetVars, purge, bought, landed, blurred>>
-----------------------------------------------------------------------------
\* The delete of the session marks its jobs and then removes them
\* (_media_session_purge); what is under way holds what it held.
PurgeMark ==
  /\ purge = "none" /\ Trouble
  /\ purge' = "marked"
  /\ clip' = [j \in Call |-> None]
  /\ rec' = [j \in Call |-> IF ~Known(j) THEN NoRow ELSE Ended(rec[j], "deleted")]
  /\ stale' = stale \cup {w \in Worker : Holds(w)}
  /\ UNCHANGED <<worldVars, workVars, budgetVars, bought, landed, reported, torn, blurred>>

PurgeDrop ==
  /\ purge = "marked"
  /\ purge' = "gone"
  /\ rec' = [j \in Call |-> NoRow]
  /\ stale' = stale \cup {w \in Worker : Holds(w)}
  /\ UNCHANGED <<clip, worldVars, workVars, budgetVars, troubles, bought, landed, reported, torn, blurred>>

\* The delete of the agent buries the jobs still running and fails their
\* elements (_media_harness_purge).
PurgeAgent ==
  /\ purge = "none" /\ Trouble
  /\ purge' = "agent"
  /\ serving' = FALSE
  /\ LET live == {j \in Call : rec[j].status = "running"}
     IN  /\ rec' = [j \in Call |-> IF j \in live THEN Ended(rec[j], "deleted") ELSE rec[j]]
         /\ clip' = [j \in Call |-> IF j \in live /\ rec[j].element /\ clip[j] # None
                                      THEN "failed" ELSE clip[j]]
         /\ stale' = stale \cup {w \in Worker : Holds(w) /\ at[w] \in live}
  /\ UNCHANGED <<down, aged, gone, workVars, budgetVars, bought, landed, reported, torn, blurred>>

\* The owner switches the media server off and on.
SwitchOff ==
  /\ serving /\ troubles < MaxTroubles
  /\ serving' = FALSE /\ troubles' = troubles + 1
  /\ UNCHANGED <<jobVars, down, aged, gone, workVars, budgetVars, purge, historyVars>>

SwitchOn ==
  /\ ~serving /\ purge # "agent"
  /\ serving' = TRUE
  /\ UNCHANGED <<jobVars, down, aged, gone, workVars, budgetVars, purge, troubles, historyVars>>

\* The owner takes a provider's key out of the workspace and puts it back.
Disconnect(m) ==
  /\ m \notin gone /\ Trouble
  /\ gone' = gone \cup {m}
  /\ UNCHANGED <<jobVars, down, aged, serving, workVars, budgetVars, purge, historyVars>>

Connect(m) ==
  /\ m \in gone
  /\ gone' = gone \ {m}
  /\ UNCHANGED <<jobVars, down, aged, serving, workVars, budgetVars, purge, troubles, historyVars>>

\* Time: a poll falls due, and a job grows too old.  A stand-down lasts longer
\* (QUARANTINE_S) than a job (JOB_MAX_S) and ends with the process only.
FallDue(j) ==
  /\ rec[j].status = "running" /\ rec[j].task /\ ~rec[j].due
  /\ rec' = [rec EXCEPT ![j] = DueNow(@, TRUE)]
  /\ UNCHANGED <<clip, worldVars, workVars, budgetVars, purge, troubles, historyVars>>

GrowOld(j) ==
  /\ rec[j].status = "running" /\ rec[j].task /\ j \notin aged
  /\ aged' = aged \cup {j}
  /\ UNCHANGED <<jobVars, down, serving, gone, workVars, budgetVars, purge, troubles, historyVars>>

\* The gateway ends and starts again: what was in memory is gone.
Restart ==
  /\ Trouble
  /\ torn' = torn \cup {at[w] : w \in {o \in Worker : Holds(o)}}
  /\ pc' = [w \in Worker |-> IF ~Active(w) THEN pc[w] ELSE IF w \in Pass THEN "idle" ELSE "over"]
  /\ at' = [w \in Worker |-> IF w \in Call THEN w ELSE None]
  /\ copy' = [w \in Worker |-> Blank]
  /\ cand' = [w \in Worker |-> None]
  /\ view' = [p \in Pass |-> 0]
  /\ todo' = [p \in Pass |-> {}]
  /\ submits' = [b \in DOMAIN submits |-> 0]
  /\ billed' = 0 /\ down' = {} /\ stale' = {}
  /\ UNCHANGED <<jobVars, aged, serving, gone, purge, bought, landed, reported, blurred>>
-----------------------------------------------------------------------------
CallStep(c) == Ask(c) \/ Walk(c) \/ Reply(c) \/ Make(c) \/ WalkOver(c)
PassStep(p) ==
  \/ Open(p) \/ (\E j \in Call : Take(p, j)) \/ Enter(p) \/ NotServing(p)
  \/ Progress(p) \/ TimedOut(p) \/ PollFailed(p) \/ PollSucceeded(p)
RenderStep(w) ==
  \/ Again(w) \/ ReplyAgain(w) \/ Resume(w) \/ FileGood(w) \/ FileBad(w) \/ Settle(w) \/ Draw(w)
PlaceStep(w) == (\E j \in Call : PlaceRead(w, j)) \/ PlaceDraw(w) \/ PlaceSave(w)

Next ==
  \/ \E c \in Call : CallStep(c)
  \/ \E p \in Pass : PassStep(p) \/ DrawFails(p)
  \/ \E w \in Call \cup Pass : RenderStep(w)
  \/ \E w \in Place : PlaceStep(w)
  \/ \E j \in Call : FallDue(j) \/ GrowOld(j)
  \/ \E m \in Model : Disconnect(m) \/ Connect(m)
  \/ PurgeMark \/ PurgeDrop \/ PurgeAgent \/ SwitchOff \/ SwitchOn \/ Restart

Spec == Init /\ [][Next]_vars
-----------------------------------------------------------------------------
\* The sweeper comes round, the loop serves every pass, a provider answers or
\* the client's timeout does, and time goes by.
Fairness ==
  /\ \A p \in Pass : WF_vars(PassStep(p) \/ RenderStep(p))
  /\ \A j \in Call : WF_vars(FallDue(j)) /\ WF_vars(GrowOld(j))
FairSpec == Spec /\ Fairness
-----------------------------------------------------------------------------
Phase == {"idle", "walk", "sent", "made", "spent", "open", "lock", "poll", "again", "resent",
          "keep", "store", "restore", "landing", "failing", "refail", "draw", "redraw", "place",
          "name", "over"}

\* The type of everything, the session's money but for its range.
Typed ==
  /\ rec \in [Call -> Record]
  /\ clip \in [Call -> {None, "running", "ready", "failed", "deleted"}]
  /\ down \subseteq Model /\ aged \subseteq Call /\ serving \in BOOLEAN
  /\ gone \subseteq Model
  /\ pc \in [Worker -> Phase]
  /\ at \in [Worker -> Call \cup {None}] /\ copy \in [Worker -> Record]
  /\ cand \in [Worker -> Model \cup {None}] /\ view \in [Pass -> Nat]
  /\ todo \in [Pass -> SUBSET Call]
  /\ submits \in [Sweep \cup {"session"} -> 0..MaxSubmits] /\ billed \in Int
  /\ purge \in {"none", "marked", "gone", "agent"}
  /\ troubles \in 0..MaxTroubles
  /\ bought \in [Call -> Seq(Model)] /\ landed \in [Call -> Nat] /\ reported \in [Call -> Nat]
  /\ stale \subseteq Worker /\ torn \subseteq Call /\ blurred \subseteq Call

\* Type correctness: no submit is given back that was not claimed, and none is
\* claimed beyond the ceiling (_MediaBudget).
TypeOK == Typed /\ billed \in 0..MaxAdvances + 1

\* A job buys at most one render more than its advances, and no model twice, in
\* whichever walk and pass its candidates fail ("one money ceiling", app.py:14722),
\* as long as no step wrote it from a copy that was not its last state.
RendersBounded ==
  \A j \in Call \ torn :
    /\ Len(bought[j]) <= MaxAdvances + 1
    /\ \A i, k \in DOMAIN bought[j] : bought[j][i] = bought[j][k] => i = k

\* What is reported for a job that is over is what its renders cost, the failed
\* ones with the one that was delivered, whoever saved it and however often
\* ("exactly once", app.py:15021).
MeteredOnce ==
  \A j \in Call \ torn :
    Terminal(rec[j]) => reported[j] = Len(bought[j])

\* However many passes see a render done, its file is stored once
\* (_media_job_lock, app.py:14527).
LandedOnce == \A j \in Call \ torn : landed[j] <= 1

\* Once nobody is at work on a job that is over, its element on the canvas shows
\* the outcome (_media_element_ready, app.py:15275), whether it was placed before
\* or after, unless the canvas could not be read, or the job was placed twice: then
\* it names only the last of its elements.
ClipShowsOutcome ==
  \A j \in Call \ (torn \cup blurred) :
    /\ Terminal(rec[j]) /\ clip[j] # None
    /\ \A w \in Worker : Holds(w) => at[w] # j
    => clip[j] = IF rec[j].status = "succeeded" THEN "ready" ELSE "failed"

\* A job that is polled comes to an end, or its server is switched off, or the
\* provider that runs it is disconnected ("terminal or due later", app.py:15441).
\* Without the last the code polls it for ever, whatever its age: _media_job_poll
\* puts it down before it asks.
Running(j) == rec[j].status = "running" /\ rec[j].task
JobEnds == \A j \in Call : Running(j) ~> (~Running(j) \/ ~serving \/ rec[j].model \in gone)
=============================================================================
