# HarnessRouter in TLA+

TLA+ specifications of the execution core of HarnessRouter: turns, leases,
accepts, harvest, deletion, environments, media jobs and the feed a console tab
draws. TLC checks them on small instances; TLAPS proves type correctness and
every safety property the passing runs check for every size of the instance.
Every definition is translated from the code; `PROJECT.json` names, under `map`,
the lines each one stands for, and under `hazards` the places of the code this
project is about.

- [1. The system](#1-the-system)
- [2. Modules](#2-modules)
- [3. Runs](#3-runs)
- [4. Where code and documents disagree](#4-where-code-and-documents-disagree)
- [5. Proofs](#5-proofs)
- [6. What is not modelled](#6-what-is-not-modelled)
- [7. Plan](#7-plan)

## 1. The system

HarnessRouter runs third-party coding agents ("harnesses") as a service. A
client posts a task; the gateway accepts it, runs it as a turn of a session in a
sandbox, and stores what came of it.

```
 client -> Console (ui/, :3000) -> Gateway (gateway/app.py, :8080) -> Runner (runner/server.py, :8081) -> agent CLI
                                     |        |          |
                              control store  blobs     graph (sessions, environments, ...)
```

All parts of one container end together when the gateway or the runner ends
(`docker/` entrypoint); what stays is the data volume, or the hosted stores.
Several gateway replicas may serve one set of stores.

Where state lives:

| place | what | how it is written |
|---|---|---|
| control store (`control_store.py`, over Cosmos or `control_sqlite.py`) | session leases, idempotency reservations, one control record per response, cached API keys | compare-and-swap on an etag, create-if-absent |
| blob store | response records, workspace checkpoints, traces | whole-object writes, last one wins |
| graph (vertices) | sessions (`status`, `turn_status`, `running_response_id`, `runner_turn_id`), environments | property writes, last one wins |
| gateway memory | Stop flags (`_cancel_req`), record caches, slots, event bus, the locks, budgets and stand-downs of media jobs | per replica, lost on a crash |
| runner memory | `_turns`, `_turn_by_key` | under `_turns_lock`, except a turn's own record |
| runner disk | session trees, environment versions, links | files, atomic link replacement |
| console tab | the thread it draws, the feed, the reads it owes | reducer and effects, lost when the tab closes |

### Components

**Session lease and workspace checkpoint** (`control_store.py` 179-340, `app.py`
`_resp_execute`, `_checkpoint`). State: one document `lease::<org>::<sid>` with
owner, fence, expiry, time stamp and etag. Operations: `lease_admit`,
`lease_renew`, `lease_still_held`, `lease_release`. Each is a read and then a
conditional write, with other replicas in between; the turn calls them before
restoring the workspace, on every heartbeat of its poll loop, before saving and at its end.
Hard: five-round compare-and-swap, documents that expire, late heartbeats, a
restore and an upload that have no heartbeat at all, store errors that let the
turn go on unfenced, crashes anywhere, a check that is old when the upload lands.
Correct when: fences are unique, fenced turns exclude one another while their
leases are fresh, checkpoints that are not overtaken land in order.

**Turn lifecycle and cancellation** (`app.py` `create_response`,
`_resp_execute`, `cancel_response`, `cancel_session`, `_stop_session`). State:
the session's vertex, the response's stored record, its control record with the
durable cancel latch, the in-process Stop flag, the runner's turn. Hard: a
cancel may land between any two awaits of the turn, on another replica, with
half of what it needs not yet written; all the records are written by both.
Correct when: a cancel that was answered stops the agent and is what the turn
ends as; nothing is left running, in the sandbox or in the records.

**Request acceptance** (`app.py` `create_response`, `_input_request_settle`;
`control_store.py` `idem_*`, `resp_set_pending_input`, `resp_claim_input`).
State: the reservation of an Idempotency-Key; the question a response ended on,
on the control record and on the stored record, which replicas cache. Hard:
concurrent requests, an accept that fails between the reservation and the run
and gives back what it took, cached records, expiry. Correct when: one key, one
run; one answer, one run; no key and no question is left stuck.

**Runner turn registry** (`runner/server.py` `_start_turn`, `_run_turn_bg`,
`cancel_turn`, `_evict_turns`). State: `_turns`, `_turn_by_key`, each turn's
record, its CLI process, its cap timer. Threads share the records without a
lock. Hard: a retried POST, a cancel during the spawn, the cap firing as the
reader leaves, a normaliser that raises. Correct when: one CLI per key, no
cancel lost, every turn ends.

**Environments** (`runner/environments.py`, `app.py` environment handlers).
State: version trees, build records, the active link, the mount link, the build
thread, the vertex. Hard: builds, activations and deletions on the same files
with checks made before another process's steps, full disks, restarts. Correct
when: sessions read whole versions whose build did not fail, a build ends.

**Trace harvest** (`app.py` `_turn_slot`, the poll loop of `_resp_execute`,
`_trace_flush`, `_trace_finalize`, `_reconcile_*`, `_adopt_orphan_turn`,
`_drain_inflight`). State: the trace's chunks, the harvest cursor on the control
record, the vertex with its heartbeat, the response's record, the fence. Hard: a
replica that dies or drains at any step, a sweep that judges a turn by a stale
heartbeat, an adopter and a live owner on one turn, writes whose failure is
passed over, a runner that has forgotten the turn. Correct when: the trace has
the whole turn, usage is reported once, a live turn is left alone, and no turn
stays running.

**Session delete** (`app.py` `delete_trace`, `_session_purge`, `_session_strip`,
`_session_write_allowed`, `_retention_*`). State: the vertex with its status and
share flag, what is stored under the session's id, the marker that a deleted
session's vertex becomes. Hard: a turn outlives the delete and writes after it,
the tombstone check and the write it guards are two calls, steps of the purge
fail in silence, the marker itself may be written over or lost. Correct when: a
deleted session is not readable, nothing of it is left, the marker goes.

**Event feed** (`app.py` `_bus_*`, `_redis_*`, the feed; `conversation.ts`).
State: queues per feed, Redis, the tab's thread with its stream, feed, watch
and reads. Hard: an event reaches the tab from the stream of its POST, from the
bus, late, twice or not at all, and the record says the same again. Correct
when: no turn is drawn twice, an own answer is whole, an end is seen.

**Media jobs** (`app.py` `_media_*`, `media_plane.py`). State: the job's vertex,
its element on the canvas, budgets, stand-downs, locks per job. Hard: a generate
call, the sweeper, `check_jobs`, the browser's route and `place` work on one job
with awaits in between, and each provider's answer costs money. Correct when:
the renders bought stay under the ceiling, what was bought is metered once, the
file lands once, the element shows the outcome, the job ends.

**Turn slots and gates**, the **API-key cache** and the **workspace change lock**
are in the plan (section 7); the heartbeat of the slot and the drain are in
Trace harvest.

**Everything else** is CRUD over the graph, relays, brokers to outside
services, per-CLI normalisers, the Console, packaging and the protocol's
documents; section 6 says why each is left out.

## 2. Modules

| module | what | lines it stands on |
|---|---|---|
| `FencedLock` | abstract: a lapsing lock with fencing tokens | - |
| `SessionLease` | the lease, step by step at the store, and the turn around it | `control_store.py`, `app.py`, `control_sqlite.py` |
| `TurnControl` | the turns of a session and the calls that stop them | `app.py`, `control_store.py` |
| `ResponseAccept` | idempotency keys and answers to questions | `app.py`, `control_store.py` |
| `RunnerTurn` | the runner's registry, threads, processes and caps | `runner/server.py` |
| `EnvironmentBuild` | one environment's versions, links and calls | `runner/environments.py`, `app.py` |
| `TraceHarvest` | the harvest of a turn, its adoption, settling and metering | `app.py`, `control_store.py` |
| `SessionDelete` | a session's tombstone, purge, marker and late writers | `app.py` |
| `EventFeed` | a turn's way to a console tab: bus, stream, record | `app.py`, `ui/src/lib/conversation.ts` and its neighbours |
| `MediaJob` | a generate call's job: walk, polls, landing, metering, place | `app.py`, `media_plane.py` |
| `...Proofs` | the theorems about a module: `WorkspaceProofs` (`SessionLease` and `EnvironmentBuild`), `TurnControlProofs`, `ResponseAcceptProofs`, `RunnerTurnProofs`, `TraceHarvestProofs`, `SessionDeleteProofs`, `EventFeedProofs`, `MediaJobProofs` | - |
| `MC...` | instances for TLC: symmetry sets and constants that are functions | - |

The modules share no variables. They meet at interfaces: `TurnControl`'s
`Begin`/`BeginRefused` and `Settle` stand for what `SessionLease` details, its
`Accept` follows `ResponseAccept`'s `Enter`, its `Start` and kills for what
`RunnerTurn` details (one turn per response id, a cancel that stops the CLI).
`TraceHarvest` takes up at `Start` what `TurnControl` leaves out, the events and
the death of the replica; its `Finish` and `RunnerLost` stand for `RunnerTurn`.
The writers of `SessionDelete` are `TurnControl`'s turn and `TraceHarvest`'s
sweep, cut down to what they write on the vertex. `EventFeed`'s gateway says
what `TraceHarvest`'s harvest writes.

Conventions: `pc`-like variables name the next step of a handler, and the label
says what that step does. A definition commented "Mutant:" is never used by
the specification; it is the plausible wrong version of the definition after
it, for which the property named in `PROJECT.json` fails.

### SessionLease

`doc` is the lease document; `snap`, `t0`, `tries` are the locals of the call in
progress (what `read_item` returned, `time.time()` at its start, the loop's
rounds); `fence` is `rec["lease_fence"]`. The rest is history. `gen` is which
incarnation of the document a fence belongs to, because a fence starts again at
1 when the document has expired; `saved` the admission whose checkpoint is
stored; `lapsed` the fenced turns whose lease was not fresh at some moment of
their work; `sure` the turns whose check read their own lease, with nobody
admitted since.

`AdmitStart` to `AdmitFault` are `lease_admit`; `HydrateOk`/`HydrateFailed` the
restore (the second returns without a release, as the code does);
`RenewRead`/`RenewWrite` a heartbeat; `CheckFence`, `PutCheckpoint`
`_checkpoint`; `ReleaseRead`/`ReleaseWrite` `lease_release`; `Crash` the death
of the replica. Faults are those the callers swallow: admission goes on unfenced
(its write may have landed), the check reads as held, renewals and releases are
skipped.

Time is `now`, advanced by `Tick`, which waits for nobody: only the poll loop
renews (`RenewRead`), so a lease goes stale under a turn that restores, waits for
the store or uploads, as it does in the code (section 4). What the properties
promise is therefore relative to `lapsed` and `sure`: of two fenced turns at work
together, the earlier has let its lease go stale. Under `observe` (`Enforce = FALSE`) a conflict is logged and the lease is taken.

`FencedLock` has a holder, the last grantee and a token. The refinement maps
`holder` to the document's owner while `lease_admit` would count it an active
conflict. A renewal is `Extend`, a takeover or a first admission `Grant`, time
and releases `Lapse`.

### TurnControl

Each action is the code between two awaits. `pc` follows `create_response`
(`stamp`, `record`) and `_resp_execute`: `begin` (admission, stamp, restore),
`launch` (the look before POST /turn), `start`, `register`
(`resp_put_running`), `recheck` (the look after it), `stampRt`/`stampRun`,
`poll`, `final` (the last look), `stampEnd`, `settle`, `persist`. A cancel call
goes `latch`, `look`, and `put` or into `_stop_session` (`flag` to `stopPut`).
`latch[r]` is the control record; its compare-and-swap loops decide on what they
replace and are one step. `agent[r]` is what `RunnerTurn` does in detail.

`SandboxFaults`: a call to the runner may fail with or without its effect.
`Overlap`: a second turn may be sent while one runs, as `observe` allows.
`early` is history: the turns latched before their agent ended by itself. Which
replica serves a cancel call is chosen where it first matters, at `StopFlag`.

### ResponseAccept

All requests continue one response that asked a question. A request is keyed or
not, and answers or sends something else; every assignment of shapes is an
initial state. `Look` and `Reserve`/`ReadKey` are `idem_get` and
`idem_reserve`; `Read` the previous response and the feed; `Claim`, `Report`,
`Put` are `_input_request_settle`; `Enter` is the running record and the commit;
`GuardFails` and `ReleaseRead` to `Undo` the failed accept. `SetPending` is the
asking turn's `resp_set_pending_input`, after its record is stored, and any
number of requests may come in between; `reset` is history and says that it undid
an answer. `seen` holds every state a replica's cache may have of the stored
record.

### RunnerTurn

A step is one access to what threads share. `Post`, `BuildRefused`, `Record`,
`StartThread` are `_start_turn`; `Spawn` to `Finish` `_run_turn_bg`;
`CapFires`/`CapKills` the timer; `CancelPost` to `CancelAnswer` `cancel_turn`;
`Evict` `_evict_turns`. The orders that matter are kept: the thread publishes
its process before it looks for the mark, the cancel marks before it looks for
the process. `Evict` asks for nothing but the end of the turn's thread: the code
goes by age, so a retry or a cancel may be under way. `dropped` is history: the
turns whose records are gone.

### EnvironmentBuild

`record`, `tree`, `active`, `mount` are the files; `build` the thread;
`Refresh` any read of the environment through the gateway, which brings the
vertex up to date. `Clear` to `Fail` are `_build`, in the order of its last
steps (`Following`): read what is active, point, mount, record. Calls are split
where they go from the gateway to the runner, and overlap freely: two build calls
can take one number, and the later one then clears a version that is finished or
read by sessions, which is what `rebuilt` records. `Restart` ends threads and calls,
keeps the volume and loses the mount link. `OtherMounts` is another environment
built under a freed name. `DiskFaults`: any write may fail.

### TraceHarvest

One turn. The owner is the task that runs it, an adopter is one run of
`_adopt_orphan_turn`; `pc` takes the owner from the slot over the restore and
POST /turn (`Begin`, `Post`, `Register`) into the poll loop and an adopter into
it over `Probe` and `Admit`; from there both take the same steps. `Poll`,
`Flush`, `Mark`, `FlushLast` are a round of the loop (answer, `_trace_flush`,
`resp_set_cursor`, the write after the loop), `GiveUp` its five failed polls,
`Stamp` the vertex, `CheckFence` and `Report` the two halves of
`_trace_finalize`'s metering (`lease_still_held`, then the report, with an await
between them), `Persist` `_resp_put`. `Admitted` is what `lease_admit` gives: the
next fence, or none to a harvester in `Unfenced`, for which the store fails. `SweepFind`/`SweepJudge` are the reconcile sweep's
`_reconcile_session`, `HealLook`/`HealSettle` `_reconcile_response`, `Drain` the
cancelled task of `_drain_inflight` with `_settle_drained`.

Time is two flags: the heartbeat is `stale`, the turn is `late` (past the cap).
`Beat` clears the first whenever the code has a beat running, and `GoStale` may
come at any moment before it. Faults: a write to the trace fails and its answer
is read or not, as in the code; a cursor is lost without notice; the fence cannot
be read, which counts as held; the runner forgets the turn or is out of reach; the
thread that reads the agent raises, and the turn's record is never done
(`ReaderRaises`, which is `RunnerTurn`'s); any task dies anywhere.

What the code does that a reader of the module may stumble over: the adopter
takes the lease under the turn's own response id, so `lease_admit` never sees a
conflict and fences alone keep the two apart; the owner of a failed turn leaves
the vertex running for the sweep; the drain stores the record and leaves the
vertex; a turn that ended in the runner before it was adopted is not harvested
(the adopter's probe finds it over); a chunk that is refused in the last write
is lost, which is what `cutShort` records; an owner that gave up after five
failed polls reports the usage like any other. Two histories name who reports
although somebody else may: `unsure` has the harvesters at work that report
without having seen the end, without a fence, or without an answer about it;
`overtaken` says that an adopter which had probed a live turn was admitted after
its end. `billed` counts those that report and are not `unsure`. Left out: the
events' content, the manifest's sums and the card.

### SessionDelete

`status` is the vertex's status, with `absent` for no vertex and `bare` for one
that a write without a status has made anew; `left` is what is stored under the
session's id. A turn and the reconcile sweep are writers: `StatusLook` and
`StatusWrite` are `_session_write_allowed` and the upsert it guards, two calls,
and `CardLook`/`CardPut` `_index_manifest`. `DelRead` to `StripMarker` are
`delete_trace`, which removes the record and writes the marker afresh at its
end (`_session_strip`), with a moment in between in which there is no
vertex; `SweepPurge`/`SweepDrop` the retention sweep. A step that can fail
(`MayFail`) does so as the code has it: only a listing that raises is answered,
what fails elsewhere is passed over, and a look at the tombstone that fails
allows the write. A follow-up accepted before the tombstone
runs to its end, and a marker can be shared, as in the code.

`GoDue` says that a marker comes of age when nothing that was under way when it
was written still is: a day against a turn's cap of a quarter of it. `slipped`,
`tombed`, `swept` are history. Left out: the restore of a session in retention
and its race with the sweep, chunks, attachments.

### EventFeed

The gateway half is the bus: `Publish` is `_bus_publish` (past a full pump the
event goes to the replica's own feeds), `Pump`/`PumpFails` `_redis_pump`,
`Hear`/`ListenLost` `_redis_listen`, `Delivered` `_bus_deliver`. `AtHome` says
whether the tab's feed is on the replica that runs the turns. The console half
is `conversation.ts`: `ApplyStart`, `ApplyText`, `ApplyEnd` are
`applyBusEvent`; `Send`, `SendInVain` (a message the server refuses), `ReadPost`
the send and its stream, and `PostEnds`, `PostLost`, `PostUnsent` the three ways
it is over: the stream ends, it breaks and what still runs is left to the feed
and the record, or no turn was heard of and the message stays as one not sent;
`LoadRead`/`LoadApply` the read of an opened task; `SettleRead`/`SettleApply`
`settleFromRecord` up to and after its await; `Fold` the settled read; `WatchRead`
the workspace watch that notices an end; `Busy` the effects that run with a
change of `busy`. A stream may break at any byte; the bus loses or doubles
events or connections, and a message may come to nothing, `MaxFaults` times
together. An answer of turn 0 belongs to a message no turn was heard of for.

A turn may be accepted while the bus still holds up to `MaxLag` events of earlier
ones, and the stream of the tab's own turn may be read after another client's turn
has begun. `applyBusEvent` looks at the turn of a start only: a late text or end
goes into whatever answer is running. `Late` and the history `strayed` say when
that has changed the thread.

Three facts of time are in the guards, each named where it is: a turn outlasts the
first read of the watch, it outlasts a read of the opened task made before it, and
the figures the settled read waits for come later after a turn's end than the bus
lags. Reads do not fail, and an effect runs with the change it watches. Left out: the replay buffers (the tab
does not draw them), `_xreplica_tail` (it never delivers, section 4), and a tab
that leaves the task and comes back while its own stream runs.

The properties promise what the code does, and nothing of a thread that has
`strayed` (section 4). The text of a turn somebody else
sent, lost on the bus, is not repaired (section 4), hence "own". The settled read
drops `gapped` also when it has not replaced the answer, because the thread and
the record differ in length, hence `HoldsTurns`. `dropped` is history: the turns
over which a read older than they are has settled the thread. `OwnEndSeen` speaks
of a thread that has no more answers than the session has turns. Section 4 has
both.

### MediaJob

A worker is a generate call, a pass (`Sweep` for the sweeper and the browser's
route, `Check` for check_jobs) or a place; it moves from one await to the next
in one step. `copy` is the job as the worker holds it, `rec` the vertex. A call
walks the chain (`Walk`, `Reply`), records the job (`Make`) or what it spent
(`WalkOver`). A pass lists jobs (`Open`), takes one (`Take`), waits for its lock
and reads it again (`Enter`: `_media_job_advance`), polls (`Progress`,
`TimedOut`, `PollFailed`, `PollSucceeded`, `NotServing`), buys the next render
when it may (`Again`, `ReplyAgain`, `Resume`), fetches and stores the file
(`FileGood`, `FileBad`), saves the outcome and tells the element (`Settle`,
`Draw`, `DrawFails`). `Save` is `_media_job_save`: it meters a job that becomes
terminal and then writes the vertex (`Kept`), or the write fails and nobody is
told (`Lost`). A job whose provider is not connected (`gone`, `Reachable`) is put
down for the next poll however old it is (`Progress`), as in `_media_job_poll`.
`submits` and `billed` are `_MediaBudget`.

Troubles, bounded together by `MaxTroubles`: the delete of the session, in two
steps with workers between them, or of the agent; the media server switched off;
a provider disconnected; a restart, which loses locks, budgets and stand-downs; a
save that is lost; a canvas that cannot be read.

History: `bought` (the models a job's renders were bought from, in order),
`landed` and `reported` are what happened outside; `torn` is
the jobs some step wrote from a copy that was no longer the record's last state,
which the code allows at two places (section 4), those a save of which was lost,
and what a restart held; `blurred` the jobs whose element could not be reached, or
that were placed more than once: every place draws an element of its own and the
job names only the last. A render costs 1. A
stand-down lasts longer than a job (1800 s against 1200 s). Left out: the
spending cap, the export, images as input (an unreadable one is the second
disjunct of `Again`), the providers' wire formats.

## 3. Runs

Twelve runs: ten pass, two show a disagreement (section 4).

| run | instance | shows |
|---|---|---|
| `lease_enforce` | 3 turns, TTL 3, Fresh 2, DocTTL 4, 2 rounds, clock to 4, no limit on how late a heartbeat or an upload is; faults, crashes | `FenceUnique`, `FencedExclusive`, `CheckpointsInOrder`, the refinement `LeaseIsFencedLock` |
| `turn_control` | 2 overlapping turns, 1 cancel of either kind at either replica, faulty sandbox | `LatchedTurnNotCompleted`, `QuietIsSettled` |
| `turn_stop` | 2 turns in sequence, 1 cancel, a sandbox that answers; fair | `NoAgentLeftBehind`, `CancelStopsAgent` |
| `accept_claims` | 3 requests of every shape, at any moment of the question's life, failing accepts and store | `OneAnswerPerAsking`, `KeyRunsOnce`, `FailedAcceptGivesBack` |
| `runner_turn` | a call and its retry, 2 cancels, raising reader, eviction at any time after the end; fair | `OneTurnPerKey`, `CancelledTurnIsStopped`, `StartedTurnEnds` |
| `env_build` | 2 versions, 2 build calls that may overlap, an activation, a deletion, a restart, a full disk; fair | `ActiveIsWhole`, `BuildingEnds` |
| `harvest_adopt` | a turn of 1 event, 1 adoption with a fence or without; failing writes and fence reads, a runner that is lost, stuck or out of reach, crashes, drain, late heartbeats; fair | `HarvestIsWhole`, `BilledOnce`, `LiveTurnNotSettled`, `TurnEnds` |
| `session_delete` | 2 deletes, a turn, a settler, a share, the retention sweep, 1 failing step of any kind; fair | `DeletedIsUnreadable`, `NothingLeft`, `DeletedGoes` |
| `feed_console` | 2 turns of 1 piece, the tab's or not, breaking streams, 1 fault of the bus or 1 message that comes to nothing, up to 2 events of the first turn still on the bus when the second begins; fair | `OwnAnswerWhole`, `TurnDrawnOnce`, `OwnEndSeen` |
| `media_jobs` | 1 call over 3 models (2 inline, 1 polled), sweeper, check_jobs, place, 1 trouble (a lost save and a disconnected provider among them); fair | `RendersBounded`, `MeteredOnce`, `LandedOnce`, `ClipShowsOutcome`, `JobEnds` |
| `accept_late` | 2 requests, an early answer | `AnswerRunsOnce` fails |
| `session_revived` | 1 delete, nothing fails | `TombstoneIsFinal` fails |

The passing runs also check their module's `TypeOK` (`EnvTypeOK`; `turn_stop` leaves that to
`turn_control`). Run one with `tlc -config lease_enforce.cfg MCSessionLease.tla`.
With two workers `feed_console` takes about three and a half minutes,
`harvest_adopt` three, `lease_enforce` two, `media_jobs` and `session_delete` one
and a half, the others less.

**Why the bounds are enough.** The safety properties of every passing run are also
proved without bounds (section 5). For liveness, and for what the runs show of
the interesting cases:

- *Lease.* The clock constants keep the code's order, `Fresh < TTL < DocTTL`,
  at the smallest values where they differ; four ticks take a document through
  fresh, stale and expired, and the first that is written, recreated. Three turns give a holder, a challenger
  that took over and one that races it. Two rounds of the loop let a turn lose
  one and lose its last.
- *Turns.* A second turn is what the shared vertex and the session-wide flag can
  be confused by. One cancel call suffices for every race of a Stop with the
  turn: its steps, the turns' and the agents' interleave freely. Both replicas
  are there for the call because the flag counts only at the turn's own.
- *Accepts.* Three requests: a winner, a loser that saw it, and one that comes
  after it backed out.
- *Runner.* A retry is one more call; a second cancel covers a mark by one and a
  kill by the other.
- *Environments.* Two versions (one active, one building), two builds to have a
  version before or to take one number, one restart to have an orphaned record.
- *Harvest.* One event, pending or flushed, a result or none: with two the
  liveness check exceeds five minutes, and longer traces repeat the round. One
  adoption gives two harvesters on one turn; the sweep may find the turn again
  afterwards and settles or leaves it. The adopter may be let in without a fence;
  with the owner too the run exceeds five minutes, and the safety properties pass
  there as well. The theorems have any number of events and anybody unfenced.
- *Deletion.* A second delete meets the first one's marker and its gap. One
  failure of each kind, alone: the purge's steps are independent of one another.
- *Feed.* Two turns, because the second is what a late event of the first could
  be drawn into; one piece, because pieces are drawn one like the other; one
  trouble on top of streams that may break for every turn: a fault of the bus, or a
  message that comes to nothing, which makes thread and record differ in length. Two
  events of the first turn, a text and its end, are what the second can be spoilt by.
  The instance has the feed on the turn's replica; with `AtHome = FALSE` the run
  passes too.
- *Media.* Three models: a chain with a successor left after the ceiling is
  reached. `MaxAdvances` is the code's 1, `MaxSubmits` 2 against the code's 4,
  so that the ceiling of sockets is met. One inline model at each end and a
  polled one between them give every order of the two. One call, so its budget
  is not shared with another call's walk; it is shared with check_jobs. One place
  call: a second exceeds five minutes, and the theorems have any number.

**Symmetry** (turns of the lease, requests) is used only in runs that check
safety; the members are interchangeable in `Init` and `Next`, and turns of
`TurnControl`, which are ordered, are not declared symmetric.

**Deadlock** is not checked: a bounded number of turns, calls and ticks comes to
rest. `QuietIsSettled` says what rest has to look like for the turns, and the
liveness properties that nothing rests half done.

**Fairness**, and why the code justifies it:

- `TurnControl`: each turn that was accepted goes on. It is an asyncio task of
  a replica that lives, and its calls to the sandbox and the stores are under
  client timeouts. Nothing obliges an agent to
  end, a turn to be sent or a cancel to be asked for, so `CancelStopsAgent`
  covers the agent that would work for ever. It does not oblige cancel calls
  to go on either: the turn itself finds the latch.
- `RunnerTurn`: threads that can run do, and an armed `threading.Timer` fires.
  No CLI is obliged to exit; the cap ends it.
- `EnvironmentBuild`: the build thread goes on (each command is under
  `BUILD_TIMEOUT`), calls made go on, and somebody goes on reading an
  environment that says building, as the Console does. A restart may still
  interrupt all of it once.
- `TraceHarvest`: the runner ends a turn by its cap unless the thread that reads
  it has raised, the loops that run go on
  (their calls are under timeouts), a heartbeat that runs is written, the sweep
  comes round, somebody reads the record. Nothing obliges a turn to leave
  its slot or a restore to come back: `TurnEnds` holds without it, by the sweep.
- `SessionDelete`: a turn is capped, a request is answered, time passes, the
  retention sweep comes daily. No turn has to be sent, no session deleted.
- `EventFeed`: a turn that runs ends and is stored, what is queued is delivered,
  the tab connects again and repeats its reads, and a refusal is answered. It is one
  weak fairness of all of these together: none of them repeats for ever, so it is
  enough that one of them goes on. No turn has to be sent, and no stream of a POST
  has to break.
- `MediaJob`: a pass that is there goes on (`PassStep` and `RenderStep` are
  coroutines of one loop; the sweeper's is periodic), a provider answers or the
  client's timeout does, and time goes by. No call, place or trouble has to
  happen, and a provider need not ever finish: age ends the job.

**Mutants.** For each property of each passing run, `PROJECT.json` names a
definition and a plausible wrong form of it (an off-by-one in the fresh window,
an unconditional replace, a look left out, the record written before the link,
...). Under the run's own configuration TLC then finds that property violated,
so none of them holds by the shape of the model.

**Exceptions written into properties.** Each is a history variable or a state,
and TLC finds a violation without it:

- `FencedExclusive` excepts an earlier turn whose lease was not fresh at some moment
  of its work (`lapsed`), `CheckpointsInOrder` an upload that was overtaken or whose
  check did not find the turn's own lease (not in `sure`);
- `OneAnswerPerAsking` allows a second answer once the question was set pending over
  a first (`reset`); `KeyRunsOnce` speaks while no reservation was released;
  `FailedAcceptGivesBack` excepts reservations a failing store kept (`stuck`) and
  claims left in place (`leaked`);
- `OneTurnPerKey` excepts turns whose records were dropped (`dropped`),
  `StartedTurnEnds` threads whose reader raised;
- `ActiveIsWhole` excepts versions that were built again (`rebuilt`) and links that a
  full disk kept from being put back (`unhealed`);
- `HarvestIsWhole` excepts harvesters whose last write was refused (`cutShort`),
  `BilledOnce` reports made without a look at the end or without a fence (`unsure`)
  and an adopter admitted after the end (`overtaken`), `TurnEnds` a stuck turn that a
  harvester polls for ever, `LiveTurnNotSettled` owners whose heartbeat was late (`missed`) or whose turn is
  past the cap (`late`);
- `OwnAnswerWhole` excepts a tab that still owes a repair (`gapped`), a thread that
  does not hold exactly the session's turns (`HoldsTurns`) and a turn over which an
  older read settled the thread (`dropped`); `OwnEndSeen` a thread with more answers
  than the session has turns; the feed's properties say nothing of a thread that has
  `strayed`;
- `DeletedIsUnreadable` and `DeletedGoes` except a status written over the
  tombstone (`slipped`, which is the finding `session_revived`, or follows a look that
  failed) and the loss of the
  marker's own write; `DeletedIsUnreadable` and `NothingLeft` what the retention
  sweep's purge passed over;
- the properties of `MediaJob` except jobs written from an old copy or whose save was
  lost (`torn`), `ClipShowsOutcome` an element that could not be reached or that is
  not the job's only one (`blurred`), `JobEnds` a job whose server is off or whose
  provider is disconnected (`gone`).

## 4. Where code and documents disagree

Found while modelling; `PROJECT.json` has the quotes with their lines. In each
the run's counterexample is the schedule.

1. **`accept_late`.** The stored record shows the question before
   `resp_set_pending_input` writes it, unconditionally. An answer in between is
   claimed, the claim is overwritten, a second answer runs.
2. **`session_revived`.** `_vertex_upsert` checks the tombstone and writes the
   status in two calls of the store. A delete in between is overwritten by the
   turn's end; if the delete had finished, the retention sweep does not find the
   session again. The docstring of `_session_write_allowed` calls a tombstone
   final.

### Limits of the code seen while modelling

For these no run is kept. The models contain them, and the properties name them as
exceptions, unless an assumption that excludes them is given here. Lines are of `src/gateway/app.py` unless another file is named.

*Lease, turns, accepts.*

- Only the poll loop renews (9832-9840). `_hydrate` (2761-2837) does not, and its own
  comment has restores past 120 s (918-923) against a fresh window of 75 s
  (`LEASE_FRESH_S`): a second fenced turn is admitted while the first restores, and
  both use the workspace. `lapsed` is that turn in `FencedExclusive`.
- `_checkpoint` asks `lease_still_held` once (2868) and then uploads; nothing renews
  meanwhile. A turn that was admitted during the upload may save before it lands and
  is then overwritten. `CheckpointsInOrder` is about uploads nobody overtook (`sure`).
- A cancel stores `cancelled` while the turn's task runs, and the task may store
  `failed` over it (11156); the comment at 9186-9187 calls a terminal record
  immutable.
- In `idem_reserve` a reservation that exists at the create and is gone at the
  read counts as won (`control_store.py` 149). It is gone also when the winner's
  accept failed (11013-11014): the loser then runs without holding the key.

*Environments.*

- The version number comes from a read made before the runner is asked. Of two
  overlapping build calls the second may be let in after the first has finished,
  with the same number, and clears the version sessions read, against "Snapshot the
  source into a new version" (20312). `rebuilt` has these versions.
- A build that starts between a deletion's check and its unmount puts the path of
  the deleted environment back (`environments.py` 1076), until the retention
  sweep. `DELETE` (20176-20177) takes the path away for good.

*Harvest.*

- The docstring of `_adopt_orphan_turn` has the lease keep two adopters apart
  (3092-3094); the lease's owner is the turn's own response id, which is never a
  conflict. What holds is the fence: the older harvester does not meter.
- "Fence the METERING so a turn is billed EXACTLY once" (2664) holds for those who saw
  the turn's end under a fence. An owner that gave up after five failed polls reports
  as well, and so does the adopter that finishes its turn; so do an adopter admitted
  after the end that its owner has reported, one that ran without a fence, and one
  that could not read it.
- A turn whose reader raised is never done in the runner (`runner/server.py` 15437,
  15473-15474). The poll loop (9829-9947) has no cap by the clock and beats on, so
  the session says running for as long as its replica lives.
- A turn that ended in the runner before its adopter looked is not harvested: its
  tail stays out of the trace.
- The last write after the loop is not checked: events in it are lost when it is
  refused.

*Events and console.*

- `_xreplica_tail` calls `list_traces` without its required `request` (11345).
  The TypeError is swallowed in every pass, so the tail that its docstring
  (11321-11324) describes never delivers anything.
- An opened task's read, feed and watch are started one after another: an end that
  passes between them is not seen until the next event, although nothing was
  lost (`conversation.ts` 615, against its comment at 425-426). `OwnEndSeen` is
  about turns the tab sent.
- `_bus_publish` counts on the reconciliation of turns for what a full queue
  drops (763-765). The console has the record replace an answer only after its own
  stream broke or when it missed the end: for a turn somebody else sent, a piece
  dropped on the way stays missing until the task is opened again.
- Leaving the task and coming back while the tab's own stream runs draws text
  twice.
- `applyBusEvent` compares response ids for a start only (`conversation.ts` 307,
  342-378). The tab may send when its own stream has ended and the bus still holds the
  end of that turn; a late text of it is drawn into the next answer, and a late end
  ends it. A late start of an earlier turn whose own end is lost leaves a running
  answer that nothing ends, and the tab busy.
- `settleFromRecord` counts answers to tell whether the record holds the turn that
  is waited for (`conversation.ts` 643), and a refused message is one: after a
  refusal every read says behind. A turn whose stream then breaks and whose end
  the feed does not bring keeps the tab busy, against the comment at 425-426.
  Without `Len(thread) <= turn` TLC finds `OwnEndSeen` violated by one turn after
  one refusal.
- The same count takes a read for new enough that was asked for before the send
  and is applied after the stream of the send broke, when the thread lacks a turn
  of another client: the thread is settled without the new turn, against "'running'
  and 'behind' ... change nothing" (631-632). With three turns and one
  lost event TLC finds `OwnAnswerWhole` violated without `dropped`: the feed starts
  the turn again and draws what is left of it.
- A stream that throws before its first event leaves "Not sent" under a message
  whose turn runs (`conversation.ts` 884); the feed then draws the turn a second
  time below it. A refused message itself goes from the screen when the settled
  read replaces a thread that has as many answers as the record.

*Session delete.*

- Between the two writes of `_session_strip` there is no vertex, and a heartbeat
  makes a bare one (5723).
- The retention sweep removes the marker after a purge that passed over a
  failure.

*Media jobs.*

- `place` saves a job it read before it drew, without the job's lock (16440): it
  can put a landed or failed job back to running. A second file, a third render
  or an unmetered one follow. A poll's save in between can lose the
  element's name.
- A pass that finds the vertex gone under the lock goes on with the row it had
  (15366), and saves it: a purged job comes back.
- Locks, budgets and stand-downs are in the process: two replicas can land and
  meter one job twice (15021 says exactly once).
- A job deleted while it runs is never metered; a job whose inline file was being
  stored when the process ended says running for ever; one whose provider was
  disconnected is put down every minute and does not age out (15401-15404), against
  "terminal or due later" (15441).
- A poll of vercel-video that answers base64 is always a failure (15427).
- Successful claims are not given back while the budget is shared, so with enough
  overlapping generate calls one is refused with "none of them delivered".
- `_media_job_save` reports usage before an upsert whose failure is swallowed (15014-
  15017, 6697-6710). After a lost save the next poll reports the job again, against
  "exactly once" (15021).
- Every place appends an element (16398-16419) and the job names the last one: an
  earlier one goes on saying that it renders.

## 5. Proofs

The constants' assumptions are the named `ASSUME`s of each module and no more:
any number of turns, requests, calls, cancels, versions, adoptions, events,
deletes, models, passes and places, pieces of text and messages without a turn,
any bound of faults and restarts, any chain and any ceilings, and for the lease any clock with `0 < Fresh <= TTL` and
`Fresh <= DocTTL`. What a theorem needs beyond them is in the last column.

| module | theorem | states | needs |
|---|---|---|---|
| `WorkspaceProofs` | `TypeCorrect` | `TypeOK` | |
| | `FencesAreUnique` | `FenceUnique` | `~EtagReuse` |
| | `FencedTurnsExclude` | `FencedExclusive` | `~EtagReuse` |
| | `CheckpointsOrdered` | `CheckpointsInOrder` | `~EtagReuse` |
| | `LeaseImplementsLock` | `LeaseIsFencedLock` | `~EtagReuse` |
| | `EnvTypeCorrect` | `EnvTypeOK` | |
| | `ActiveWhole` | `ActiveIsWhole` | |
| `TurnControlProofs` | `TypeCorrect` | `TypeOK` | |
| | `LatchWins` | `LatchedTurnNotCompleted` | |
| | `AgentEndsWithTurn` | `NoAgentLeftBehind` | |
| | `QuietSettled` | `QuietIsSettled` | |
| `ResponseAcceptProofs` | `TypeCorrect` | `TypeOK` | |
| | `OneRunPerKey` | `KeyRunsOnce` | |
| | `OneRunPerAnswer` | `OneAnswerPerAsking` | |
| | `NothingKept` | `FailedAcceptGivesBack` | |
| `RunnerTurnProofs` | `TypeCorrect` | `TypeOK` | |
| | `OneTurnForKey` | `OneTurnPerKey` | |
| | `NoStopLost` | `CancelledTurnIsStopped` | |
| `TraceHarvestProofs` | `TypeCorrect` | `TypeOK` | |
| | `TraceWhole` | `HarvestIsWhole` | |
| | `MeteredByOne` | `BilledOnce` | |
| | `LiveLeftAlone` | `LiveTurnNotSettled` | |
| `SessionDeleteProofs` | `TypeCorrect` | `TypeOK` | |
| | `MarkerLeavesNothing` | `NothingLeft` | |
| | `DeletedUnreadable` | `DeletedIsUnreadable` | |
| `EventFeedProofs` | `TypeCorrect` | `TypeOK` | |
| | `NoTurnDrawnTwice` | `TurnDrawnOnce` | |
| | `OwnAnswerShownWhole` | `OwnAnswerWhole` | |
| `MediaJobProofs` | `TypeCorrect` | `TypeOK` | |
| | `OneCeiling` | `RendersBounded` | |
| | `MeteredRight` | `MeteredOnce` | |
| | `OneFile` | `LandedOnce` | |
| | `ElementShowsOutcome` | `ClipShowsOutcome` | |

What the conditions say of the code:

- `~EtagReuse` is a property of the hosted store, whose etags never repeat. The
  SQLite store gives a document made anew the etag 1, so a compare-and-swap
  could succeed on another incarnation of the document; for this a store call
  would have to outlast the document's ttl, an hour at least.
- `NoAgentLeftBehind` speaks of a sandbox that answers (`~SandboxFaults` is its
  own premise). The exceptions of the other properties, named in section 3, are
  part of what is proved.

None of the properties is inductive. The strengthenings, which TLC also checked
on the runs' instances, are the contents of the proofs:

**SessionLease.** `FenceUnique` speaks of fences already returned, and what
keeps the next one different is the conditional write.

- `SnapOK`: while a write is pending, the snapshot is the document itself
  unless the etag has moved. This is what turns "the etag is the one I read" into
  "the document is the one I read".
- `AdmissionsPast`: no admission is later than the document's last one, so the
  fence a successful replace returns is new.
- `FencedPhases`, `ClockPast`: which phases have a fence and whose snapshot a
  renewal writes; a pending write's clock is not in the future.
- `Judged`: under `enforce`, the snapshot about to be replaced was found free
  of an active conflict by the turn's own clock. With `SnapOK` the
  replacement then takes the lease from nobody who holds it, which is the step
  of the refinement proof that matters: `Grant` requires a free lock.
- `ActiveHolds`: under `enforce`, a fenced turn at work whose lease never lapsed
  holds the document, fresh (`HoldsFresh`). Two turns at work then cannot both be of
  that kind, a document having one owner, and the earlier of the two is not: a holder's
  admission is the document's last one. That the invariant survives another turn's
  admission follows from `Judged`: a lease that is fresh now is an active conflict by
  any earlier clock too; that it survives time is what `lapsed` records.
- `SureHolds`, `SavedPast`: an upload that was not overtaken is of the document's last
  admission, and the stored checkpoint of no later one, so the upload is never earlier
  than what it replaces.

`StepKinds` names what writes the document; `DocGrows`, `SnapSource`, `FenceSource`,
`WorkerSource`, `SureSource` and `HolderWritesAlone` state once what a step may do to
the document, to a snapshot, to a fence, to the set of turns at work and to a holder's
lease; the preservation lemmas use them instead of going through every action again.

**TurnControl.** `CallInv` adds to the types that a cancel call that is about to
latch or store a response has read its record. `LatchInv`: a turn has an outcome
from the runner's last answer on and none before (`OutcomeDecided`), the latch is
one way (`EarlyLatched`), and completed is only what an agent that ended well
gives (`CompletedByAgent`). `AgentWithinTurn`: with a sandbox that answers, an
agent runs from POST /turn to the last poll. `SettledInv`: a turn that is over
has stored how (`DoneIsRecorded`), and a live session has a turn that still owes
it the stamp of its end, or one that failed (`LiveHasTurn`).

**ResponseAccept.** Who holds what, in three bookkeepings. `KeyInv`: until a
reservation is given back the first one stands, so whoever is past it is the one
it names (`FirstHolderStands`). `HolderInv`: whoever the reservation names
runs, may still run, or has it to give back (`HolderAccounted`), and nobody
else drops it between the read and the delete of a release (`DeletesOwn`).
`ClaimInv`: a question that reads answered was taken by somebody who has the
claim or left with it. `AnswerInv`: an answer goes on to its run only over its
claim (`AnswerPhases`), and claims in hand are counted (`ClaimsCounted`): one that the
question reads answered by, and one that its late setting, which comes once, left
standing, whatever caches hold.

**RunnerTurn.** `RegistryInv`: a turn's thread is started once by its own call, a
turn whose thread is at work is on record whatever is evicted (`OnRecord`), and
the record holds the process from its publication until it is closed
(`HandleHeld`). `KeyInv`: the turn a call was answered with stays the key's until its
record is dropped (`AnswerIsKeys`). `StopInv`: a cancel past its
mark has left it, and the CLI runs only between its spawn and the end of its
output; the two orders (publish, then look for the mark; mark, then look for
the process) then leave no gap.

**EnvironmentBuild.** `RangeInv` adds to the types that a build and the calls
around it name a version. `VersionInv`, with calls that overlap as they like: a version
under construction is not said to be finished (`UnderWay`), a finished build has its
files (`ReadyIsWhole`), an activation points at a finished build (`ActivatesReady`),
and what is being built for the first time is not active before it is pointed at, nor
what was active before it unsound (`BuildNotActive`); each but for versions built
again.

**TraceHarvest.** `HarvestInv`: a cursor counts what is in the trace
(`CursorsWritten`), whoever saw the end has asked for all events and the runner
makes no more (`EndSeen`), and has them in the trace once they are written
(`EndWritten`). `MeterInv`: a fence is one harvester's (`FencesDiffer`); who is about
to report for certain still has it, although others were admitted since its look,
because an adopter of a turn that is over is `overtaken` (`CheckedHolds`); and once
usage is reported the turn is over and who holds the fence has reported
(`ReportIsLast`), so nobody else does (`BilledAlone`). `LiveInv`: nobody looks into a turn whose owner has
beaten in time (`LeftAlone`).

**SessionDelete.** `MarkerInv`: a marker of age is the session's last word,
nothing under way can write a status or store anything (`DueIsBuried`), so what
the sweep purges stays purged (`PurgedStaysEmpty`). `TombstoneStands`: from the
answer of a delete on the tombstone stands, was removed in time, or is about to
be written again.

**EventFeed.** `FeedInv` puts together who may write and what may still come.
`TypeInv`: beside the types, a read that has the last turn over was made when it
was (`ReadsHold`), and what has been said of a turn goes with its stage (`Phase`).
`Hands`: a stream that is read owns the thread, a running answer keeps it busy.
`BusOfTurn`: what is on the bus is of the last turn or an earlier one, and the last
one's end is not there before it has ended. The rest is kept until the thread has
`strayed`. `TurnsInv`: turns are drawn in their order (`Order`), and one that is drawn
and not the one being drawn is either no later than the last response the tab holds,
which `ApplyStart` and `Late` look at, or nothing can still come of it (`Drawn`, by
`Clear`); this and not the property is what keeps a late start from drawing a turn
twice. `Opening` excludes that the read of the opened task takes such a turn away
again. `PostInv`: a stream is of its answer's turn and begins with the start
(`PostOfAnswer`, `StartFirst`); the stream of the turn at work holds exactly what was
said and not read, and the answer is what was read (`PostOfTurn`). `OwnWhole`: once no
stream and no repair is owed, the answer is over and whole. What the operators make of a
thread (`WithTail`, `Answers`, `WithLast`, what `Busy` may change) is stated once in
lemmas; the preservation proofs cite them. The proof of `OwnAnswerWhole` without
`dropped` fails at `SettleApply`, and on an instance with three turns TLC shows why
(section 4).

**MediaJob.** The invariant is in three stages. `WorkInv` says who works on what:
`TypedInv` (a job that runs has a model, and a worker's copy and its place fit its
phase), `OneAtWork` (a job has at most one worker that buys or lands: its own
call, then the pass that has its lock) and `BudgetCovers`: a budget's count covers
what the calls that share it have bought and are buying. Those purchases are a
set of pairs, `OnBudget`, and the proof follows how it grows and shrinks with each
step; the ceiling then follows, a job's renders injecting into that set.
`BooksInv` says what the books are: `Fresh`, a worker's copy has the record's
last state unless another step has made it stale, and `Books`, which relates
`bought`, `reported` and `landed` to the copy at work or to the record: what is
banked is all that was bought (`Banking`) or all but the render under way
(`Pending`), it was bought from models in `tried`, and a terminal record has
reported it. A save that is lost leaves the record and makes the job torn and the copy
stale (`LostSave`, `LostEffect`). Ceiling, metering and landing are read off it. `ClipInv` says what is
on the canvas for a job no step of which was torn or blurred (`ElementBooks`): an
element bears the name the record knows, or place is about to write it down
(`Naming`); and once the job is over, the element shows how it ended, or place
has an old copy, whose save is the write the property excepts (`Replacing`), or
whoever saved the end knows the element and is drawing it (`Drawing`). Without the
last two the invariant is not inductive: between the save of an end and its
drawing, and between place's drawing and the write of the name, the element is
rightly behind. Each action has a
lemma that states its whole effect on its worker (`...Does`), in the terms
`SaveEffect`, `LeaveEffect`, `BillEffect`, `Moves`; the preservation proofs cite
these and never the actions.

**Only model-checked.**

- Liveness (`CancelStopsAgent`, `StartedTurnEnds`, `BuildingEnds`, `TurnEnds`,
  `DeletedGoes`, `OwnEndSeen`, `JobEnds`), which the prover does not handle.

None of the specifications declares a `RECURSIVE` operator.

## 6. What is not modelled

- *Inside modelled components.* The workspace archive (`_checkpoint_relay`,
  `_hydrate_relay`) is one step that lands or fails. `lease_acquire` has no
  caller in the turn's path. A turn is served by one connection; failover
  between connections and the produced files are left out of `TurnControl`.
  Request validation and session resolution, the replay's polling
  and the reservation's TTL are left out of `ResponseAccept`. The Codex
  app-server and Hermes threads and GET /turn are left out of `RunnerTurn`.
  Builds that do not activate (no gateway handler asks for one), source files
  and the retention sweep are left out of `EnvironmentBuild`. What the other four
  leave out is said with each in section 2.
- *Store faults.* In `ResponseAccept` a store call that fails has no effect.
  `_retryable` repeats a create whose reply was lost, and would then find its own
  document; the retry is planned as a step of its own.
- *Slots, gates, locks and the API-key cache.* Planned, section 7.
- *CRUD planes* (harnesses, vault, connections, integrations, policies): one
  document read and written; no protocol. They are the larger part of `app.py`
  by lines.
- *Relays and brokers* (workspace files, plugs, browser, setup, model relay):
  bytes and calls passed to outside services.
- *CLI drivers and normalisers*, the larger part of `runner/server.py`:
  translations of third-party output line by line. What the rest needs of them
  (they end, fail or raise) is in `RunnerTurn`.
- *Console views, packaging, protocol documents and conformance suite*:
  presentation, start-up, text and tests.

The map therefore stands on the parts of the source that hold the protocols, a
small share of its lines. Most of the rest has no state that two actors share; a
module of it would repeat assignments.

## 7. Plan

In order of importance:

1. `ApiKeyCache`: the backfill of `_apikey_resolve` (`app.py` 10041-10073)
   against a revocation (`control_store.py` 515-606).
2. The lost reply of `_retryable` as a step of `ResponseAccept`, and a run of
   `SessionLease` with `EtagReuse`.
3. `TurnSlot`: slots, tenant gates and their queues; the workspace change lock
   of the file API against a turn that starts.
4. `EventFeed`: a viewer's repair of text; `MediaJob`: the export, two
   replicas.
5. `FencedLock` composed with `TurnControl`, so that `Overlap` is what the lease's
   mode allows rather than a constant, and with `TraceHarvest`, whose `lease` it
   abstracts.

Theorems: those of the new modules. What is left of the present ones is liveness.

New runs will take the place of the smaller disagreement runs or join existing
ones, so that the set stays one run per question.
