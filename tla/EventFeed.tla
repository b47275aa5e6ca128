----------------------------- MODULE EventFeed -----------------------------
(***************************************************************************)
(* How a turn reaches a console tab: the gateway's event bus (app.py:      *)
(* _bus_publish, _redis_pump, _redis_listen, _bus_deliver and the feed     *)
(* GET /v1/harnesses/{id}/events), the stream of the POST that sent the    *)
(* turn, and the session's record, as ui/src/lib/conversation.ts draws     *)
(* them: applyBusEvent, the read of an opened task, settleFromRecord, the  *)
(* end of send and the settled read.                                       *)
(*                                                                         *)
(* One session, one tab.  A turn says its start (event 0), Text pieces of  *)
(* answer and its end (Text + 1).  An answer's text is the sequence of the *)
(* pieces drawn into it.  The tab either sends a turn itself, and draws it *)
(* from its POST stream, or watches one somebody else sent.                *)
(*                                                                         *)
(* Left out: the replay buffers, whose frames the tab does not draw;       *)
(* _xreplica_tail, whose every pass raises a TypeError that is swallowed   *)
(* (it calls list_traces without its request); the tab leaving the task    *)
(* and coming back while its own stream runs.  A React effect runs with    *)
(* the change of state it watches.                                         *)
(***************************************************************************)
EXTENDS Integers, Sequences, SequencesExt

CONSTANTS
  Turns,     \* bound: turns of the session
  Text,      \* bound: pieces of text in a turn's answer
  AtHome,    \* TRUE: the feed's replica is the one that runs the turns
  Tries,     \* reads of one settleSoon
  MaxLag,    \* bound: events of earlier turns on the bus when a turn is accepted
  MaxFaults  \* bound: what the bus loses (full queues, lost connections, failed
             \* publishes) and messages that end before the tab has heard of a turn;
             \* the stream of one that it has heard of may always break

ASSUME BoundsAssumption ==
  /\ Turns \in Nat /\ Text \in Nat /\ MaxFaults \in Nat /\ MaxLag \in Nat
  /\ Tries \in Nat \ {0} /\ AtHome \in BOOLEAN

VARIABLES
  turn,      \* the session's turns so far; the last one may run
  stage,     \* what has happened to the last one
  said,      \* events it has published
  mine,      \* the last turn, when this tab sent it and knows that it runs
  pump,      \* _redis_out of the replica that runs the turns
  wire,      \* published to Redis, on the way to the feed's replica
  listening, \* the feed's replica is subscribed
  feed,      \* the tab's feed is connected
  queue,     \* events in the feed
  post,      \* events in the POST's stream
  posting,   \* the tab reads a POST's stream
  load,      \* the read of the opened task: where it stands, what it read
  thread,    \* the answers drawn, oldest first
  busy,      \* the thread waits for an end
  prevId,    \* the last response the tab holds
  suppress,  \* _busSuppress holds the session
  gapped,    \* _gapped holds the session
  tries,     \* reads left of settleSoon
  got,       \* what settleFromRecord has read and not used yet
  due,       \* the settled read is running
  folded,    \* answers for which a settled read was begun
  watch,     \* the workspace watch: not on, first read due, on
  seenEnd,   \* the turn whose end the watch's last read saw, or 0
  dropped,   \* history: the last turn, when a read older than it settled the thread
  strayed,   \* history: an event of an earlier turn than one drawn or ended here
             \* has changed the thread
  faults     \* faults so far

gateway == <<turn, stage, said>>
own == <<mine, dropped, strayed>>
bus == <<pump, wire, listening>>
reads == <<load, tries, got, due, folded, watch, seenEnd>>
drawn == <<thread, busy, prevId, suppress, gapped>>
vars == <<gateway, own, bus, feed, queue, post, posting, reads, drawn, faults>>
-----------------------------------------------------------------------------
Event == [t : 1 .. Turns, e : 0 .. Text + 1]
Piece == [t : 1 .. Turns, e : 1 .. Text]
\* An answer of turn 0 belongs to a message that no turn was heard of for.
Answer == [t : 0 .. Turns, st : {"running", "done", "failed"}, text : Seq(Piece)]
Nothing == [n |-> 0, ended |-> FALSE, text |-> 0]

Ended == stage \in {"ended", "told", "recorded"}

\* GET /v1/sessions/{sid}/turns: the last turn's status from the session's
\* vertex, and k pieces of it while it runs (the trace trails what was said).
TurnsRead(k) == [n |-> turn, ended |-> turn = 0 \/ Ended, text |-> k]

Pieces(t, k) == [i \in 1 .. k |-> [t |-> t, e |-> i]]
Whole(t) == Pieces(t, Text)

Begun(t) == [t |-> t, st |-> "running", text |-> <<>>]
Settled(t) == [t |-> t, st |-> "done", text |-> Whole(t)]
NotSent == [t |-> 0, st |-> "failed", text |-> <<>>]

\* msgsFromTurns.
Answers(v) ==
  [i \in 1 .. v.n |->
     IF i = v.n /\ ~v.ended
     THEN [t |-> i, st |-> "running", text |-> Pieces(i, v.text)]
     ELSE Settled(i)]

\* keepUnrecordedTail: a finished answer the server does not hold stays.
WithTail(server, local) ==
  IF Len(local) <= Len(server) \/ Last(local).st = "running" THEN server
  ELSE server \o SubSeq(local, Len(server) + 1, Len(local))

Running(th) == th # <<>> /\ Last(th).st = "running"
WithLast(th, a) == ReplaceAt(th, Len(th), a)
Draw(th, m) == WithLast(th, [Last(th) EXCEPT !.text = Append(@, m)])
\* Mutant: the record's word for a finished turn.
FinishedWord(th) == IF th = <<>> THEN th ELSE WithLast(th, [Last(th) EXCEPT !.st = "completed"])

Finished(th) == IF th = <<>> THEN th ELSE WithLast(th, [Last(th) EXCEPT !.st = "done"])
-----------------------------------------------------------------------------
Init ==
  /\ turn = 0 /\ stage = "recorded" /\ said = 0 /\ mine = {}
  /\ pump = <<>> /\ wire = <<>> /\ listening = TRUE
  /\ feed = FALSE /\ queue = <<>> /\ post = <<>> /\ posting = FALSE
  /\ load = [at |-> "opened", read |-> Nothing]
  /\ thread = <<>> /\ busy = FALSE /\ prevId = 0
  /\ suppress = FALSE /\ gapped = FALSE
  /\ tries = 0 /\ got = Nothing /\ due = FALSE /\ folded = {}
  /\ watch = "off" /\ seenEnd = 0 /\ dropped = {} /\ strayed = FALSE
  /\ faults = 0

Fault == faults < MaxFaults /\ faults' = faults + 1

(* The bus.  Its queues are shared with every turn of the replica and every *)
(* session of the setup, so one of them may be full at any time.           *)

\* _bus_deliver, for the tab's feed.
Delivered(m) == IF feed THEN Append(queue, m) ELSE queue

\* The same on this replica, which may not be the feed's.
DeliveredHere(m) == IF AtHome THEN Delivered(m) ELSE queue

\* _bus_publish: to the pump; past a full pump, to this replica's own feeds.
Publish(m) ==
  \/ pump' = Append(pump, m) /\ UNCHANGED <<queue, faults>>
  \/ Fault /\ queue' = DeliveredHere(m) /\ UNCHANGED pump

\* _redis_pump.
Pump ==
  /\ pump # <<>>
  /\ pump' = Tail(pump)
  /\ wire' = IF listening THEN Append(wire, Head(pump)) ELSE wire
  /\ UNCHANGED <<gateway, own, listening, feed, queue, post, posting,
                 reads, drawn, faults>>

\* The publish fails, or only its answer is lost: delivered here as well.
PumpFails ==
  /\ pump # <<>>
  /\ Fault
  /\ pump' = Tail(pump)
  /\ \/ UNCHANGED wire
     \/ listening /\ wire' = Append(wire, Head(pump))
  /\ queue' = DeliveredHere(Head(pump))
  /\ UNCHANGED <<gateway, own, listening, feed, post, posting, reads, drawn>>

\* _redis_listen.
Hear ==
  /\ wire # <<>>
  /\ wire' = Tail(wire)
  /\ queue' = Delivered(Head(wire))
  /\ UNCHANGED <<gateway, own, pump, listening, feed, post, posting,
                 reads, drawn, faults>>

\* The feed's queue is full: the event is dropped.
QueueFull ==
  /\ wire # <<>> /\ feed
  /\ Fault
  /\ wire' = Tail(wire)
  /\ UNCHANGED <<gateway, own, pump, listening, feed, queue, post, posting,
                 reads, drawn>>

ListenLost ==
  /\ listening
  /\ Fault
  /\ listening' = FALSE
  /\ wire' = <<>>
  /\ UNCHANGED <<gateway, own, pump, feed, queue, post, posting, reads, drawn>>

ListenAgain ==
  /\ ~listening
  /\ listening' = TRUE
  /\ UNCHANGED <<gateway, own, pump, wire, feed, queue, post, posting,
                 reads, drawn, faults>>

(* The turn, as the replica that runs it writes and says it. *)

\* Everything said has arrived, and nothing more will be said of the turn.
Quiet == stage = "recorded" /\ pump = <<>> /\ wire = <<>> /\ queue = <<>>

\* The accept, once the last turn has left its slot (_turn_slot); the bus may still
\* hold what that turn said.
Accept ==
  /\ stage = "recorded" /\ turn < Turns
  /\ Len(pump) + Len(wire) + Len(queue) <= MaxLag
  /\ turn' = turn + 1 /\ stage' = "running" /\ said' = 0
  /\ dropped' = {}

\* Another client sends a turn.
SendElsewhere ==
  /\ Accept
  /\ mine' = {}
  /\ UNCHANGED <<strayed, bus, feed, queue, post, posting, reads, drawn, faults>>

\* The POST's stream is of the turn of the last answer, which another client's turn
\* may follow before the tab has read it to the end.
Streaming == posting /\ Last(thread).t = turn

\* emit: to the POST's stream, and to the bus.
Emit(k) ==
  /\ said' = said + 1
  /\ post' = IF Streaming THEN Append(post, [t |-> turn, e |-> k]) ELSE post
  /\ Publish([t |-> turn, e |-> k])
  /\ UNCHANGED <<turn, own, wire, listening, feed, posting,
                 reads, drawn>>

Say == stage = "running" /\ said <= Text /\ Emit(said) /\ UNCHANGED stage

\* The last flush, the session's vertex terminal and its card rewritten
\* (_trace_finalize).  TIMING: a turn outlasts the first read of the watch
\* on it, and a read of the opened task made before the turn was accepted.
Finish ==
  /\ stage = "running" /\ said = Text + 1
  /\ watch # "first"
  /\ load.at = "reading" => load.read.n = turn
  /\ stage' = "ended"
  /\ UNCHANGED <<turn, said, own, bus, feed, queue, post, posting, reads,
                 drawn, faults>>

SayEnd == stage = "ended" /\ Emit(Text + 1) /\ stage' = "told"

\* persist: the record with completed_at.
Persist ==
  /\ stage = "told"
  /\ stage' = "recorded"
  /\ UNCHANGED <<turn, said, own, bus, feed, queue, post, posting,
                 reads, drawn, faults>>
-----------------------------------------------------------------------------
(* What follows from `busy` (the effects on it), for a thread th. *)

\* settleSoon's loop ends with `busy`; n asks for n more reads.
Busy(b, th, n) ==
  /\ thread' = th
  /\ busy' = b
  /\ tries' = IF b THEN n ELSE 0
  /\ watch' = IF ~b THEN "off" ELSE IF busy THEN watch ELSE "first"
  /\ seenEnd' = IF b /\ busy THEN seenEnd ELSE 0
  /\ due' = (~b /\ (due \/ (busy /\ th # <<>> /\ ~Running(th) /\ Len(th) \notin folded)))
  /\ folded' = IF ~b /\ busy /\ th # <<>> /\ ~Running(th) THEN folded \cup {Len(th)}
               ELSE folded

Same(th) == Busy(busy, th, tries)

\* Mutant: nobody asks for a read.
SettleNever(n) == 0

\* settleSoon(n reads); a read already under way is an earlier call's.
SettleSoon(n) ==
  LET m == n + (IF got = Nothing THEN 0 ELSE 1) IN IF tries < m THEN m ELSE tries

(* The tab's feed. *)

\* subscribeHarnessEvents: 'up' has a busy conversation read its record once.
Connect ==
  /\ ~feed
  /\ feed' = TRUE
  /\ queue' = <<>>
  /\ tries' = IF busy THEN SettleSoon(1) ELSE tries
  /\ UNCHANGED <<gateway, own, bus, post, posting, load, got, due, folded, watch,
                 seenEnd, drawn, faults>>

FeedLost ==
  /\ feed
  /\ Fault
  /\ feed' = FALSE
  /\ queue' = <<>>
  /\ UNCHANGED <<gateway, own, bus, post, posting, reads, drawn>>

\* Mutant: a start is drawn whenever no answer runs.
StartDrawn(m) ==
  /\ IF Running(thread) THEN Same(thread)
     ELSE Busy(TRUE, Append(thread, Begun(m.t)), tries)
  /\ UNCHANGED prevId

\* A start: not of a turn already finished here, nor over a running answer.
ApplyStart(m) ==
  /\ IF prevId = m.t \/ Running(thread) THEN Same(thread)
     ELSE Busy(TRUE, Append(thread, Begun(m.t)), tries)
  /\ UNCHANGED prevId

\* Mutant: onto a settled answer too.
TextAppended(m) ==
  /\ Same(IF thread # <<>> THEN Draw(thread, m) ELSE thread)
  /\ UNCHANGED prevId

\* busAppend: only into an answer still being drawn.
ApplyText(m) ==
  /\ Same(IF Running(thread) THEN Draw(thread, m) ELSE thread)
  /\ UNCHANGED prevId

ApplyEnd(m) == Busy(FALSE, Finished(thread), 0) /\ prevId' = m.t

\* A later turn than the event's is drawn already, or has ended here.
Late(m) == prevId > m.t \/ \E i \in 1 .. Len(thread) : thread[i].t > m.t

\* applyBusEvent; not while this tab's POST stream owns the turn.  Only a start looks
\* at the turn it is of.
ApplyBusEvent ==
  /\ queue # <<>>
  /\ queue' = Tail(queue)
  /\ LET m == Head(queue) IN
       \/ suppress /\ UNCHANGED <<drawn, reads, strayed>>
       \/ /\ ~suppress
          /\ \/ m.e = 0 /\ ApplyStart(m)
             \/ m.e \in 1 .. Text /\ ApplyText(m)
             \/ m.e = Text + 1 /\ ApplyEnd(m)
          /\ strayed' = (strayed \/ (Late(m) /\ <<thread, busy, prevId>>' # <<thread, busy, prevId>>))
          /\ UNCHANGED <<suppress, gapped, load, got>>
  /\ UNCHANGED <<gateway, mine, dropped, bus, feed, post, posting, faults>>

(* The tab's own turn. *)

\* send, once the task is loaded, of a message that turn t will answer.
PutMessage(t) ==
  /\ load.at = "done" /\ ~busy /\ ~posting
  /\ Busy(TRUE, Append(thread, Begun(t)), 0)
  /\ suppress' = TRUE
  /\ posting' = TRUE /\ post' = <<>>

Send ==
  /\ Accept
  /\ PutMessage(turn + 1)
  /\ mine' = {turn + 1}
  /\ UNCHANGED <<strayed, bus, feed, queue, load, got, prevId, gapped, faults>>

\* A message that the server refuses (a cap, another turn at work, an error).
SendInVain ==
  /\ Fault
  /\ PutMessage(0)
  /\ UNCHANGED <<gateway, own, bus, feed, queue, load, got, prevId, gapped>>

\* streamResponse's handlers (updateLast asks nothing of the answer).
ReadPost ==
  /\ posting /\ post # <<>>
  /\ post' = Tail(post)
  /\ LET m == Head(post) IN
       /\ Same(CASE m.e = 0 -> thread
                 [] m.e \in 1 .. Text -> Draw(thread, m)
                 [] OTHER -> Finished(thread))
       /\ prevId' = IF m.e = 0 THEN m.t ELSE prevId
  /\ UNCHANGED <<gateway, own, bus, feed, queue, posting, load, got, suppress,
                 gapped, faults>>

\* The tab has read the stream's first event (`started`), which sets prevId.
Started == Last(thread).t # 0 /\ prevId = Last(thread).t

\* The end of send.
PostOver ==
  /\ posting' = FALSE /\ post' = <<>>
  /\ suppress' = FALSE
  /\ UNCHANGED <<gateway, bus, feed, queue, load, got, prevId>>

\* An answer still running is the feed's and the record's.
PostLeft ==
  /\ PostOver
  /\ IF Running(thread)
     THEN gapped' = TRUE /\ Busy(TRUE, thread, SettleSoon(Tries))
     ELSE UNCHANGED gapped /\ Busy(FALSE, thread, 0)
  /\ UNCHANGED <<own, faults>>

PostEnds ==
  /\ posting /\ post = <<>> /\ Last(thread).t # 0
  /\ Streaming => stage = "recorded"
  /\ PostLeft

PostLost == posting /\ Last(thread).t # 0 /\ PostLeft

\* A refusal, or a stream that throws before its first event, whose turn runs all the
\* same: the message stays, as one that was not sent.
PostUnsent ==
  /\ posting /\ ~Started
  /\ \/ Last(thread).t = 0 /\ UNCHANGED faults
     \/ Last(thread).t # 0 /\ Fault
  /\ PostOver
  /\ mine' = mine \ {Last(thread).t}
  /\ Busy(FALSE, WithLast(thread, NotSent), 0)
  /\ UNCHANGED <<dropped, strayed, gapped>>
-----------------------------------------------------------------------------
(* The reads of the record. *)

\* Opening the task: the read, and what is made of it when it arrives.
LoadRead ==
  /\ load.at = "opened"
  /\ \E k \in {0} \cup 1 .. said - 1 :
       load' = [at |-> "reading", read |-> TurnsRead(IF Ended THEN 0 ELSE k)]
  /\ UNCHANGED <<gateway, own, bus, feed, queue, post, posting, tries, got, due,
                 folded, watch, seenEnd, drawn, faults>>

LoadApply ==
  /\ load.at = "reading"
  /\ load' = [at |-> "done", read |-> Nothing]
  /\ LET v == load.read IN
       \/ /\ v.ended
          /\ Busy(FALSE, WithTail(Answers(v), thread), 0) /\ prevId' = v.n
       \/ /\ ~v.ended /\ thread = <<>>
          /\ Busy(TRUE, Answers(v), tries) /\ prevId' = v.n
       \/ /\ ~v.ended /\ thread # <<>>
          /\ Same(thread) /\ UNCHANGED prevId
  /\ UNCHANGED <<gateway, own, bus, feed, queue, post, posting, got, suppress,
                 gapped, faults>>

\* settleFromRecord, up to its await; a send in progress owns its turn.
SettleRead ==
  /\ tries > 0 /\ got = Nothing
  /\ IF posting THEN tries' = 0 /\ UNCHANGED got
     ELSE got' = TurnsRead(0) /\ UNCHANGED tries
  /\ UNCHANGED <<gateway, own, bus, feed, queue, post, posting, load, due, folded,
                 watch, seenEnd, drawn, faults>>

\* 'behind': the record does not hold the last turn shown here yet.
Behind(v) == v.n = 0 \/ v.n < Len(thread)

\* settleFromRecord, after its await.
SettleApply ==
  /\ got # Nothing
  /\ got' = Nothing
  /\ \/ posting /\ Busy(busy, thread, 0) /\ UNCHANGED <<prevId, suppress, gapped, dropped>>
     \/ /\ ~posting /\ (Behind(got) \/ ~got.ended)
        /\ Busy(busy, thread, IF tries > 0 THEN tries - 1 ELSE 0)
        /\ UNCHANGED <<prevId, suppress, gapped, dropped>>
     \/ /\ ~posting /\ ~Behind(got) /\ got.ended
        /\ Busy(FALSE, WithTail(Answers(got), thread), 0)
        /\ prevId' = got.n /\ suppress' = FALSE /\ gapped' = FALSE
        /\ dropped' = IF got.n < turn THEN {turn} ELSE dropped
  /\ UNCHANGED <<gateway, mine, strayed, bus, feed, queue, post, posting, load, faults>>

\* The settled read of an idle thread: the figures, and the whole answer
\* after a broken stream when the thread has as many answers as the record.
\* TIMING: the record has its figures later after the turn's end than the bus lags.
Fold ==
  /\ due /\ Quiet /\ turn >= Len(thread)
  /\ due' = FALSE
  /\ gapped' = FALSE
  /\ thread' = IF gapped /\ turn = Len(thread) THEN [i \in 1 .. turn |-> Settled(i)] ELSE thread
  /\ UNCHANGED <<gateway, own, bus, feed, queue, post, posting, load, tries, got,
                 folded, watch, seenEnd, busy, prevId, suppress, faults>>

\* framesBetween: an end the watch's last read had not seen.
EndFrame == watch = "on" /\ Ended /\ seenEnd # turn

\* A read of the workspace watch: an end frame has the conversation settle.
WatchRead ==
  /\ watch # "off"
  /\ watch' = "on"
  /\ seenEnd' = IF Ended THEN turn ELSE 0
  /\ <<watch, seenEnd>>' # <<watch, seenEnd>>
  /\ tries' = IF EndFrame THEN SettleSoon(Tries) ELSE tries
  /\ UNCHANGED <<gateway, own, bus, feed, queue, post, posting, load, got, due,
                 folded, drawn, faults>>
-----------------------------------------------------------------------------
Turn == SendElsewhere \/ Say \/ Finish \/ SayEnd \/ Persist
Bus == Pump \/ Hear \/ ListenAgain
Tab == Connect \/ ApplyBusEvent \/ ReadPost \/ PostEnds
       \/ LoadRead \/ LoadApply \/ SettleRead \/ SettleApply \/ Fold \/ WatchRead
Faults == PumpFails \/ QueueFull \/ ListenLost \/ FeedLost \/ PostLost \/ PostUnsent

Next == Turn \/ Bus \/ Tab \/ Send \/ SendInVain \/ Faults

Spec == Init /\ [][Next]_vars

\* What nobody has to decide and nothing has to break.
GoesOn ==
  \/ Say \/ Finish \/ SayEnd \/ Persist \/ Bus \/ Tab
  \/ posting /\ Last(thread).t = 0 /\ PostUnsent

\* A turn that runs ends and is stored; what is queued is delivered; the tab
\* connects again, reads what it receives and repeats its reads: no step of these
\* can be repeated for ever, so that one of them goes on is all it takes.  Nobody
\* has to send a turn.
FairSpec == Spec /\ WF_vars(GoesOn)
-----------------------------------------------------------------------------
TypeOK ==
  /\ turn \in 0 .. Turns /\ said \in 0 .. Text + 2
  /\ stage \in {"running", "ended", "told", "recorded"}
  /\ mine \cup dropped \subseteq 1 .. turn
  /\ pump \in Seq(Event) /\ wire \in Seq(Event) /\ queue \in Seq(Event) /\ post \in Seq(Event)
  /\ listening \in BOOLEAN /\ feed \in BOOLEAN /\ posting \in BOOLEAN /\ busy \in BOOLEAN
  /\ suppress \in BOOLEAN /\ gapped \in BOOLEAN /\ due \in BOOLEAN
  /\ load.at \in {"opened", "reading", "done"}
  /\ thread \in Seq(Answer)
  /\ prevId \in 0 .. Turns /\ seenEnd \in 0 .. Turns
  /\ tries \in 0 .. Tries + 1 /\ watch \in {"off", "first", "on"}
  /\ faults \in 0 .. MaxFaults /\ strayed \in BOOLEAN

HoldsTurns == Len(thread) = turn /\ \A i \in 1 .. turn : thread[i].t # 0

\* A turn the tab sent itself is shown whole, each piece once and in order,
\* whenever the tab is idle and owes it no repair: whatever was drawn from
\* the stream, from the feed after the stream broke, and from the record.
\* The repair asks that the thread hold the session's turns and no others; and no
\* read made before the turn was sent must have settled the thread for it.
OwnAnswerWhole ==
  (~strayed /\ turn \in mine \ dropped /\ Ended /\ ~busy /\ ~gapped /\ HoldsTurns)
    => \E i \in 1 .. turn : thread[i].t = turn /\ thread[i].text = Whole(turn)

\* No turn is drawn as two answers, though its start may come from the feed,
\* from the record and from the tab's own send.
TurnDrawnOnce ==
  ~strayed =>
  \A i, j \in 1 .. Len(thread) : thread[i].t = thread[j].t /\ thread[i].t # 0 => i = j

\* The end of a turn the tab sent is seen, whatever connections break: by its
\* stream, by the feed, or by the watch and the record, which takes a thread with
\* no more answers than the session has turns.
OwnEndSeen == (turn \in mine /\ Ended /\ Len(thread) <= turn) ~> (~busy \/ strayed)
=============================================================================
