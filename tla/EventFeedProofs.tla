-------------------------- MODULE EventFeedProofs --------------------------
(***************************************************************************)
(* The console's thread for any number of turns, pieces, faults and        *)
(* messages that come to nothing: as long as no event of an earlier turn   *)
(* strays into the thread, no turn is drawn twice, and a turn that the tab *)
(* sent itself is shown whole.                                             *)
(***************************************************************************)
EXTENDS EventFeed, SequenceTheorems, TLAPS

\* What a read of the record may hold.
ReadOf == [n : 0 .. turn, ended : BOOLEAN, text : 0 .. Text]

\* A read that has the last turn over was made when it was.
ReadsHold ==
  /\ load \in [at : {"opened", "reading", "done"}, read : ReadOf]
  /\ got \in ReadOf
  /\ \A v \in {load.read, got} : v.ended /\ v.n = turn => turn = 0 \/ Ended

\* What has been said of the turn, by its stage.
Phase ==
  /\ turn = 0 => stage = "recorded"
  /\ stage = "running" => said <= Text + 1
  /\ stage = "ended" => said = Text + 1
  /\ stage \in {"told", "recorded"} /\ turn > 0 => said = Text + 2

TypeInv == TypeOK /\ ReadsHold /\ Phase

\* Who may write to the thread: a stream that is read owns it, an answer that runs
\* keeps it busy, and no message is sent before the task is loaded.
Hands ==
  /\ suppress = posting
  /\ posting => busy /\ thread # <<>>
  /\ Running(thread) => busy
  /\ due => ~busy
  /\ load.at # "done" => ~posting /\ mine = {}

\* Whatever is on the bus is of a turn there is, the last one's end only once it has
\* ended.
OfTurn(m) == m.t <= turn /\ (m.t = turn /\ m.e = Text + 1 => stage # "running")
AllOfTurn(s) == \A i \in 1 .. Len(s) : OfTurn(s[i])
BusOfTurn == AllOfTurn(pump) /\ AllOfTurn(wire) /\ AllOfTurn(queue)

\* The turns are drawn in their order, none twice.
Ordered(th) ==
  /\ \A i \in 1 .. Len(th) : th[i].t <= turn
  /\ \A i, j \in 1 .. Len(th) : i < j /\ th[j].t # 0 => th[i].t < th[j].t
Order == prevId <= turn /\ Ordered(thread)

\* Until the task is loaded no answer stands for nothing, and a read older than the
\* turn finds it running and unseen.
Opening ==
  /\ load.at # "done" => \A i \in 1 .. Len(thread) : thread[i].t >= i
  /\ load.at = "reading" /\ load.read.n < turn =>
       stage = "running" /\ prevId < turn /\ turn <= load.read.n + 1

Holds(th) == \E i \in 1 .. Len(th) : th[i].t = turn
Shown == Holds(thread)

\* Nothing of turn t is on the bus, and nothing more of it will be said.
NoneOf(q, t) == \A i \in 1 .. Len(q) : q[i].t # t
Clear(t) ==
  /\ t < turn \/ stage = "recorded"
  /\ NoneOf(pump, t) /\ NoneOf(wire, t) /\ NoneOf(queue, t)

\* A turn that is drawn and not the one being drawn is not started again by the feed.
Drawn ==
  \A i \in 1 .. Len(thread) :
    thread[i].t > 0 /\ ~(Running(thread) /\ i = Len(thread)) =>
      prevId >= thread[i].t \/ Clear(thread[i].t)

\* A stream is of the last answer's turn.
PostOfAnswer ==
  \A i \in 1 .. Len(post) : posting /\ post[i].t = Last(thread).t

\* The start comes first in a stream, and is read before anything else of it.
StartFirst ==
  posting =>
    /\ \A i \in 1 .. Len(post) : i > 1 => post[i].e > 0
    /\ post # <<>> /\ post[1].e > 0 => prevId = Last(thread).t

\* Events of the turn's stream that the tab has read, and the answer they make.
Read == said - Len(post)
Reached == IF Read = 0 THEN 0 ELSE IF Read = Text + 2 THEN Text ELSE Read - 1

\* The stream of the turn at work holds what was said and is not read yet, and the
\* answer is what has been read.
PostOfTurn ==
  posting /\ turn > 0 /\ Last(thread).t = turn =>
    /\ Read >= 0
    /\ \A i \in 1 .. Len(post) : post[i].e = Read + i - 1
    /\ Read > 0 => prevId = turn
    /\ Last(thread).text = Pieces(turn, Reached)
    /\ Last(thread).st = IF Read = Text + 2 THEN "done" ELSE "running"

Own == turn \in mine \ dropped

\* A turn of the tab's own is in the thread, and whole once no stream and no repair
\* is still owed to it.
OwnShown == Own => Shown
OwnWhole ==
  Own /\ ~posting /\ ~gapped /\ HoldsTurns =>
    Last(thread).st # "running" /\ Last(thread).text = Whole(turn)

TurnsInv == Order /\ Opening /\ Drawn /\ OwnShown
PostInv == PostOfAnswer /\ StartFirst /\ PostOfTurn
FeedInv ==
  /\ TypeInv /\ Hands /\ BusOfTurn
  /\ ~strayed => TurnsInv /\ PostInv /\ OwnWhole
-----------------------------------------------------------------------------
(* What the model's operators make of a thread. *)

\* Pieces counts a turn's pieces from the first.
LEMMA PiecesAre ==
  ASSUME NEW t \in 1 .. Turns, NEW k \in 0 .. Text
  PROVE  Pieces(t, k) \in Seq(Piece) /\ Len(Pieces(t, k)) = k
<1>1. Pieces(t, k) \in [1 .. k -> Piece]
  BY BoundsAssumption DEF Pieces, Piece
<1> QED BY <1>1

\* A piece drawn onto k pieces makes k + 1.
LEMMA PieceAdded ==
  ASSUME NEW t \in 1 .. Turns, NEW k \in 0 .. Text - 1
  PROVE  Append(Pieces(t, k), [t |-> t, e |-> k + 1]) = Pieces(t, k + 1)
<1>1. Pieces(t, k) \in Seq(Piece) /\ Len(Pieces(t, k)) = k
  BY PiecesAre, BoundsAssumption, k \in 0 .. Text
<1>2. k \in Nat /\ [t |-> t, e |-> k + 1] \in Piece
  BY BoundsAssumption DEF Piece
<1> DEFINE A == Append(Pieces(t, k), [t |-> t, e |-> k + 1])
<1>3. A \in Seq(Piece) /\ Len(A) = k + 1
      /\ \A i \in 1 .. k + 1 : A[i] = IF i <= k THEN Pieces(t, k)[i] ELSE [t |-> t, e |-> k + 1]
  BY <1>1, <1>2
<1>4. \A i \in 1 .. k + 1 : A[i] = [t |-> t, e |-> i]
  BY <1>2, <1>3 DEF Pieces
<1>5. A = [i \in 1 .. k + 1 |-> A[i]]
  BY <1>3
<1> HIDE DEF A
<1>6. A = [i \in 1 .. k + 1 |-> [t |-> t, e |-> i]]
  BY <1>4, <1>5
<1> QED BY <1>6 DEF A, Pieces

\* The answers that send, the feed and the record make.
LEMMA AnswerTypes ==
  /\ \A t \in 0 .. Turns : Begun(t) \in Answer
  /\ \A t \in 1 .. Turns : Settled(t) \in Answer
  /\ NotSent \in Answer
<1>1. \A t \in 1 .. Turns : Whole(t) \in Seq(Piece)
  BY PiecesAre, BoundsAssumption DEF Whole
<1>2. <<>> \in Seq(Piece)
  OBVIOUS
<1> QED BY <1>1, <1>2, BoundsAssumption DEF Begun, Settled, NotSent, Answer

\* The record's answers are its turns, in their order.
LEMMA AnswersAre ==
  ASSUME NEW v \in [n : 0 .. Turns, ended : BOOLEAN, text : 0 .. Text]
  PROVE  /\ Answers(v) \in Seq(Answer) /\ Len(Answers(v)) = v.n
         /\ \A i \in 1 .. v.n : Answers(v)[i].t = i
         /\ v.ended => \A i \in 1 .. v.n : Answers(v)[i] = Settled(i)
<1> DEFINE a(i) == IF i = v.n /\ ~v.ended
                   THEN [t |-> i, st |-> "running", text |-> Pieces(i, v.text)] ELSE Settled(i)
<1>1. Answers(v) = [i \in 1 .. v.n |-> a(i)]
  BY DEF Answers
<1>2. ASSUME NEW i \in 1 .. v.n PROVE a(i) \in Answer /\ a(i).t = i
  <2>1. i \in 1 .. Turns
    BY BoundsAssumption
  <2>2. Pieces(i, v.text) \in Seq(Piece)
    BY <2>1, PiecesAre
  <2> QED BY <2>1, <2>2, AnswerTypes DEF Answer, Settled
<1>3. v.ended => \A i \in 1 .. v.n : a(i) = Settled(i)
  OBVIOUS
<1>4. v.n \in Nat
  BY BoundsAssumption
<1> HIDE DEF a
<1>5. Answers(v) \in [1 .. v.n -> Answer]
  BY <1>1, <1>2
<1> QED BY <1>1, <1>2, <1>3, <1>4, <1>5

\* WithLast changes the last answer and no other.
LEMMA WithLastIs ==
  ASSUME NEW th \in Seq(Answer), th # <<>>, NEW a \in Answer
  PROVE  /\ WithLast(th, a) \in Seq(Answer) /\ Len(WithLast(th, a)) = Len(th)
         /\ WithLast(th, a) # <<>>
         /\ WithLast(th, a)[Len(th)] = a /\ Last(WithLast(th, a)) = a
         /\ \A i \in 1 .. Len(th) : i # Len(th) => WithLast(th, a)[i] = th[i]
<1>1. Len(th) \in Nat \ {0} /\ th \in [1 .. Len(th) -> Answer]
  BY EmptySeq, LenProperties
<1>2. WithLast(th, a) = [th EXCEPT ![Len(th)] = a]
  BY DEF WithLast, ReplaceAt
<1>3. WithLast(th, a) \in [1 .. Len(th) -> Answer]
  BY <1>1, <1>2
<1>4. WithLast(th, a) \in Seq(Answer) /\ Len(WithLast(th, a)) = Len(th)
  BY <1>1, <1>3
<1>5. WithLast(th, a)[Len(th)] = a /\ \A i \in 1 .. Len(th) : i # Len(th) => WithLast(th, a)[i] = th[i]
  <2>1. DOMAIN th = 1 .. Len(th) /\ Len(th) \in 1 .. Len(th)
    BY <1>1
  <2> QED BY <1>2, <2>1, Zenon
<1>6. WithLast(th, a) # <<>>
  BY <1>1, <1>4
<1>7. Last(WithLast(th, a)) = a
  BY <1>4, <1>5 DEF Last
<1> QED BY <1>4, <1>5, <1>6, <1>7

\* A piece is drawn onto the last answer.
LEMMA DrawIs ==
  ASSUME NEW th \in Seq(Answer), th # <<>>, NEW m \in Event, m.e \in 1 .. Text
  PROVE  /\ Draw(th, m) \in Seq(Answer) /\ Len(Draw(th, m)) = Len(th) /\ Draw(th, m) # <<>>
         /\ \A i \in 1 .. Len(th) : Draw(th, m)[i].t = th[i].t /\ Draw(th, m)[i].st = th[i].st
         /\ Last(Draw(th, m)).t = Last(th).t /\ Last(Draw(th, m)).st = Last(th).st
         /\ Last(Draw(th, m)).text = Append(Last(th).text, m)
<1> DEFINE a == [Last(th) EXCEPT !.text = Append(@, m)]
<1>1. Len(th) \in Nat \ {0} /\ Last(th) \in Answer /\ Last(th) = th[Len(th)]
  BY EmptySeq, LenProperties DEF Last
<1>2. m \in Piece
  BY DEF Event, Piece
<1>3. Append(Last(th).text, m) \in Seq(Piece)
  BY <1>1, <1>2 DEF Answer
<1>4. a \in Answer /\ a.t = Last(th).t /\ a.st = Last(th).st /\ a.text = Append(Last(th).text, m)
  BY <1>1, <1>3 DEF Answer
<1>5. Draw(th, m) = WithLast(th, a)
  BY DEF Draw
<1> HIDE DEF a
<1>6. /\ WithLast(th, a) \in Seq(Answer) /\ Len(WithLast(th, a)) = Len(th)
      /\ WithLast(th, a) # <<>>
      /\ WithLast(th, a)[Len(th)] = a /\ Last(WithLast(th, a)) = a
      /\ \A i \in 1 .. Len(th) : i # Len(th) => WithLast(th, a)[i] = th[i]
  BY <1>4, WithLastIs
<1> QED BY <1>1, <1>4, <1>5, <1>6

\* An end settles the last answer and leaves its text.
LEMMA FinishedIs ==
  ASSUME NEW th \in Seq(Answer)
  PROVE  /\ Finished(th) \in Seq(Answer) /\ Len(Finished(th)) = Len(th)
         /\ (Finished(th) = <<>>) = (th = <<>>)
         /\ \A i \in 1 .. Len(th) : Finished(th)[i].t = th[i].t
         /\ th # <<>> => /\ Last(Finished(th)).t = Last(th).t
                         /\ Last(Finished(th)).st = "done"
                         /\ Last(Finished(th)).text = Last(th).text
         /\ ~Running(Finished(th))
<1>1. CASE th = <<>>
  BY <1>1 DEF Finished, Running
<1>2. CASE th # <<>>
  <2> DEFINE a == [Last(th) EXCEPT !.st = "done"]
  <2>1. Len(th) \in Nat \ {0} /\ Last(th) \in Answer /\ Last(th) = th[Len(th)]
    BY <1>2, EmptySeq, LenProperties DEF Last
  <2>2. a \in Answer /\ a.t = Last(th).t /\ a.st = "done" /\ a.text = Last(th).text
    BY <2>1 DEF Answer
  <2>3. Finished(th) = WithLast(th, a)
    BY <1>2 DEF Finished
  <2> HIDE DEF a
  <2>4. /\ WithLast(th, a) \in Seq(Answer) /\ Len(WithLast(th, a)) = Len(th)
        /\ WithLast(th, a) # <<>>
        /\ WithLast(th, a)[Len(th)] = a /\ Last(WithLast(th, a)) = a
        /\ \A i \in 1 .. Len(th) : i # Len(th) => WithLast(th, a)[i] = th[i]
    BY <1>2, <2>2, WithLastIs
  <2> QED BY <1>2, <2>1, <2>2, <2>3, <2>4 DEF Running
<1> QED BY <1>1, <1>2

\* A started answer goes to the end of the thread.
LEMMA BegunIs ==
  ASSUME NEW th \in Seq(Answer), NEW t \in 0 .. Turns
  PROVE  /\ Append(th, Begun(t)) \in Seq(Answer) /\ Len(Append(th, Begun(t))) = Len(th) + 1
         /\ Append(th, Begun(t)) # <<>>
         /\ \A i \in 1 .. Len(th) : Append(th, Begun(t))[i] = th[i]
         /\ Append(th, Begun(t))[Len(th) + 1] = Begun(t) /\ Last(Append(th, Begun(t))) = Begun(t)
<1>1. Begun(t) \in Answer
  BY AnswerTypes
<1>2. Len(th) \in Nat
  BY LenProperties
<1> HIDE DEF Begun
<1> QED BY <1>1, <1>2, AppendProperties DEF Last

\* What the record does not hold stays behind what it holds, when it is over.
LEMMA WithTailIs ==
  ASSUME NEW server \in Seq(Answer), NEW th \in Seq(Answer)
  PROVE  /\ WithTail(server, th) \in Seq(Answer)
         /\ Len(th) <= Len(server) \/ Running(th) => WithTail(server, th) = server
         /\ Len(th) > Len(server) /\ ~Running(th) =>
              /\ Len(WithTail(server, th)) = Len(th)
              /\ \A i \in 1 .. Len(server) : WithTail(server, th)[i] = server[i]
              /\ \A i \in Len(server) + 1 .. Len(th) : WithTail(server, th)[i] = th[i]
              /\ ~Running(WithTail(server, th))
<1>1. Len(server) \in Nat /\ Len(th) \in Nat
  BY LenProperties
<1>2. CASE Len(th) <= Len(server) \/ Running(th)
  BY <1>1, <1>2 DEF WithTail, Running
<1>3. CASE Len(th) > Len(server) /\ ~Running(th)
  <2> DEFINE tail == SubSeq(th, Len(server) + 1, Len(th))
  <2>1. th # <<>>
    BY <1>1, <1>3
  <2>2. WithTail(server, th) = server \o tail
    BY <1>1, <1>3, <2>1 DEF WithTail, Running
  <2>3. tail \in Seq(Answer) /\ Len(tail) = Len(th) - Len(server)
        /\ \A i \in 1 .. Len(th) - Len(server) : tail[i] = th[Len(server) + i]
    BY <1>1, <1>3, SubSeqProperties
  <2> HIDE DEF tail
  <2>4. server \o tail \in Seq(Answer) /\ Len(server \o tail) = Len(th)
        /\ \A i \in 1 .. Len(th) :
             (server \o tail)[i] = IF i <= Len(server) THEN server[i] ELSE tail[i - Len(server)]
    BY <1>1, <1>3, <2>3, ConcatProperties
  <2>5. \A i \in Len(server) + 1 .. Len(th) : (server \o tail)[i] = th[i]
    <3> SUFFICES ASSUME NEW i \in Len(server) + 1 .. Len(th) PROVE (server \o tail)[i] = th[i]
      OBVIOUS
    <3>1. i \in 1 .. Len(th) /\ i > Len(server) /\ i - Len(server) \in 1 .. Len(th) - Len(server)
      BY <1>1
    <3>2. th[Len(server) + (i - Len(server))] = th[i]
      BY <1>1
    <3> QED BY <2>3, <2>4, <3>1, <3>2
  <2>6. Last(server \o tail) = Last(th)
    BY <1>1, <1>3, <2>4, <2>5 DEF Last
  <2> QED BY <1>1, <1>3, <2>1, <2>2, <2>4, <2>5, <2>6 DEF Running
<1> QED BY <1>1, <1>2, <1>3

\* A repaired thread holds the session's turns.
LEMMA RepairedIs ==
  ASSUME NEW n \in 0 .. Turns
  PROVE  LET th == [i \in 1 .. n |-> Settled(i)]
         IN /\ th \in Seq(Answer) /\ Len(th) = n
            /\ \A i \in 1 .. n : th[i] = Settled(i)
<1>1. [i \in 1 .. n |-> Settled(i)] \in [1 .. n -> Answer]
  BY AnswerTypes, BoundsAssumption
<1>2. n \in Nat
  BY BoundsAssumption
<1> HIDE DEF Settled
<1> QED BY <1>1, <1>2

\* No settleSoon asks for more reads than one may make, and one under way.
LEMMA SettleSoonBound ==
  ASSUME TypeOK, NEW n \in {1, Tries}
  PROVE  SettleSoon(n) \in 0 .. Tries + 1
<1> SUFFICES ASSUME tries \in 0 .. Tries + 1 PROVE SettleSoon(n) \in 0 .. Tries + 1
  BY DEF TypeOK
<1>1. n \in 1 .. Tries
  BY BoundsAssumption
<1> DEFINE m == n + (IF got = Nothing THEN 0 ELSE 1)
<1>2. m \in 1 .. Tries + 1
  BY <1>1, BoundsAssumption
<1>3. SettleSoon(n) = IF tries < m THEN m ELSE tries
  BY DEF SettleSoon
<1> HIDE DEF m
<1> QED BY <1>2, <1>3, BoundsAssumption

\* What follows from `busy` keeps the variables in their ranges.
LEMMA BusyTypes ==
  ASSUME TypeOK, NEW b \in BOOLEAN, NEW th \in Seq(Answer), NEW n \in 0 .. Tries + 1, Busy(b, th, n)
  PROVE  /\ thread' = th /\ thread' \in Seq(Answer) /\ busy' = b /\ busy' \in BOOLEAN
         /\ tries' \in 0 .. Tries + 1
         /\ watch' \in {"off", "first", "on"} /\ seenEnd' \in 0 .. Turns /\ due' \in BOOLEAN
  BY BoundsAssumption DEF Busy, TypeOK
-----------------------------------------------------------------------------
(* Type correctness. *)

\* A step that leaves the session's turn and the reads alone keeps what they say.
LEMMA ReadsKept ==
  ASSUME TypeInv, UNCHANGED <<turn, stage, said, load, got>>
  PROVE  ReadsHold' /\ Phase'
  BY DEF TypeInv, ReadsHold, ReadOf, Phase, Ended

\* Every event comes to the pump, or to the feed of this replica.
LEMMA PublishTypes ==
  ASSUME TypeOK, NEW m \in Event, Publish(m)
  PROVE  pump' \in Seq(Event) /\ queue' \in Seq(Event) /\ faults' \in 0 .. MaxFaults
<1> SUFFICES ASSUME pump \in Seq(Event), queue \in Seq(Event), faults \in 0 .. MaxFaults
             PROVE  pump' \in Seq(Event) /\ queue' \in Seq(Event) /\ faults' \in 0 .. MaxFaults
  BY DEF TypeOK
<1>1. Append(pump, m) \in Seq(Event) /\ Append(queue, m) \in Seq(Event)
  OBVIOUS
<1>2. pump' \in Seq(Event) /\ queue' \in Seq(Event)
  BY <1>1 DEF Publish, DeliveredHere, Delivered
<1>3. faults' \in 0 .. MaxFaults
  BY BoundsAssumption DEF Publish, Fault
<1> QED BY <1>2, <1>3

\* The head of a queue is an event and its tail is a queue.
LEMMA QueueTypes ==
  ASSUME NEW s \in Seq(Event), s # <<>>
  PROVE  /\ Head(s) \in Event /\ Tail(s) \in Seq(Event) /\ Len(Tail(s)) = Len(s) - 1
         /\ Head(s) = s[1] /\ Len(s) \in Nat \ {0}
         /\ \A i \in 1 .. Len(Tail(s)) : Tail(s)[i] = s[i + 1]
  BY HeadTailProperties, EmptySeq, LenProperties, ElementOfSeq

\* The turn's steps stay in the ranges.
LEMMA TurnTypes == TypeInv /\ Hands /\ Turn => TypeInv'
<1> SUFFICES ASSUME TypeInv, Hands, Turn PROVE TypeInv'
  OBVIOUS
<1> USE BoundsAssumption DEF gateway, own, bus, reads, drawn, vars
<1>1. CASE SendElsewhere
  <2>1. TypeOK'
    BY <1>1 DEF TypeInv, TypeOK, SendElsewhere, Accept, Phase
  <2>2. ReadsHold'
    BY <1>1 DEF TypeInv, TypeOK, SendElsewhere, Accept, ReadsHold, ReadOf, Ended
  <2>3. Phase'
    BY <1>1 DEF TypeInv, TypeOK, SendElsewhere, Accept, Phase
  <2> QED BY <2>1, <2>2, <2>3 DEF TypeInv
<1>2. ASSUME NEW k \in 0 .. Text + 1, k = said, stage \in {"running", "ended"}, Emit(k),
             stage' = IF k = Text + 1 THEN "told" ELSE stage,
             stage = "ended" <=> k = Text + 1
      PROVE  TypeInv'
  <2>1. turn \in 1 .. Turns /\ [t |-> turn, e |-> k] \in Event
    BY <1>2 DEF TypeInv, TypeOK, Phase, Event
  <2>2. pump' \in Seq(Event) /\ queue' \in Seq(Event) /\ faults' \in 0 .. MaxFaults
    BY <1>2, <2>1, PublishTypes DEF Emit, TypeInv
  <2>3. post' \in Seq(Event)
    BY <1>2, <2>1 DEF Emit, TypeInv, TypeOK
  <2>4. TypeOK'
    BY <1>2, <2>1, <2>2, <2>3 DEF Emit, TypeInv, TypeOK, Phase
  <2>5. ReadsHold'
    BY <1>2, <2>1 DEF TypeInv, TypeOK, Emit, ReadsHold, ReadOf, Ended
  <2>6. Phase'
    BY <1>2, <2>1 DEF TypeInv, TypeOK, Emit, Phase
  <2> QED BY <2>4, <2>5, <2>6 DEF TypeInv
<1>3. CASE Say
  <2>1. said \in 0 .. Text
    BY <1>3 DEF Say, TypeInv, TypeOK
  <2> QED BY <1>2, <1>3, <2>1 DEF Say
<1>4. CASE SayEnd
  <2>1. said = Text + 1
    BY <1>4 DEF SayEnd, TypeInv, Phase
  <2> QED BY <1>2, <1>4, <2>1 DEF SayEnd
<1>5. CASE Finish
  BY <1>5 DEF TypeInv, TypeOK, Finish, Phase, ReadsHold, ReadOf, Ended
<1>6. CASE Persist
  BY <1>6 DEF TypeInv, TypeOK, Persist, Phase, ReadsHold, ReadOf, Ended
<1> QED BY <1>1, <1>3, <1>4, <1>5, <1>6 DEF Turn

\* A fault is counted up to its bound.
LEMMA FaultTypes == TypeInv /\ Fault => faults' \in 0 .. MaxFaults
  BY BoundsAssumption DEF TypeInv, TypeOK, Fault

\* The bus and the tab's connection keep their events.
LEMMA BusTypes ==
  TypeInv /\ (Bus \/ PumpFails \/ QueueFull \/ ListenLost \/ FeedLost \/ Connect) => TypeInv'
<1> SUFFICES ASSUME TypeInv, Bus \/ PumpFails \/ QueueFull \/ ListenLost \/ FeedLost \/ Connect
             PROVE  TypeInv'
  OBVIOUS
<1> USE BoundsAssumption DEF gateway, own, bus, reads, drawn, vars
<1>0. <<>> \in Seq(Event)
  BY EmptySeq
<1>1. ReadsHold' /\ Phase'
  <2>1. UNCHANGED <<turn, stage, said, load, got>>
    BY DEF Bus, Pump, Hear, ListenAgain, PumpFails, QueueFull, ListenLost, FeedLost, Connect
  <2> QED BY <2>1, ReadsKept
<1> SUFFICES TypeOK'
  BY <1>1 DEF TypeInv
<1>2. ASSUME pump # <<>>, pump' = Tail(pump), wire' \in {wire, Append(wire, Head(pump))},
             queue' \in {queue, Append(queue, Head(pump))}, faults' \in 0 .. MaxFaults,
             UNCHANGED <<gateway, own, listening, feed, post, posting, reads, drawn>>
      PROVE  TypeOK'
  <2>1. Head(pump) \in Event /\ Tail(pump) \in Seq(Event)
    BY <1>2, QueueTypes DEF TypeInv, TypeOK
  <2>2. Append(wire, Head(pump)) \in Seq(Event) /\ Append(queue, Head(pump)) \in Seq(Event)
    BY <2>1, AppendProperties DEF TypeInv, TypeOK
  <2>3. pump' \in Seq(Event) /\ wire' \in Seq(Event) /\ queue' \in Seq(Event)
    BY <1>2, <2>1, <2>2 DEF TypeInv, TypeOK
  <2> QED BY <1>2, <2>3 DEF TypeInv, TypeOK
<1>3. CASE Pump
  BY <1>2, <1>3 DEF Pump, TypeInv, TypeOK
<1>4. CASE PumpFails
  BY <1>2, <1>4, FaultTypes DEF PumpFails, DeliveredHere, Delivered, TypeInv, TypeOK
<1>5. CASE Hear \/ QueueFull
  <2>1. wire \in Seq(Event) /\ queue \in Seq(Event) /\ wire # <<>>
    BY <1>5 DEF TypeInv, TypeOK, Hear, QueueFull
  <2>2. Head(wire) \in Event /\ Tail(wire) \in Seq(Event)
    BY <2>1, QueueTypes
  <2>3. Append(queue, Head(wire)) \in Seq(Event)
    BY <2>1, <2>2, AppendProperties
  <2>4. wire' \in Seq(Event) /\ queue' \in Seq(Event)
    BY <1>5, <2>1, <2>2, <2>3 DEF Hear, QueueFull, Delivered
  <2>5. faults' \in 0 .. MaxFaults
    BY <1>5, FaultTypes DEF Hear, QueueFull, TypeInv, TypeOK
  <2>6. CASE Hear
    BY <2>4, <2>5, <2>6 DEF TypeInv, TypeOK, Hear
  <2>7. CASE QueueFull
    BY <2>4, <2>5, <2>7 DEF TypeInv, TypeOK, QueueFull
  <2> QED BY <1>5, <2>6, <2>7
<1>6. CASE ListenAgain \/ ListenLost \/ FeedLost
  <2>1. faults' \in 0 .. MaxFaults /\ wire' \in Seq(Event) /\ queue' \in Seq(Event)
    BY <1>0, <1>6, FaultTypes DEF ListenAgain, ListenLost, FeedLost, TypeInv, TypeOK
  <2>2. CASE ListenAgain
    BY <2>1, <2>2 DEF TypeInv, TypeOK, ListenAgain
  <2>3. CASE ListenLost
    <3>1. /\ listening' \in BOOLEAN
          /\ UNCHANGED <<gateway, own, pump, feed, queue, post, posting, reads, drawn>>
      BY <2>3 DEF ListenLost
    <3> QED BY <2>1, <3>1 DEF TypeInv, TypeOK
  <2>4. CASE FeedLost
    <3>1. /\ feed' \in BOOLEAN
          /\ UNCHANGED <<gateway, own, bus, post, posting, reads, drawn>>
      BY <2>4 DEF FeedLost
    <3> QED BY <2>1, <3>1 DEF TypeInv, TypeOK
  <2> QED BY <1>6, <2>2, <2>3, <2>4
<1>7. CASE Connect
  <2>1. tries' \in 0 .. Tries + 1
    BY <1>7, SettleSoonBound DEF Connect, TypeInv, TypeOK
  <2> QED BY <1>0, <1>7, <2>1 DEF TypeInv, TypeOK, Connect
<1> QED BY <1>3, <1>4, <1>5, <1>6, <1>7 DEF Bus

\* What a step of the tab that draws must show of the thread to stay in the ranges.
LEMMA DrawnTypes ==
  ASSUME TypeInv, NEW b \in BOOLEAN, NEW th \in Seq(Answer), NEW n \in 0 .. Tries + 1,
         Busy(b, th, n), ReadsHold', Phase',
         UNCHANGED <<turn, stage, said, pump, wire, listening, feed>>,
         queue' \in Seq(Event), post' \in Seq(Event), posting' \in BOOLEAN,
         suppress' \in BOOLEAN, gapped' \in BOOLEAN, prevId' \in 0 .. Turns,
         mine' \cup dropped' \subseteq 1 .. turn, strayed' \in BOOLEAN,
         faults' \in 0 .. MaxFaults
  PROVE  TypeInv'
<1>1. /\ thread' \in Seq(Answer) /\ busy' \in BOOLEAN /\ tries' \in 0 .. Tries + 1
      /\ watch' \in {"off", "first", "on"} /\ seenEnd' \in 0 .. Turns /\ due' \in BOOLEAN
  BY BusyTypes DEF TypeInv
<1>2. load' \in [at : {"opened", "reading", "done"}, read : ReadOf']
  BY DEF ReadsHold
<1> QED BY <1>1, <1>2 DEF TypeInv, TypeOK

\* What the feed brings is drawn within the ranges.
LEMMA FeedTypes == TypeInv /\ ApplyBusEvent => TypeInv'
<1> SUFFICES ASSUME TypeInv, ApplyBusEvent PROVE TypeInv'
  OBVIOUS
<1> USE BoundsAssumption DEF gateway, own, bus, reads, drawn, vars
<1> DEFINE m == Head(queue)
<1>0. 0 \in 0 .. Tries + 1
  OBVIOUS
<1>1. thread \in Seq(Answer) /\ m \in Event /\ queue' \in Seq(Event)
  BY QueueTypes DEF TypeInv, TypeOK, ApplyBusEvent
<1>2. ReadsHold' /\ Phase'
  <2>1. UNCHANGED <<turn, stage, said, load, got>>
    BY DEF ApplyBusEvent
  <2> QED BY <2>1, ReadsKept
<1>5. strayed' \in BOOLEAN
  BY DEF ApplyBusEvent, TypeInv, TypeOK
<1>3. CASE suppress
  BY <1>1, <1>2, <1>3, <1>5 DEF ApplyBusEvent, TypeInv, TypeOK
<1>4. CASE ~suppress
  <2>1. PICK b \in BOOLEAN, th \in Seq(Answer), n \in 0 .. Tries + 1 : Busy(b, th, n)
    <3>1. CASE m.e = 0
      <4>1. ApplyStart(m)
        BY <1>1, <1>4, <3>1 DEF ApplyBusEvent
      <4>2. m.t \in 0 .. Turns
        BY <1>1 DEF Event
      <4>3. Append(thread, Begun(m.t)) \in Seq(Answer)
        BY <1>1, <4>2, BegunIs
      <4> QED BY <1>1, <4>1, <4>3 DEF ApplyStart, Same, TypeInv, TypeOK
    <3>2. CASE m.e \in 1 .. Text
      <4>1. ApplyText(m)
        BY <1>1, <1>4, <3>2 DEF ApplyBusEvent
      <4>2. Running(thread) => Draw(thread, m) \in Seq(Answer)
        BY <1>1, <3>2, DrawIs DEF Running
      <4> QED BY <1>1, <4>1, <4>2 DEF ApplyText, Same, TypeInv, TypeOK
    <3>3. CASE m.e = Text + 1
      <4>1. ApplyEnd(m)
        BY <1>1, <1>4, <3>3 DEF ApplyBusEvent
      <4>2. Finished(thread) \in Seq(Answer)
        BY <1>1, FinishedIs
      <4> QED BY <1>0, <4>1, <4>2 DEF ApplyEnd
    <3> QED BY <1>1, <3>1, <3>2, <3>3 DEF Event
  <2>2. prevId' \in 0 .. Turns
    <3>1. m.t \in 0 .. Turns /\ prevId \in 0 .. Turns
      BY <1>1 DEF Event, TypeInv, TypeOK
    <3>2. ApplyStart(m) \/ ApplyText(m) \/ ApplyEnd(m)
      BY <1>4 DEF ApplyBusEvent
    <3> QED BY <3>1, <3>2 DEF ApplyStart, ApplyText, ApplyEnd
  <2> QED BY <1>1, <1>2, <1>4, <1>5, <2>1, <2>2, DrawnTypes DEF ApplyBusEvent, TypeInv, TypeOK
<1> QED BY <1>3, <1>4

\* So is what the tab sends and what its streams bring.
LEMMA StreamTypes ==
  TypeInv /\ Hands /\ (Send \/ SendInVain \/ ReadPost \/ PostEnds \/ PostLost \/ PostUnsent)
    => TypeInv'
<1> SUFFICES ASSUME TypeInv, Hands,
                    Send \/ SendInVain \/ ReadPost \/ PostEnds \/ PostLost \/ PostUnsent
             PROVE  TypeInv'
  OBVIOUS
<1> USE BoundsAssumption DEF gateway, own, bus, reads, drawn, vars
<1>0. 0 \in 0 .. Tries + 1
  OBVIOUS
<1>1. thread \in Seq(Answer) /\ post \in Seq(Event) /\ <<>> \in Seq(Event)
  BY DEF TypeInv, TypeOK
<1>2. CASE Send
  <2>1. Append(thread, Begun(turn + 1)) \in Seq(Answer)
    BY <1>1, <1>2, BegunIs DEF Send, Accept, TypeInv, TypeOK
  <2>2. Busy(TRUE, Append(thread, Begun(turn + 1)), 0)
    BY <1>2 DEF Send, PutMessage
  <2>3. /\ thread' \in Seq(Answer) /\ busy' \in BOOLEAN /\ tries' \in 0 .. Tries + 1
        /\ watch' \in {"off", "first", "on"} /\ seenEnd' \in 0 .. Turns /\ due' \in BOOLEAN
    BY <1>0, <2>1, <2>2, BusyTypes DEF TypeInv
  <2>4. TypeOK'
    BY <1>1, <1>2, <2>3 DEF Send, PutMessage, Accept, TypeInv, TypeOK, ReadsHold
  <2>5. ReadsHold'
    BY <1>2 DEF TypeInv, TypeOK, Send, Accept, ReadsHold, ReadOf, Ended
  <2>6. Phase'
    BY <1>2 DEF TypeInv, TypeOK, Send, Accept, Phase
  <2> QED BY <2>4, <2>5, <2>6 DEF TypeInv
<1>3. CASE SendInVain
  <2>1. Append(thread, Begun(0)) \in Seq(Answer)
    BY <1>1, BegunIs
  <2>2. ReadsHold' /\ Phase'
    BY <1>3, ReadsKept DEF SendInVain
  <2>3. Busy(TRUE, Append(thread, Begun(0)), 0)
    BY <1>3 DEF SendInVain, PutMessage
  <2>4. faults' \in 0 .. MaxFaults
    BY <1>3 DEF SendInVain, Fault, TypeInv, TypeOK
  <2> QED BY <1>0, <1>1, <1>3, <2>1, <2>2, <2>3, <2>4, DrawnTypes
          DEF SendInVain, PutMessage, TypeInv, TypeOK
<1>4. CASE ReadPost
  <2> DEFINE m == Head(post)
  <2>1. m \in Event /\ Tail(post) \in Seq(Event)
    BY <1>1, <1>4, QueueTypes DEF ReadPost
  <2>2. ReadsHold' /\ Phase'
    BY <1>4, ReadsKept DEF ReadPost
  <2> DEFINE th == CASE m.e = 0 -> thread [] m.e \in 1 .. Text -> Draw(thread, m)
                     [] OTHER -> Finished(thread)
  <2>3. th \in Seq(Answer)
    BY <1>1, <1>4, <2>1, DrawIs, FinishedIs DEF ReadPost, Hands
  <2>4. Busy(busy, th, tries)
    BY <1>4 DEF ReadPost, Same
  <2>5. prevId' \in 0 .. Turns
    <3>1. m.t \in 0 .. Turns /\ prevId \in 0 .. Turns
      BY <2>1 DEF Event, TypeInv, TypeOK
    <3> QED BY <1>4, <3>1 DEF ReadPost
  <2> HIDE DEF th
  <2> QED BY <1>4, <2>1, <2>2, <2>3, <2>4, <2>5, DrawnTypes DEF ReadPost, TypeInv, TypeOK
<1>5. CASE PostEnds \/ PostLost
  <2>1. PostLeft
    BY <1>5 DEF PostEnds, PostLost
  <2>2. ReadsHold' /\ Phase'
    BY <2>1, ReadsKept DEF PostLeft, PostOver
  <2>3. SettleSoon(Tries) \in 0 .. Tries + 1
    BY SettleSoonBound DEF TypeInv
  <2>4. PICK b \in BOOLEAN, n \in 0 .. Tries + 1 : Busy(b, thread, n)
    BY <1>0, <2>1, <2>3 DEF PostLeft
  <2>5. gapped' \in BOOLEAN
    BY <2>1 DEF PostLeft, TypeInv, TypeOK
  <2> QED BY <1>1, <2>1, <2>2, <2>4, <2>5, DrawnTypes DEF PostLeft, PostOver, TypeInv, TypeOK
<1>6. CASE PostUnsent
  <2>1. WithLast(thread, NotSent) \in Seq(Answer)
    BY <1>1, <1>6, WithLastIs, AnswerTypes DEF PostUnsent, Hands
  <2>2. ReadsHold' /\ Phase'
    BY <1>6, ReadsKept DEF PostUnsent, PostOver
  <2>3. Busy(FALSE, WithLast(thread, NotSent), 0)
    BY <1>6 DEF PostUnsent
  <2>4. faults' \in 0 .. MaxFaults
    BY <1>6 DEF PostUnsent, Fault, TypeInv, TypeOK
  <2> QED BY <1>0, <1>1, <1>6, <2>1, <2>2, <2>3, <2>4, DrawnTypes
          DEF PostUnsent, PostOver, TypeInv, TypeOK
<1> QED BY <1>2, <1>3, <1>4, <1>5, <1>6

\* A read of the record says what the record holds, and no read says nothing.
LEMMA TurnsReadIs ==
  ASSUME TypeInv, NEW k \in 0 .. Text
  PROVE  /\ TurnsRead(k) \in ReadOf /\ Nothing \in ReadOf /\ ~Nothing.ended
         /\ TurnsRead(k).n = turn
         /\ TurnsRead(k).ended => turn = 0 \/ Ended
<1>1. turn \in Nat /\ 0 \in 0 .. turn /\ turn \in 0 .. turn /\ 0 \in 0 .. Text
  BY BoundsAssumption DEF TypeInv, TypeOK
<1>2. (turn = 0 \/ Ended) \in BOOLEAN
  OBVIOUS
<1> QED BY <1>1, <1>2 DEF TurnsRead, ReadOf, Nothing

\* A read of the record fits the model's bounds.
LEMMA ReadOfBound ==
  ASSUME TypeInv, NEW v \in ReadOf
  PROVE  v \in [n : 0 .. Turns, ended : BOOLEAN, text : 0 .. Text]
  BY BoundsAssumption DEF TypeInv, TypeOK, ReadOf

\* The reads of the record stay in the ranges.
LEMMA ReadTypes ==
  TypeInv /\ (LoadRead \/ LoadApply \/ SettleRead \/ SettleApply \/ Fold \/ WatchRead) => TypeInv'
<1> SUFFICES ASSUME TypeInv, LoadRead \/ LoadApply \/ SettleRead \/ SettleApply \/ Fold \/ WatchRead
             PROVE  TypeInv'
  OBVIOUS
<1> USE BoundsAssumption DEF gateway, own, bus, reads, drawn, vars
<1>0. 0 \in 0 .. Tries + 1 /\ 0 \in 0 .. Text
  OBVIOUS
<1>1. /\ thread \in Seq(Answer) /\ queue \in Seq(Event) /\ post \in Seq(Event)
      /\ load \in [at : {"opened", "reading", "done"}, read : ReadOf] /\ got \in ReadOf
      /\ tries \in 0 .. Tries + 1 /\ turn \in 0 .. Turns
  BY DEF TypeInv, TypeOK, ReadsHold
<1>2. UNCHANGED <<turn, stage, said>> => Phase' /\ (ReadOf' = ReadOf) /\ (Ended' = Ended)
  BY DEF TypeInv, Phase, ReadOf, Ended
<1>3. CASE LoadRead
  <2>1. PICK k \in 0 .. Text : load' = [at |-> "reading", read |-> TurnsRead(k)]
    <3>1. PICK k \in {0} \cup 1 .. said - 1 :
                 load' = [at |-> "reading", read |-> TurnsRead(IF Ended THEN 0 ELSE k)]
      BY <1>3 DEF LoadRead
    <3>2. (IF Ended THEN 0 ELSE k) \in 0 .. Text
      BY DEF Ended, TypeInv, TypeOK, Phase
    <3> QED BY <3>1, <3>2
  <2>2. /\ TurnsRead(k) \in ReadOf /\ TurnsRead(k).n = turn
        /\ TurnsRead(k).ended => turn = 0 \/ Ended
    BY TurnsReadIs
  <2> HIDE DEF TurnsRead
  <2>3. ReadsHold'
    BY <1>1, <1>2, <1>3, <2>1, <2>2 DEF LoadRead, TypeInv, ReadsHold
  <2> QED BY <1>2, <1>3, <2>1, <2>3 DEF LoadRead, TypeInv, TypeOK
<1>4. CASE LoadApply
  <2>1. Answers(load.read) \in Seq(Answer)
    BY <1>1, ReadOfBound, AnswersAre
  <2>2. WithTail(Answers(load.read), thread) \in Seq(Answer)
    BY <1>1, <2>1, WithTailIs
  <2>3. PICK b \in BOOLEAN, th \in Seq(Answer), n \in 0 .. Tries + 1 : Busy(b, th, n)
    BY <1>0, <1>1, <1>4, <2>1, <2>2 DEF LoadApply, Same, TypeInv, TypeOK
  <2>4. load.read.n \in 0 .. Turns /\ prevId \in 0 .. Turns
    BY <1>1, ReadOfBound DEF TypeInv, TypeOK
  <2>5. prevId' \in 0 .. Turns
    BY <1>4, <2>4 DEF LoadApply
  <2>6. load' = [at |-> "done", read |-> Nothing] /\ UNCHANGED <<turn, stage, said, got>>
    BY <1>4 DEF LoadApply
  <2>7. Nothing \in ReadOf /\ ~Nothing.ended
    BY <1>0, TurnsReadIs
  <2>8. ReadsHold'
    BY <1>1, <1>2, <2>6, <2>7 DEF TypeInv, ReadsHold
  <2> QED BY <1>1, <1>2, <1>4, <2>3, <2>5, <2>6, <2>8, DrawnTypes DEF LoadApply, TypeInv, TypeOK
<1>5. CASE SettleRead
  <2>1. UNCHANGED got \/ got' = TurnsRead(0)
    BY <1>5 DEF SettleRead
  <2>2. /\ TurnsRead(0) \in ReadOf /\ TurnsRead(0).n = turn
        /\ TurnsRead(0).ended => turn = 0 \/ Ended
    BY <1>0, TurnsReadIs
  <2> HIDE DEF TurnsRead
  <2>3. ReadsHold'
    BY <1>1, <1>2, <1>5, <2>1, <2>2 DEF SettleRead, TypeInv, ReadsHold
  <2>4. tries' \in 0 .. Tries + 1
    BY <1>0, <1>1, <1>5 DEF SettleRead
  <2> QED BY <1>2, <1>5, <2>3, <2>4 DEF SettleRead, TypeInv, TypeOK
<1>6. CASE SettleApply
  <2>1. Answers(got) \in Seq(Answer)
    BY <1>1, ReadOfBound, AnswersAre
  <2>2. WithTail(Answers(got), thread) \in Seq(Answer)
    BY <1>1, <2>1, WithTailIs
  <2>3. (IF tries > 0 THEN tries - 1 ELSE 0) \in 0 .. Tries + 1
    BY <1>1
  <2>4. PICK b \in BOOLEAN, th \in Seq(Answer), n \in 0 .. Tries + 1 : Busy(b, th, n)
    BY <1>0, <1>1, <1>6, <2>1, <2>2, <2>3 DEF SettleApply, TypeInv, TypeOK
  <2>5. got.n \in 0 .. Turns /\ prevId \in 0 .. Turns
    BY <1>1, ReadOfBound DEF TypeInv, TypeOK
  <2>6. prevId' \in 0 .. Turns /\ suppress' \in BOOLEAN /\ gapped' \in BOOLEAN
    BY <1>6, <2>5 DEF SettleApply, TypeInv, TypeOK
  <2>7. dropped' \subseteq 1 .. turn
    <3>1. got.n < turn => turn \in 1 .. turn
      BY <1>1 DEF ReadOf
    <3> QED BY <1>6, <3>1 DEF SettleApply, TypeInv, TypeOK
  <2>8. got' = Nothing /\ UNCHANGED <<turn, stage, said, load>>
    BY <1>6 DEF SettleApply
  <2>9. Nothing \in ReadOf /\ ~Nothing.ended
    BY <1>0, TurnsReadIs
  <2>10. ReadsHold'
    BY <1>1, <1>2, <2>8, <2>9 DEF TypeInv, ReadsHold
  <2> QED BY <1>1, <1>2, <1>6, <2>4, <2>6, <2>7, <2>8, <2>10, DrawnTypes
          DEF SettleApply, TypeInv, TypeOK
<1>7. CASE Fold
  <2>1. [i \in 1 .. turn |-> Settled(i)] \in Seq(Answer)
    BY <1>1, RepairedIs
  <2>2. thread' \in Seq(Answer)
    BY <1>1, <1>7, <2>1 DEF Fold
  <2>3. ReadsHold' /\ Phase'
    BY <1>7, ReadsKept DEF Fold
  <2>4. /\ due' \in BOOLEAN /\ gapped' \in BOOLEAN
        /\ UNCHANGED <<gateway, own, bus, feed, queue, post, posting, load, tries, got,
                       folded, watch, seenEnd, busy, prevId, suppress, faults>>
    BY <1>7 DEF Fold
  <2> QED BY <2>2, <2>3, <2>4 DEF TypeInv, TypeOK
<1>8. CASE WatchRead
  <2>1. tries' \in 0 .. Tries + 1
    BY <1>1, <1>8, SettleSoonBound DEF WatchRead, TypeInv
  <2>2. seenEnd' \in 0 .. Turns
    BY <1>1, <1>8 DEF WatchRead
  <2>3. ReadsHold' /\ Phase'
    BY <1>8, ReadsKept DEF WatchRead
  <2> QED BY <1>8, <2>1, <2>2, <2>3 DEF WatchRead, TypeInv, TypeOK
<1> QED BY <1>3, <1>4, <1>5, <1>6, <1>7, <1>8

\* Every step keeps the types.
LEMMA TypeStep == TypeInv /\ Hands /\ [Next]_vars => TypeInv'
<1>1. TypeInv /\ UNCHANGED vars => TypeInv'
  <2> SUFFICES ASSUME TypeInv, UNCHANGED vars PROVE TypeInv'
    OBVIOUS
  <2>1. TypeOK'
    BY DEF TypeInv, TypeOK, vars, gateway, own, bus, reads, drawn
  <2>2. ReadsHold' /\ Phase'
    BY DEF TypeInv, ReadsHold, ReadOf, Phase, Ended, vars, gateway, reads
  <2> QED BY <2>1, <2>2 DEF TypeInv
<1> QED BY <1>1, TurnTypes, BusTypes, FeedTypes, StreamTypes, ReadTypes DEF Next, Bus, Tab, Faults
-----------------------------------------------------------------------------
(* Who may write to the thread. *)

\* What the record says is over does not run in the thread.
LEMMA RecordIsOver ==
  ASSUME TypeInv, NEW v \in ReadOf, v.ended
  PROVE  ~Running(WithTail(Answers(v), thread))
<1>1. /\ Answers(v) \in Seq(Answer) /\ Len(Answers(v)) = v.n
      /\ \A i \in 1 .. v.n : Answers(v)[i] = Settled(i)
  BY ReadOfBound, AnswersAre
<1>2. v.n \in Nat /\ thread \in Seq(Answer)
  BY BoundsAssumption DEF ReadOf, TypeInv, TypeOK
<1>3. ~Running(Answers(v))
  <2>1. SUFFICES ASSUME Answers(v) # <<>> PROVE Last(Answers(v)).st = "done"
    BY DEF Running
  <2>2. v.n \in 1 .. v.n
    BY <1>1, <1>2, <2>1, EmptySeq, LenProperties
  <2>3. Last(Answers(v)) = Settled(v.n)
    BY <1>1, <2>2 DEF Last
  <2> QED BY <2>3 DEF Settled
<1> QED BY <1>1, <1>2, <1>3, WithTailIs

\* What follows from `busy` leaves the thread to one writer.
LEMMA BusyHands ==
  ASSUME NEW b \in BOOLEAN, NEW th, NEW n, Busy(b, th, n), Running(th) => b,
         suppress' = posting', posting' => b /\ th # <<>>,
         load'.at # "done" => ~posting' /\ mine' = {}
  PROVE  Hands'
  BY DEF Busy, Hands, Running

\* No step makes a second writer.
LEMMA HandsStep == TypeInv /\ Hands /\ [Next]_vars => Hands'
<1> SUFFICES ASSUME TypeInv, Hands, [Next]_vars PROVE Hands'
  OBVIOUS
<1> USE DEF gateway, own, bus, reads, drawn
<1>0. thread \in Seq(Answer) /\ busy \in BOOLEAN /\ load.read \in ReadOf /\ got \in ReadOf
  BY DEF TypeInv, TypeOK, ReadsHold
<1>1. ASSUME UNCHANGED <<thread, busy, suppress, posting, due, load, mine>> PROVE Hands'
  BY <1>1 DEF Hands, Running
<1>2. CASE Turn
  <2>1. CASE SendElsewhere
    BY <2>1 DEF SendElsewhere, Hands, Running
  <2> QED BY <1>1, <1>2, <2>1 DEF Turn, Say, Finish, SayEnd, Persist, Emit
<1>3. CASE Bus \/ PumpFails \/ QueueFull \/ ListenLost \/ FeedLost \/ Connect
  BY <1>1, <1>3 DEF Bus, Pump, Hear, ListenAgain, PumpFails, QueueFull, ListenLost, FeedLost, Connect
<1>4. CASE ApplyBusEvent
  <2> DEFINE m == Head(queue)
  <2>1. m \in Event
    BY <1>4, QueueTypes DEF ApplyBusEvent, TypeInv, TypeOK
  <2>2. CASE suppress
    BY <1>1, <1>4, <2>2 DEF ApplyBusEvent
  <2>3. CASE ~suppress
    <3>1. ~posting /\ UNCHANGED <<suppress, posting, load, mine>>
      BY <1>4, <2>3 DEF Hands, ApplyBusEvent
    <3>2. PICK b, th, n : b \in BOOLEAN /\ Busy(b, th, n) /\ (Running(th) => b)
      <4>1. CASE ApplyStart(m)
        BY <1>0, <4>1 DEF ApplyStart, Same, Hands
      <4>2. CASE m.e \in 1 .. Text /\ ApplyText(m)
        <5>1. Running(thread) => Running(Draw(thread, m)) /\ busy
          BY <1>0, <2>1, <4>2, DrawIs DEF Running, Hands
        <5> QED BY <1>0, <4>2, <5>1 DEF ApplyText, Same
      <4>3. CASE ApplyEnd(m)
        BY <1>0, <4>3, FinishedIs DEF ApplyEnd
      <4> QED BY <1>4, <2>3, <4>1, <4>2, <4>3 DEF ApplyBusEvent
    <3> QED BY <3>1, <3>2, BusyHands DEF Hands
  <2> QED BY <2>2, <2>3
<1>5. CASE Send
  <2>1. Append(thread, Begun(turn + 1)) # <<>>
    BY <1>0, <1>5, BegunIs, BoundsAssumption DEF Send, Accept, TypeInv, TypeOK
  <2> QED BY <1>5, <2>1, BusyHands DEF Send, PutMessage
<1>6. CASE SendInVain
  <2>1. Append(thread, Begun(0)) # <<>>
    BY <1>0, BegunIs, BoundsAssumption
  <2> QED BY <1>6, <2>1, BusyHands DEF SendInVain, PutMessage
<1>7. CASE ReadPost
  <2> DEFINE m == Head(post)
             th == CASE m.e = 0 -> thread [] m.e \in 1 .. Text -> Draw(thread, m)
                     [] OTHER -> Finished(thread)
  <2>1. m \in Event
    BY <1>7, QueueTypes DEF ReadPost, TypeInv, TypeOK
  <2>2. busy /\ thread # <<>> /\ load.at = "done"
    BY <1>7 DEF ReadPost, Hands
  <2>3. th # <<>>
    BY <1>0, <2>1, <2>2, DrawIs, FinishedIs
  <2>4. Busy(busy, th, tries)
    BY <1>7 DEF ReadPost, Same
  <2>5. UNCHANGED <<suppress, posting, load>>
    BY <1>7 DEF ReadPost
  <2> HIDE DEF th
  <2> QED BY <1>0, <2>2, <2>3, <2>4, <2>5, BusyHands DEF Hands
<1>8. CASE PostEnds \/ PostLost
  <2>1. PostLeft /\ load.at = "done"
    BY <1>8 DEF PostEnds, PostLost, Hands
  <2> QED BY <2>1, BusyHands DEF PostLeft, PostOver
<1>9. CASE PostUnsent
  <2>1. ~Running(WithLast(thread, NotSent)) /\ load.at = "done"
    <3>1. thread # <<>> /\ load.at = "done"
      BY <1>9 DEF PostUnsent, Hands
    <3>2. Last(WithLast(thread, NotSent)) = NotSent
      BY <1>0, <3>1, WithLastIs, AnswerTypes
    <3> QED BY <3>1, <3>2 DEF Running, NotSent
  <2> QED BY <1>9, <2>1, BusyHands DEF PostUnsent, PostOver
<1>10. CASE LoadRead
  BY <1>10 DEF LoadRead, Hands, Running
<1>11. CASE LoadApply
  <2>1. load'.at = "done" /\ UNCHANGED <<suppress, posting>> /\ ~posting
    BY <1>11 DEF LoadApply, Hands
  <2>2. PICK b, th, n : b \in BOOLEAN /\ Busy(b, th, n) /\ (Running(th) => b)
    BY <1>0, <1>11, RecordIsOver DEF LoadApply, Same, Hands
  <2> QED BY <2>1, <2>2, BusyHands DEF Hands
<1>12. CASE SettleRead \/ WatchRead
  BY <1>1, <1>12 DEF SettleRead, WatchRead
<1>13. CASE SettleApply
  <2>1. UNCHANGED <<posting, load, mine>>
    BY <1>13 DEF SettleApply
  <2>2. suppress' = posting'
    BY <1>13, posting \in BOOLEAN DEF SettleApply, Hands, TypeInv, TypeOK
  <2>3. PICK b, th, n :
          b \in BOOLEAN /\ Busy(b, th, n) /\ (Running(th) => b) /\ (posting => b /\ th # <<>>)
    <3>1. \/ \E n : Busy(busy, thread, n)
          \/ ~posting /\ got.ended /\ Busy(FALSE, WithTail(Answers(got), thread), 0)
      BY <1>13 DEF SettleApply
    <3>2. Running(thread) => busy
      BY DEF Hands
    <3>3. posting => busy /\ thread # <<>>
      BY DEF Hands
    <3>4. got.ended => ~Running(WithTail(Answers(got), thread))
      BY <1>0, RecordIsOver
    <3> QED BY <1>0, <3>1, <3>2, <3>3, <3>4
  <2> QED BY <2>1, <2>2, <2>3, BusyHands DEF Hands
<1>14. CASE Fold
  <2>1. ~Running([i \in 1 .. turn |-> Settled(i)])
    <3>1. turn \in 0 .. Turns /\ turn \in Nat
      BY BoundsAssumption DEF TypeInv, TypeOK
    <3> DEFINE th == [i \in 1 .. turn |-> Settled(i)]
    <3>2. th \in Seq(Answer) /\ Len(th) = turn /\ \A i \in 1 .. turn : th[i] = Settled(i)
      BY <3>1, RepairedIs
    <3> HIDE DEF th
    <3>3. SUFFICES ASSUME th # <<>> PROVE Last(th).st = "done"
      BY DEF Running, th
    <3>4. turn \in 1 .. turn
      BY <3>1, <3>2, <3>3, EmptySeq, LenProperties
    <3> QED BY <3>2, <3>4 DEF Last, Settled
  <2>2. ~busy /\ ~posting /\ ~Running(thread)
    BY <1>14 DEF Fold, Hands
  <2>3. ~Running(thread)'
    BY <1>14, <2>1, <2>2 DEF Fold, Running
  <2> QED BY <1>14, <2>2, <2>3 DEF Fold, Hands
<1>15. CASE UNCHANGED vars
  BY <1>1, <1>15 DEF vars
<1> QED BY <1>2, <1>3, <1>4, <1>5, <1>6, <1>7, <1>8, <1>9, <1>10, <1>11, <1>12, <1>13, <1>14, <1>15
        DEF Next, Bus, Tab, Faults
-----------------------------------------------------------------------------
(* What is on the bus. *)

\* The events of the turn, less the first or with one more, are of the turn.
LEMMA OfTurnQueue ==
  ASSUME NEW s \in Seq(Event), AllOfTurn(s)
  PROVE  /\ s # <<>> => AllOfTurn(Tail(s)) /\ OfTurn(Head(s))
         /\ \A m \in Event : OfTurn(m) => AllOfTurn(Append(s, m))
<1>1. Len(s) \in Nat
  BY LenProperties
<1>2. s # <<>> => AllOfTurn(Tail(s)) /\ OfTurn(Head(s))
  BY <1>1, QueueTypes DEF AllOfTurn
<1>3. ASSUME NEW m \in Event, OfTurn(m) PROVE AllOfTurn(Append(s, m))
  <2>1. /\ Len(Append(s, m)) = Len(s) + 1
        /\ \A i \in 1 .. Len(s) : Append(s, m)[i] = s[i]
        /\ Append(s, m)[Len(s) + 1] = m
    BY AppendProperties
  <2> QED BY <1>1, <1>3, <2>1 DEF AllOfTurn
<1> QED BY <1>2, <1>3

\* While the turn is where it is, its events stay its events.
LEMMA BusKept ==
  ASSUME UNCHANGED <<turn, stage>>, AllOfTurn(pump'), AllOfTurn(wire'), AllOfTurn(queue')
  PROVE  BusOfTurn'
  BY DEF BusOfTurn, AllOfTurn, OfTurn

\* What is on the bus at the accept is of earlier turns.
LEMMA AcceptedBus ==
  ASSUME TypeInv, BusOfTurn, turn' = turn + 1, UNCHANGED <<pump, wire, queue>>
  PROVE  BusOfTurn'
<1>1. turn \in Nat
  BY BoundsAssumption DEF TypeInv, TypeOK
<1>2. ASSUME NEW q \in Seq(Event), AllOfTurn(q), NEW i \in 1 .. Len(q)
      PROVE  q[i].t <= turn + 1 /\ q[i].t # turn + 1
  <2>1. q[i] \in Event
    BY <1>2, ElementOfSeq
  <2>2. q[i].t \in Nat /\ q[i].t <= turn
    BY <1>2, <2>1, BoundsAssumption DEF Event, AllOfTurn, OfTurn
  <2> QED BY <1>1, <2>2
<1> QED BY <1>2 DEF BusOfTurn, AllOfTurn, OfTurn, TypeInv, TypeOK

\* A turn's last event is said after it has ended.
LEMMA BusStep == TypeInv /\ BusOfTurn /\ [Next]_vars => BusOfTurn'
<1> SUFFICES ASSUME TypeInv, BusOfTurn, [Next]_vars PROVE BusOfTurn'
  OBVIOUS
<1> USE DEF gateway, own, bus, reads, drawn
<1>0. /\ pump \in Seq(Event) /\ wire \in Seq(Event) /\ queue \in Seq(Event)
      /\ AllOfTurn(pump) /\ AllOfTurn(wire) /\ AllOfTurn(queue) /\ AllOfTurn(<<>>)
  BY DEF TypeInv, TypeOK, BusOfTurn, AllOfTurn
<1>1. ASSUME UNCHANGED <<turn, stage, pump, wire>>, queue' \in {queue, <<>>} PROVE BusOfTurn'
  BY <1>0, <1>1, BusKept
<1>2. CASE SendElsewhere \/ Send
  BY <1>2, AcceptedBus DEF SendElsewhere, Send, Accept
<1>3. ASSUME NEW k \in 0 .. Text + 1, turn \in 1 .. Turns, Emit(k),
             k = Text + 1 => stage' # "running", stage # "running" => stage' # "running"
      PROVE  BusOfTurn'
  <2> DEFINE m == [t |-> turn, e |-> k]
  <2>1. m \in Event /\ m.t = turn /\ m.e = k
    BY <1>3 DEF Event
  <2>2. pump' \in {pump, Append(pump, m)} /\ queue' \in {queue, Append(queue, m)}
        /\ UNCHANGED <<turn, wire>>
    BY <1>3 DEF Emit, Publish, DeliveredHere, Delivered
  <2> HIDE DEF m
  <2>3. ASSUME NEW s \in Seq(Event), AllOfTurn(s), NEW r \in {s, Append(s, m)},
               NEW i \in 1 .. Len(r)
        PROVE  r[i].t <= turn' /\ (r[i].t = turn' /\ r[i].e = Text + 1 => stage' # "running")
    <3>1. Len(s) \in Nat /\ Len(Append(s, m)) = Len(s) + 1
          /\ \A j \in 1 .. Len(s) : Append(s, m)[j] = s[j]
          /\ Append(s, m)[Len(s) + 1] = m
      BY <2>1, <2>3, LenProperties, AppendProperties
    <3>2. r[i] = m \/ \E j \in 1 .. Len(s) : r[i] = s[j]
      BY <2>3, <3>1
    <3> QED BY <1>3, <2>1, <2>2, <2>3, <3>2 DEF AllOfTurn, OfTurn
  <2>4. wire' \in {wire, Append(wire, m)}
    BY <2>2
  <2> QED BY <1>0, <2>2, <2>3, <2>4 DEF BusOfTurn, AllOfTurn, OfTurn
<1>4. CASE Say
  <2>1. turn \in 1 .. Turns /\ said \in 0 .. Text
    BY <1>4 DEF Say, TypeInv, TypeOK, Phase
  <2> QED BY <1>3, <1>4, <2>1, BoundsAssumption DEF Say
<1>5. CASE SayEnd
  <2>1. turn \in 1 .. Turns
    BY <1>5 DEF SayEnd, TypeInv, TypeOK, Phase
  <2> QED BY <1>3, <1>5, <2>1, BoundsAssumption DEF SayEnd
<1>6. CASE Finish \/ Persist
  BY <1>6 DEF Finish, Persist, BusOfTurn, AllOfTurn, OfTurn
<1>7. CASE Pump \/ PumpFails
  <2>1. pump # <<>>
    BY <1>7 DEF Pump, PumpFails
  <2>2. Head(pump) \in Event /\ OfTurn(Head(pump)) /\ AllOfTurn(Tail(pump))
    BY <1>0, <2>1, QueueTypes, OfTurnQueue
  <2>3. AllOfTurn(Append(wire, Head(pump))) /\ AllOfTurn(Append(queue, Head(pump)))
    BY <1>0, <2>2, OfTurnQueue
  <2>4. AllOfTurn(wire') /\ AllOfTurn(queue') /\ UNCHANGED <<turn, stage>> /\ pump' = Tail(pump)
    BY <1>0, <1>7, <2>3 DEF Pump, PumpFails, DeliveredHere, Delivered
  <2> QED BY <2>2, <2>4, BusKept
<1>8. CASE Hear \/ QueueFull
  <2>1. wire # <<>>
    BY <1>8 DEF Hear, QueueFull
  <2>2. Head(wire) \in Event /\ OfTurn(Head(wire)) /\ AllOfTurn(Tail(wire))
    BY <1>0, <2>1, QueueTypes, OfTurnQueue
  <2>3. AllOfTurn(Append(queue, Head(wire)))
    BY <1>0, <2>2, OfTurnQueue
  <2>4. AllOfTurn(queue') /\ wire' = Tail(wire) /\ UNCHANGED <<turn, stage, pump>>
    BY <1>0, <1>8, <2>3 DEF Hear, QueueFull, Delivered
  <2> QED BY <1>0, <2>2, <2>4, BusKept
<1>9. CASE ListenAgain \/ ListenLost
  <2>1. wire' \in {wire, <<>>} /\ UNCHANGED <<turn, stage, pump, queue>>
    BY <1>9 DEF ListenAgain, ListenLost
  <2> QED BY <1>0, <2>1, BusKept
<1>10. CASE FeedLost \/ Connect
  BY <1>1, <1>10 DEF FeedLost, Connect
<1>11. CASE ApplyBusEvent
  <2>1. AllOfTurn(queue') /\ UNCHANGED <<turn, stage, pump, wire>>
    BY <1>0, <1>11, OfTurnQueue DEF ApplyBusEvent
  <2> QED BY <1>0, <2>1, BusKept
<1>12. CASE SendInVain \/ ReadPost \/ PostEnds \/ PostLost \/ PostUnsent
  BY <1>1, <1>12 DEF SendInVain, ReadPost, PostEnds, PostLost, PostLeft, PostUnsent, PostOver
<1>13. CASE LoadRead \/ LoadApply \/ SettleRead \/ SettleApply \/ Fold \/ WatchRead
  BY <1>1, <1>13 DEF LoadRead, LoadApply, SettleRead, SettleApply, Fold, WatchRead
<1>14. CASE UNCHANGED vars
  BY <1>1, <1>14 DEF vars
<1> QED BY <1>2, <1>4, <1>5, <1>6, <1>7, <1>8, <1>9, <1>10, <1>11, <1>12, <1>13, <1>14
        DEF Next, Turn, Bus, Tab, Faults
-----------------------------------------------------------------------------
(* What has left the bus. *)

\* No event of another turn brings one of turn t.
LEMMA NoneOfQueue ==
  ASSUME NEW s \in Seq(Event), NEW t, NoneOf(s, t)
  PROVE  /\ s # <<>> => NoneOf(Tail(s), t) /\ Head(s).t # t
         /\ \A m \in Event : m.t # t => NoneOf(Append(s, m), t)
<1>1. Len(s) \in Nat
  BY LenProperties
<1>2. s # <<>> => NoneOf(Tail(s), t) /\ Head(s).t # t
  BY <1>1, QueueTypes DEF NoneOf
<1>3. ASSUME NEW m \in Event, m.t # t PROVE NoneOf(Append(s, m), t)
  <2>1. /\ Len(Append(s, m)) = Len(s) + 1
        /\ \A i \in 1 .. Len(s) : Append(s, m)[i] = s[i]
        /\ Append(s, m)[Len(s) + 1] = m
    BY AppendProperties
  <2> QED BY <1>1, <1>3, <2>1 DEF NoneOf
<1> QED BY <1>2, <1>3

\* A turn that has left the bus does not come back to it.
Clears == \A t \in 1 .. turn : Clear(t) => Clear(t)'

LEMMA ClearStep == TypeInv /\ [Next]_vars => Clears
<1> SUFFICES ASSUME TypeInv, [Next]_vars, NEW t \in 1 .. turn, Clear(t) PROVE Clear(t)'
  BY DEF Clears
<1> USE DEF gateway, own, bus, reads, drawn
<1>0. /\ pump \in Seq(Event) /\ wire \in Seq(Event) /\ queue \in Seq(Event)
      /\ NoneOf(pump, t) /\ NoneOf(wire, t) /\ NoneOf(queue, t) /\ NoneOf(<<>>, t)
      /\ t < turn \/ stage = "recorded"
      /\ turn \in Nat
  BY BoundsAssumption DEF TypeInv, TypeOK, Clear, NoneOf
<1>1. ASSUME UNCHANGED <<turn, stage>>, NoneOf(pump', t), NoneOf(wire', t), NoneOf(queue', t)
      PROVE  Clear(t)'
  BY <1>0, <1>1 DEF Clear, NoneOf
<1>2. CASE SendElsewhere \/ Send
  BY <1>0, <1>2 DEF SendElsewhere, Send, Accept, Clear, NoneOf
<1>3. CASE Say \/ SayEnd
  <2>1. /\ t < turn /\ turn' = turn /\ wire' = wire
        /\ \E k \in 0 .. Text + 1 : Publish([t |-> turn, e |-> k])
    BY <1>0, <1>3, BoundsAssumption DEF Say, SayEnd, Emit, TypeInv, TypeOK
  <2>2. PICK k \in 0 .. Text + 1 : Publish([t |-> turn, e |-> k])
    BY <2>1
  <2> DEFINE m == [t |-> turn, e |-> k]
  <2>3. m \in Event /\ m.t # t
    BY <2>1, BoundsAssumption DEF Event, TypeInv, TypeOK
  <2>4. pump' \in {pump, Append(pump, m)} /\ queue' \in {queue, Append(queue, m)}
    BY <2>2 DEF Publish, DeliveredHere, Delivered
  <2> HIDE DEF m
  <2>5. NoneOf(pump', t) /\ NoneOf(queue', t) /\ NoneOf(wire', t)
    BY <1>0, <2>1, <2>3, <2>4, NoneOfQueue
  <2> QED BY <2>1, <2>5 DEF Clear, NoneOf
<1>4. CASE Finish \/ Persist
  BY <1>4 DEF Finish, Persist, Clear, NoneOf
<1>5. CASE Pump \/ PumpFails
  <2>1. pump # <<>>
    BY <1>5 DEF Pump, PumpFails
  <2>2. Head(pump) \in Event /\ Head(pump).t # t /\ NoneOf(Tail(pump), t)
    BY <1>0, <2>1, QueueTypes, NoneOfQueue
  <2>3. NoneOf(Append(wire, Head(pump)), t) /\ NoneOf(Append(queue, Head(pump)), t)
    BY <1>0, <2>2, NoneOfQueue
  <2>4. NoneOf(wire', t) /\ NoneOf(queue', t) /\ UNCHANGED <<turn, stage>> /\ pump' = Tail(pump)
    BY <1>0, <1>5, <2>3 DEF Pump, PumpFails, DeliveredHere, Delivered
  <2> QED BY <1>1, <2>2, <2>4
<1>6. CASE Hear \/ QueueFull
  <2>1. wire # <<>>
    BY <1>6 DEF Hear, QueueFull
  <2>2. Head(wire) \in Event /\ Head(wire).t # t /\ NoneOf(Tail(wire), t)
    BY <1>0, <2>1, QueueTypes, NoneOfQueue
  <2>3. NoneOf(Append(queue, Head(wire)), t)
    BY <1>0, <2>2, NoneOfQueue
  <2>4. NoneOf(queue', t) /\ wire' = Tail(wire) /\ UNCHANGED <<turn, stage, pump>>
    BY <1>0, <1>6, <2>3 DEF Hear, QueueFull, Delivered
  <2> QED BY <1>0, <1>1, <2>2, <2>4
<1>7. CASE ListenAgain \/ ListenLost \/ FeedLost \/ Connect
  <2>1. wire' \in {wire, <<>>} /\ queue' \in {queue, <<>>} /\ UNCHANGED <<turn, stage, pump>>
    BY <1>7 DEF ListenAgain, ListenLost, FeedLost, Connect
  <2> QED BY <1>0, <1>1, <2>1
<1>8. CASE ApplyBusEvent
  <2>1. NoneOf(queue', t) /\ UNCHANGED <<turn, stage, pump, wire>>
    BY <1>0, <1>8, NoneOfQueue DEF ApplyBusEvent
  <2> QED BY <1>0, <1>1, <2>1
<1>9. ASSUME UNCHANGED <<turn, stage, pump, wire, queue>> PROVE Clear(t)'
  BY <1>0, <1>1, <1>9
<1>10. CASE SendInVain \/ ReadPost \/ PostEnds \/ PostLost \/ PostUnsent
  BY <1>9, <1>10 DEF SendInVain, ReadPost, PostEnds, PostLost, PostLeft, PostUnsent, PostOver
<1>11. CASE LoadRead \/ LoadApply \/ SettleRead \/ SettleApply \/ Fold \/ WatchRead
  BY <1>9, <1>11 DEF LoadRead, LoadApply, SettleRead, SettleApply, Fold, WatchRead
<1>12. CASE UNCHANGED vars
  BY <1>9, <1>12 DEF vars
<1> QED BY <1>2, <1>3, <1>4, <1>5, <1>6, <1>7, <1>8, <1>10, <1>11, <1>12
        DEF Next, Turn, Bus, Tab, Faults
-----------------------------------------------------------------------------
(* The order of the turns in the thread. *)

\* The thread's answers and their turns are in the ranges.
LEMMA ThreadIs ==
  ASSUME TypeInv
  PROVE  /\ thread \in Seq(Answer) /\ Len(thread) \in Nat /\ turn \in 0 .. Turns
         /\ \A i \in 1 .. Len(thread) : thread[i] \in Answer /\ thread[i].t \in 0 .. Turns
         /\ thread # <<>> => Len(thread) \in 1 .. Len(thread) /\ Last(thread) = thread[Len(thread)]
         /\ prevId \in 0 .. Turns /\ mine \subseteq 1 .. turn /\ dropped \subseteq 1 .. turn
<1>1. thread \in Seq(Answer) /\ Len(thread) \in Nat /\ turn \in 0 .. Turns
  BY LenProperties DEF TypeInv, TypeOK
<1>2. \A i \in 1 .. Len(thread) : thread[i] \in Answer /\ thread[i].t \in 0 .. Turns
  <2>1. \A i \in 1 .. Len(thread) : thread[i] \in Answer
    BY <1>1, ElementOfSeq
  <2> QED BY <2>1 DEF Answer
<1>3. thread # <<>> => Len(thread) \in 1 .. Len(thread) /\ Last(thread) = thread[Len(thread)]
  BY <1>1, EmptySeq DEF Last
<1> QED BY <1>1, <1>2, <1>3 DEF TypeInv, TypeOK

\* The last turn stands last, or before a message that came to no turn.
LEMMA ShownLast ==
  ASSUME TypeInv, Order, NEW i \in 1 .. Len(thread), thread[i].t = turn, turn > 0,
         Last(thread).t # 0
  PROVE  i = Len(thread) /\ Last(thread).t = turn
<1>1. Len(thread) \in 1 .. Len(thread) /\ Last(thread) = thread[Len(thread)]
  BY ThreadIs, EmptySeq
<1>2. Last(thread).t <= turn
  BY <1>1 DEF Order, Ordered
<1>3. i < Len(thread) => thread[i].t < Last(thread).t
  BY <1>1 DEF Order, Ordered
<1> QED BY <1>1, <1>2, <1>3, ThreadIs, BoundsAssumption

\* Answers with the same turns are as ordered and hold the same.
LEMMA SameTurns ==
  ASSUME NEW th, NEW new, Len(new) = Len(th), \A i \in 1 .. Len(th) : new[i].t = th[i].t
  PROVE  (Ordered(th) => Ordered(new)) /\ Holds(new) = Holds(th)
  BY DEF Ordered, Holds

\* The record's answers are ordered, and hold the turn when the record does.
LEMMA RecordTurns ==
  ASSUME TypeInv, NEW v \in ReadOf
  PROVE  /\ Answers(v) \in Seq(Answer) /\ Len(Answers(v)) = v.n /\ v.n \in Nat /\ v.n <= turn
         /\ \A i \in 1 .. v.n : Answers(v)[i].t = i
         /\ Ordered(Answers(v))
         /\ v.n < turn => ~Holds(Answers(v))
         /\ v.n = turn /\ turn > 0 => Holds(Answers(v))
<1>1. Answers(v) \in Seq(Answer) /\ Len(Answers(v)) = v.n
      /\ \A i \in 1 .. v.n : Answers(v)[i].t = i
  BY ReadOfBound, AnswersAre
<1>2. v.n \in Nat /\ v.n <= turn /\ turn \in Nat
  BY BoundsAssumption DEF ReadOf, TypeInv, TypeOK
<1> QED BY <1>1, <1>2 DEF Ordered, Holds

\* A step that draws nothing, moves no turn and does not end one under an old read.
LEMMA StillTurns ==
  ASSUME TypeInv, TurnsInv, UNCHANGED <<turn, mine, dropped, thread, prevId>>, Clears,
         \/ load' = load
         \/ load'.at = "done"
         \/ load'.at = "reading" /\ load'.read.n = turn /\ load.at # "done",
         stage = "running" => \/ stage' = "running" \/ load'.at # "reading"
                              \/ load'.read.n = turn
  PROVE  TurnsInv'
<1>1. Order' /\ OwnShown'
  BY DEF TurnsInv, Order, Ordered, OwnShown, Own, Shown, Holds
<1>2. Drawn'
  <2>1. \A i \in 1 .. Len(thread) : thread[i].t > 0 => thread[i].t \in 1 .. turn
    BY ThreadIs, BoundsAssumption DEF TurnsInv, Order, Ordered
  <2> QED BY <2>1 DEF TurnsInv, Drawn, Running, Clears
<1>3. turn \in Nat
  BY BoundsAssumption DEF TypeInv, TypeOK
<1>4. Opening'
  BY <1>3 DEF TurnsInv, Opening
<1> QED BY <1>1, <1>2, <1>4 DEF TurnsInv

\* The same turns drawn anew.
LEMMA RedrawnTurns ==
  ASSUME TypeInv, TurnsInv, UNCHANGED <<turn, stage, mine, dropped, load>>,
         Len(thread') = Len(thread), \A i \in 1 .. Len(thread) : thread'[i].t = thread[i].t,
         prevId' <= turn, load.at = "reading" /\ load.read.n < turn => prevId' < turn, Drawn'
  PROVE  TurnsInv'
<1>1. Ordered(thread') /\ Holds(thread') = Shown
  BY SameTurns DEF TurnsInv, Order, Shown
<1>2. Order'
  BY <1>1 DEF Order, Ordered
<1>3. OwnShown'
  BY <1>1 DEF TurnsInv, OwnShown, Own, Shown, Holds
<1>4. Opening'
  BY DEF TurnsInv, Opening
<1> QED BY <1>2, <1>3, <1>4 DEF TurnsInv

\* A turn's accept, by another client or by this tab's message.
LEMMA AcceptTurns ==
  TypeInv /\ Hands /\ TurnsInv /\ Clears /\ (SendElsewhere \/ Send) => TurnsInv'
<1> SUFFICES ASSUME TypeInv, Hands, TurnsInv, Clears, SendElsewhere \/ Send PROVE TurnsInv'
  OBVIOUS
<1> USE DEF gateway, own, bus, reads, drawn
<1>1. /\ turn' = turn + 1 /\ turn \in Nat /\ turn + 1 \in 1 .. Turns /\ stage' = "running"
      /\ UNCHANGED <<prevId, load>> /\ stage = "recorded"
      /\ prevId <= turn
      /\ \A i \in 1 .. Len(thread) : thread[i].t \in Nat /\ thread[i].t < turn + 1
  BY ThreadIs, BoundsAssumption DEF SendElsewhere, Send, Accept, TurnsInv, Order, Ordered
<1>2. CASE SendElsewhere
  <2>1. thread' = thread /\ mine' = {}
    BY <1>2 DEF SendElsewhere
  <2>2. Order'
    BY <1>1, <2>1, ThreadIs DEF Order, Ordered, TurnsInv
  <2>3. OwnShown'
    BY <2>1 DEF OwnShown, Own
  <2>4. Drawn'
    <3>1. \A i \in 1 .. Len(thread) : thread[i].t > 0 => thread[i].t \in 1 .. turn
      BY <1>1
    <3> QED BY <1>1, <2>1, <3>1 DEF TurnsInv, Drawn, Running, Clears
  <2>5. Opening'
    <3>1. prevId' < turn'
      BY <1>1, ThreadIs, BoundsAssumption
    <3>2. load.at = "reading" => load.read.n \in Nat /\ turn <= load.read.n
      BY <1>1, BoundsAssumption DEF TurnsInv, Opening, TypeInv, ReadsHold, ReadOf
    <3> QED BY <1>1, <2>1, <3>1, <3>2 DEF TurnsInv, Opening
  <2> QED BY <2>2, <2>3, <2>4, <2>5 DEF TurnsInv
<1>3. CASE Send
  <2> DEFINE new == Append(thread, Begun(turn + 1))
  <2>1. thread' = new /\ load.at = "done" /\ ~Running(thread)
    BY <1>3 DEF Send, PutMessage, Busy, Hands
  <2>2. /\ Len(new) = Len(thread) + 1 /\ new # <<>> /\ Len(thread) \in Nat
        /\ \A i \in 1 .. Len(thread) : new[i] = thread[i]
        /\ new[Len(thread) + 1] = Begun(turn + 1) /\ Last(new) = Begun(turn + 1)
    BY <1>1, ThreadIs, BegunIs, BoundsAssumption
  <2> HIDE DEF new
  <2>3. Begun(turn + 1).t = turn + 1 /\ Begun(turn + 1).st = "running"
    BY DEF Begun
  <2>4. Ordered(thread)
    BY DEF TurnsInv, Order
  <2>5. \A i \in 1 .. Len(thread) + 1 : new[i].t <= turn + 1
    BY <1>1, <2>2, <2>3
  <2>6. \A i, j \in 1 .. Len(thread) + 1 : i < j /\ new[j].t # 0 => new[i].t < new[j].t
    <3> SUFFICES ASSUME NEW i \in 1 .. Len(thread) + 1, NEW j \in 1 .. Len(thread) + 1,
                        i < j, new[j].t # 0
                 PROVE  new[i].t < new[j].t
      OBVIOUS
    <3>1. i \in 1 .. Len(thread)
      BY <2>2
    <3>2. CASE j = Len(thread) + 1
      BY <1>1, <2>2, <2>3, <3>1, <3>2
    <3>3. CASE j # Len(thread) + 1
      BY <2>2, <2>4, <3>1, <3>3 DEF Ordered
    <3> QED BY <3>2, <3>3
  <2>7. Order'
    <3>1. prevId' <= turn'
      BY <1>1, ThreadIs, BoundsAssumption
    <3>2. Len(thread') = Len(thread) + 1 /\ thread' = new /\ turn' = turn + 1
      BY <1>1, <2>1, <2>2
    <3> QED BY <2>5, <2>6, <3>1, <3>2 DEF Order, Ordered
  <2>8. Running(thread') /\ Last(thread').t = turn'
    BY <1>1, <2>1, <2>2, <2>3 DEF Running
  <2>9. Drawn'
    <3>1. \A i \in 1 .. Len(thread), t \in 1 .. turn :
             thread[i].t = t => prevId' >= t \/ Clear(t)'
      BY <1>1, <2>1 DEF TurnsInv, Drawn, Clears
    <3>2. ASSUME NEW i \in 1 .. Len(thread'), thread'[i].t > 0, i # Len(thread')
          PROVE  prevId' >= thread'[i].t \/ Clear(thread[i].t)'
      <4>1. i \in 1 .. Len(thread) /\ thread'[i].t = thread[i].t /\ thread[i].t \in 1 .. turn
        BY <1>1, <2>1, <2>2, <3>2
      <4> QED BY <3>1, <4>1
    <3> QED BY <2>8, <3>2 DEF Drawn
  <2>10. Shown'
    BY <1>1, <2>1, <2>2, <2>3 DEF Shown, Holds
  <2>11. Opening'
    BY <1>1, <2>1 DEF Opening
  <2> QED BY <2>7, <2>9, <2>10, <2>11 DEF TurnsInv, OwnShown
<1> QED BY <1>2, <1>3

\* An event that is not of the last turn drawn here or ended here draws nothing.
LEMMA NotLate ==
  TypeInv /\ BusOfTurn /\ ApplyBusEvent /\ ~strayed' =>
    /\ Head(queue) \in Event /\ Head(queue).t \in 1 .. turn /\ OfTurn(Head(queue))
    /\ ~Clear(Head(queue).t)
    /\ \/ UNCHANGED <<thread, busy, prevId>>
       \/ /\ ~suppress /\ prevId <= Head(queue).t
          /\ \A i \in 1 .. Len(thread) : thread[i].t <= Head(queue).t
<1> SUFFICES ASSUME TypeInv, BusOfTurn, ApplyBusEvent, ~strayed'
             PROVE  /\ Head(queue) \in Event /\ Head(queue).t \in 1 .. turn /\ OfTurn(Head(queue))
                    /\ ~Clear(Head(queue).t)
                    /\ \/ UNCHANGED <<thread, busy, prevId>>
                       \/ /\ ~suppress /\ prevId <= Head(queue).t
                          /\ \A i \in 1 .. Len(thread) : thread[i].t <= Head(queue).t
  OBVIOUS
<1> DEFINE m == Head(queue)
<1>1. queue \in Seq(Event) /\ queue # <<>> /\ AllOfTurn(queue)
  BY DEF ApplyBusEvent, TypeInv, TypeOK, BusOfTurn
<1>2. m \in Event /\ OfTurn(m) /\ m = queue[1] /\ Len(queue) \in Nat \ {0}
  BY <1>1, QueueTypes, OfTurnQueue
<1>3. m.t \in 1 .. turn
  BY <1>2, ThreadIs, BoundsAssumption DEF OfTurn, Event
<1>4. ~Clear(m.t)
  BY <1>2 DEF Clear, NoneOf
<1> HIDE DEF m
<1>5. UNCHANGED <<thread, busy, prevId>> \/ (~suppress /\ ~Late(m))
  <2>1. CASE suppress
    BY <2>1 DEF ApplyBusEvent, drawn
  <2>2. CASE ~suppress
    <3>1. strayed' = (strayed \/ (Late(m) /\ <<thread, busy, prevId>>' # <<thread, busy, prevId>>))
      BY <2>2 DEF ApplyBusEvent, m
    <3> QED BY <2>2, <3>1
  <2> QED BY <2>1, <2>2
<1>6. ~Late(m) => prevId <= m.t /\ \A i \in 1 .. Len(thread) : thread[i].t <= m.t
  BY <1>3, ThreadIs, BoundsAssumption DEF Late
<1> QED BY <1>2, <1>3, <1>4, <1>5, <1>6 DEF m

\* What the feed brings: a turn is started once.
LEMMA FeedTurns ==
  TypeInv /\ Hands /\ TurnsInv /\ BusOfTurn /\ Clears /\ ApplyBusEvent /\ ~strayed' => TurnsInv'
<1> SUFFICES ASSUME TypeInv, Hands, TurnsInv, BusOfTurn, Clears, ApplyBusEvent, ~strayed'
             PROVE  TurnsInv'
  OBVIOUS
<1> USE DEF gateway, own, bus, reads, drawn
<1> DEFINE m == Head(queue)
<1>1. m \in Event /\ OfTurn(m) /\ m.t \in 1 .. turn /\ m.t \in Nat /\ turn \in 1 .. Turns
      /\ turn \in Nat /\ ~Clear(m.t)
  BY NotLate, ThreadIs, BoundsAssumption
<1>2. UNCHANGED <<turn, stage, mine, dropped, load>>
  BY DEF ApplyBusEvent
<1>3. CASE UNCHANGED <<thread, busy, prevId>>
  BY <1>2, <1>3, StillTurns
<1>4. CASE ~UNCHANGED <<thread, busy, prevId>>
  <2>0. /\ ~suppress /\ prevId <= m.t
        /\ \A i \in 1 .. Len(thread) : thread[i].t \in Nat /\ thread[i].t <= m.t
    BY <1>4, NotLate, ThreadIs, BoundsAssumption
  <2>1. CASE ApplyStart(m)
    <3>0. prevId # m.t /\ ~Running(thread)
      BY <1>4, <2>1 DEF ApplyStart, Same, Busy
    <3> DEFINE new == Append(thread, Begun(m.t))
    <3>1. thread' = new /\ prevId' = prevId
      BY <2>1, <3>0 DEF ApplyStart, Busy
    <3>2. m.t \in 0 .. Turns
      BY <1>1, BoundsAssumption
    <3>3. /\ Len(new) = Len(thread) + 1 /\ new # <<>> /\ Len(thread) \in Nat
          /\ \A i \in 1 .. Len(thread) : new[i] = thread[i]
          /\ new[Len(thread) + 1] = Begun(m.t) /\ Last(new) = Begun(m.t)
      BY <3>2, ThreadIs, BegunIs
    <3> HIDE DEF new
    <3>4. Begun(m.t).t = m.t /\ Begun(m.t).st = "running"
      BY DEF Begun
    <3>5. ASSUME NEW i \in 1 .. Len(thread) PROVE thread[i].t < m.t
      <4>1. thread[i].t = m.t => prevId >= m.t \/ Clear(m.t)
        BY <1>1, <3>0 DEF TurnsInv, Drawn
      <4>2. prevId \in Nat
        BY ThreadIs, BoundsAssumption
      <4> QED BY <1>1, <2>0, <3>0, <4>1, <4>2
    <3>6. \A i, j \in 1 .. Len(thread) + 1 : i < j /\ new[j].t # 0 => new[i].t < new[j].t
      <4> SUFFICES ASSUME NEW i \in 1 .. Len(thread) + 1, NEW j \in 1 .. Len(thread) + 1,
                          i < j, new[j].t # 0
                   PROVE  new[i].t < new[j].t
        OBVIOUS
      <4>1. i \in 1 .. Len(thread)
        BY <3>3
      <4>2. CASE j = Len(thread) + 1
        BY <3>3, <3>4, <3>5, <4>1, <4>2
      <4>3. CASE j # Len(thread) + 1
        BY <3>3, <4>1, <4>3 DEF TurnsInv, Order, Ordered
      <4> QED BY <4>2, <4>3
    <3>7. \A i \in 1 .. Len(thread) + 1 : new[i].t <= turn
      BY <1>1, <2>0, <3>3, <3>4
    <3>8. Order'
      BY <1>2, <3>1, <3>3, <3>6, <3>7 DEF TurnsInv, Order, Ordered
    <3>9. Running(thread')
      BY <3>1, <3>3, <3>4 DEF Running
    <3>10. Drawn'
      <4>1. \A i \in 1 .. Len(thread), t \in 1 .. turn :
               thread[i].t = t => prevId' >= t \/ Clear(t)'
        BY <3>0, <3>1 DEF TurnsInv, Drawn, Clears
      <4>2. ASSUME NEW i \in 1 .. Len(thread'), thread'[i].t > 0, i # Len(thread')
            PROVE  prevId' >= thread'[i].t \/ Clear(thread[i].t)'
        <5>1. i \in 1 .. Len(thread) /\ thread'[i].t = thread[i].t /\ thread[i].t \in 1 .. turn
          BY <1>1, <2>0, <3>1, <3>3, <4>2
        <5> QED BY <4>1, <5>1
      <4> QED BY <3>9, <4>2 DEF Drawn
    <3>11. OwnShown'
      <4>1. Shown => Shown'
        BY <1>2, <3>1, <3>3 DEF Shown, Holds
      <4> QED BY <1>2, <4>1 DEF TurnsInv, OwnShown, Own
    <3>12. load.at # "done" => Len(thread) + 1 <= m.t
      <4>1. CASE thread = <<>>
        BY <1>1, <4>1, ThreadIs, EmptySeq, BoundsAssumption
      <4>2. CASE thread # <<>>
        <5>1. Len(thread) \in 1 .. Len(thread)
          BY <4>2, ThreadIs
        <5>2. load.at # "done" => thread[Len(thread)].t >= Len(thread)
          BY <5>1 DEF TurnsInv, Opening
        <5> QED BY <1>1, <2>0, <3>3, <3>5, <5>1, <5>2
      <4> QED BY <4>1, <4>2
    <3>13. load.at # "done" => \A i \in 1 .. Len(thread) + 1 : new[i].t >= i
      BY <1>1, <3>3, <3>4, <3>12 DEF TurnsInv, Opening
    <3>14. Opening'
      BY <1>2, <3>1, <3>3, <3>13 DEF TurnsInv, Opening
    <3> QED BY <3>8, <3>10, <3>11, <3>14 DEF TurnsInv
  <2>2. CASE m.e \in 1 .. Text /\ ApplyText(m)
    <3>1. prevId' = prevId
      BY <2>2 DEF ApplyText
    <3>2. Running(thread) /\ thread # <<>> /\ thread' = Draw(thread, m)
      BY <1>4, <2>2 DEF ApplyText, Same, Busy, Running
    <3>3. /\ Len(thread') = Len(thread) /\ thread' # <<>>
          /\ \A i \in 1 .. Len(thread) : thread'[i].t = thread[i].t
          /\ Last(thread').t = Last(thread).t /\ Last(thread').st = Last(thread).st
      BY <1>1, <2>2, <3>2, ThreadIs, DrawIs
    <3>4. Running(thread')
      BY <3>2, <3>3 DEF Running
    <3>5. Drawn'
      <4>1. \A i \in 1 .. Len(thread), t \in 1 .. turn :
               thread[i].t = t /\ i # Len(thread) => prevId' >= t \/ Clear(t)'
        BY <3>1 DEF TurnsInv, Drawn, Clears
      <4>2. ASSUME NEW i \in 1 .. Len(thread'), thread'[i].t > 0, i # Len(thread')
            PROVE  prevId' >= thread'[i].t \/ Clear(thread[i].t)'
        <5>1. i \in 1 .. Len(thread) /\ thread'[i].t = thread[i].t /\ thread[i].t \in 1 .. turn
          BY <1>1, <2>0, <3>3, <4>2
        <5> QED BY <3>3, <4>1, <4>2, <5>1
      <4> QED BY <3>4, <4>2 DEF Drawn
    <3>6. prevId' <= turn /\ (load.at = "reading" /\ load.read.n < turn => prevId' < turn)
      BY <3>1 DEF TurnsInv, Order, Opening
    <3> QED BY <1>2, <3>3, <3>5, <3>6, RedrawnTurns
  <2>3. CASE m.e = Text + 1 /\ ApplyEnd(m)
    <3>1. thread' = Finished(thread) /\ prevId' = m.t
      BY <2>3 DEF ApplyEnd, Busy
    <3>2. Len(thread') = Len(thread) /\ \A i \in 1 .. Len(thread) : thread'[i].t = thread[i].t
      BY <3>1, ThreadIs, FinishedIs
    <3>3. Drawn'
      BY <2>0, <3>1, <3>2 DEF Drawn
    <3>4. load.at = "reading" /\ load.read.n < turn => prevId' < turn
      BY <1>1, <2>3, <3>1 DEF OfTurn, TurnsInv, Opening
    <3>5. prevId' <= turn
      BY <1>1, <3>1
    <3> QED BY <1>2, <3>2, <3>3, <3>4, <3>5, RedrawnTurns
  <2> QED BY <2>0, <2>1, <2>2, <2>3 DEF ApplyBusEvent
<1> QED BY <1>3, <1>4

\* A message that no turn is heard of for stands between the turns, when it is sent
\* and when it turns out so.
LEMMA UnsentTurns ==
  TypeInv /\ Hands /\ TurnsInv /\ Clears /\ (SendInVain \/ PostUnsent) => TurnsInv'
<1> SUFFICES ASSUME TypeInv, Hands, TurnsInv, Clears, SendInVain \/ PostUnsent PROVE TurnsInv'
  OBVIOUS
<1> USE DEF gateway, own, bus, reads, drawn
<1>0. /\ turn \in Nat /\ Len(thread) \in Nat /\ Ordered(thread) /\ prevId <= turn /\ prevId \in Nat
      /\ \A i \in 1 .. Len(thread) : thread[i].t \in Nat
  BY ThreadIs, BoundsAssumption DEF TurnsInv, Order
<1>1. UNCHANGED <<turn, stage, prevId, dropped, load>> /\ load.at = "done"
  BY DEF SendInVain, PutMessage, PostUnsent, PostOver, Hands
<1>2. Opening'
  BY <1>0, <1>1 DEF Opening
<1>3. ASSUME NEW new, thread' = new, ~Running(new) \/ new[Len(new)].t = 0,
             \A i \in 1 .. Len(new) : new[i].t # 0 =>
               i \in 1 .. Len(thread) /\ new[i] = thread[i] /\ ~(Running(thread) /\ i = Len(thread))
      PROVE  Drawn'
  <2>1. ASSUME NEW i \in 1 .. Len(thread'), thread'[i].t > 0
        PROVE  prevId' >= thread'[i].t \/ Clear(thread[i].t)'
    <3>1. /\ i \in 1 .. Len(thread) /\ thread'[i].t = thread[i].t /\ thread[i].t \in 1 .. turn
          /\ ~(Running(thread) /\ i = Len(thread))
      BY <1>0, <1>3, <2>1 DEF Ordered
    <3>2. \A t \in 1 .. turn : thread[i].t = t => prevId' >= t \/ Clear(t)'
      BY <1>1, <3>1 DEF TurnsInv, Drawn, Clears
    <3> QED BY <3>1, <3>2
  <2> QED BY <2>1 DEF Drawn
<1>4. CASE SendInVain
  <2> DEFINE new == Append(thread, Begun(0))
  <2>1. thread' = new /\ ~Running(thread) /\ mine' = mine
    BY <1>4 DEF SendInVain, PutMessage, Busy, Hands
  <2>2. /\ Len(new) = Len(thread) + 1
        /\ \A i \in 1 .. Len(thread) : new[i] = thread[i]
        /\ new[Len(thread) + 1] = Begun(0)
    BY ThreadIs, BegunIs, BoundsAssumption
  <2> HIDE DEF new
  <2>3. Begun(0).t = 0
    BY DEF Begun
  <2>4. Ordered(new)
    <3>1. \A i \in 1 .. Len(new) : new[i].t <= turn
      BY <1>0, <2>2, <2>3 DEF Ordered
    <3> SUFFICES ASSUME NEW i \in 1 .. Len(new), NEW j \in 1 .. Len(new), i < j, new[j].t # 0
                 PROVE  new[i].t < new[j].t
      BY <3>1 DEF Ordered
    <3>2. i \in 1 .. Len(thread) /\ j \in 1 .. Len(thread) /\ new[i] = thread[i] /\ new[j] = thread[j]
      BY <1>0, <2>2, <2>3
    <3> QED BY <1>0, <3>2 DEF Ordered
  <2>5. Order'
    BY <1>0, <1>1, <2>1, <2>4 DEF Order, Ordered
  <2>6. turn > 0 => (Shown' <=> Shown)
    <3>1. turn > 0 => (Holds(new) <=> Holds(thread))
      BY <1>0, <2>2, <2>3 DEF Holds
    <3> QED BY <1>0, <1>1, <2>1, <3>1 DEF Shown, Holds
  <2>7. Drawn'
    BY <1>0, <1>3, <2>1, <2>2, <2>3
  <2>8. OwnShown'
    BY <1>0, <1>1, <2>1, <2>6, ThreadIs DEF TurnsInv, OwnShown, Own
  <2> QED BY <1>2, <2>5, <2>7, <2>8 DEF TurnsInv
<1>5. CASE PostUnsent
  <2> DEFINE new == WithLast(thread, NotSent)
  <2>1. thread' = new /\ thread # <<>> /\ mine' = mine \ {Last(thread).t}
    BY <1>5 DEF PostUnsent, Busy, Hands
  <2>2. /\ Len(new) = Len(thread) /\ new[Len(thread)] = NotSent
        /\ \A i \in 1 .. Len(thread) : i # Len(thread) => new[i] = thread[i]
    BY <2>1, ThreadIs, WithLastIs, AnswerTypes
  <2> HIDE DEF new
  <2>3. NotSent.t = 0
    BY DEF NotSent
  <2>4. Ordered(new)
    <3>1. \A i \in 1 .. Len(new) : new[i].t <= turn
      BY <1>0, <2>2, <2>3 DEF Ordered
    <3> SUFFICES ASSUME NEW i \in 1 .. Len(new), NEW j \in 1 .. Len(new), i < j, new[j].t # 0
                 PROVE  new[i].t < new[j].t
      BY <3>1 DEF Ordered
    <3>2. i \in 1 .. Len(thread) /\ j \in 1 .. Len(thread) /\ new[i] = thread[i] /\ new[j] = thread[j]
      BY <1>0, <2>2, <2>3
    <3> QED BY <1>0, <3>2 DEF Ordered
  <2>5. Order'
    BY <1>0, <1>1, <2>1, <2>4 DEF Order, Ordered
  <2>6. turn > 0 /\ Last(thread).t # turn /\ Shown => Shown'
    BY <1>0, <1>1, <2>1, <2>2, ThreadIs DEF Shown, Holds
  <2>8. Drawn'
    BY <1>0, <1>3, <2>1, <2>2, <2>3
  <2>9. OwnShown'
    BY <1>0, <1>1, <2>1, <2>6, ThreadIs DEF TurnsInv, OwnShown, Own
  <2> QED BY <1>2, <2>5, <2>8, <2>9 DEF TurnsInv
<1> QED BY <1>4, <1>5

\* What the tab's own stream brings: its first event before its last.
LEMMA StreamTurns ==
  TypeInv /\ Hands /\ TurnsInv /\ PostInv /\ Clears /\ ReadPost => TurnsInv'
<1> SUFFICES ASSUME TypeInv, Hands, TurnsInv, PostInv, Clears, ReadPost PROVE TurnsInv'
  OBVIOUS
<1> USE DEF gateway, own, bus, reads, drawn
<1> DEFINE m == Head(post)
<1>1. m \in Event /\ m = post[1] /\ Len(post) \in Nat \ {0}
  BY QueueTypes DEF ReadPost, TypeInv, TypeOK
<1>2. /\ UNCHANGED <<turn, stage, mine, dropped, load>>
      /\ load.at = "done" /\ thread # <<>> /\ posting
  BY DEF ReadPost, Hands
<1>3. m.t = Last(thread).t /\ m.t \in 1 .. Turns
  BY <1>1 DEF PostInv, PostOfAnswer, Event
<1>4. turn \in Nat /\ m.t <= turn
  BY <1>2, <1>3, ThreadIs, BoundsAssumption DEF TurnsInv, Order, Ordered
<1>5. prevId' <= turn /\ (m.e = 0 => prevId' = m.t) /\ (m.e # 0 => prevId' = prevId)
  BY <1>4 DEF ReadPost, TurnsInv, Order
<1>6. m.e > 0 => prevId = Last(thread).t
  BY <1>1, <1>2 DEF PostInv, StartFirst
<1>8. Len(thread') = Len(thread) /\ \A i \in 1 .. Len(thread) : thread'[i].t = thread[i].t
  <2>1. CASE m.e = 0
    BY <2>1 DEF ReadPost, Same, Busy
  <2>2. CASE m.e \in 1 .. Text
    <3>1. thread' = Draw(thread, m)
      BY <2>2 DEF ReadPost, Same, Busy
    <3> QED BY <1>1, <1>2, <2>2, <3>1, ThreadIs, DrawIs
  <2>3. CASE m.e = Text + 1
    <3>1. thread' = Finished(thread)
      BY <2>3, BoundsAssumption DEF ReadPost, Same, Busy
    <3> QED BY <3>1, ThreadIs, FinishedIs
  <2> QED BY <1>1, <2>1, <2>2, <2>3, BoundsAssumption DEF Event
<1>9. prevId' = m.t
  BY <1>1, <1>3, <1>5, <1>6, BoundsAssumption DEF Event
<1>10. \A i \in 1 .. Len(thread) : thread[i].t <= m.t
  <2>1. Last(thread) = thread[Len(thread)] /\ Len(thread) \in 1 .. Len(thread)
    BY <1>2, ThreadIs
  <2>2. \A i \in 1 .. Len(thread) : i # Len(thread) => thread[i].t < m.t
    BY <1>3, <2>1 DEF TurnsInv, Order, Ordered
  <2> QED BY <1>3, <2>1, <2>2, ThreadIs, BoundsAssumption
<1>11. Drawn'
  BY <1>8, <1>9, <1>10 DEF Drawn
<1> QED BY <1>2, <1>5, <1>8, <1>11, RedrawnTurns

\* The read of the opened task brings all the turns that the thread may hold.
LEMMA LoadTurns ==
  TypeInv /\ Hands /\ TurnsInv /\ Clears /\ LoadApply => TurnsInv'
<1> SUFFICES ASSUME TypeInv, Hands, TurnsInv, Clears, LoadApply PROVE TurnsInv'
  OBVIOUS
<1> USE DEF gateway, own, bus, reads, drawn
<1> DEFINE v == load.read
           server == Answers(v)
<1>0. v \in ReadOf /\ load.at = "reading"
  BY DEF TypeInv, ReadsHold, LoadApply
<1>1. UNCHANGED <<turn, stage, mine, dropped>> /\ load'.at = "done" /\ mine = {}
  BY DEF LoadApply, Hands
<1>2. OwnShown' /\ Opening'
  BY <1>1 DEF OwnShown, Own, Opening
<1>3. /\ server \in Seq(Answer) /\ Len(server) = v.n /\ v.n \in Nat /\ v.n <= turn
      /\ \A i \in 1 .. v.n : server[i].t = i
      /\ Ordered(server)
  BY <1>0, RecordTurns
<1>4. /\ thread \in Seq(Answer) /\ Len(thread) \in Nat /\ turn \in Nat /\ prevId \in Nat
      /\ \A i \in 1 .. Len(thread) : thread[i].t \in Nat /\ thread[i].t >= i /\ thread[i].t <= turn
  BY <1>0, ThreadIs, BoundsAssumption DEF TurnsInv, Order, Ordered, Opening
<1>5. v.n < turn => stage = "running" /\ prevId < turn /\ turn <= v.n + 1
  BY <1>0 DEF TurnsInv, Opening
<1> HIDE DEF v, server
<1>6. ~Running(thread) => Len(thread) <= v.n
  <2> SUFFICES ASSUME ~Running(thread), Len(thread) > v.n PROVE FALSE
    BY <1>3, <1>4
  <2> DEFINE i == v.n + 1
  <2>1. i \in 1 .. Len(thread) /\ v.n < turn /\ thread[i].t = turn
    BY <1>3, <1>4, <1>5
  <2>2. turn > 0 /\ ~Running(thread)
    BY <1>3, <1>4, <2>1
  <2> HIDE DEF i
  <2>3. prevId >= turn \/ Clear(turn)
    BY <2>1, <2>2 DEF TurnsInv, Drawn
  <2> QED BY <1>4, <1>5, <2>1, <2>3 DEF Clear
<1>7. ASSUME thread' = server, prevId' = v.n PROVE TurnsInv'
  <2>1. Order'
    BY <1>1, <1>3, <1>7 DEF Order, Ordered
  <2>2. Drawn'
    BY <1>3, <1>7 DEF Drawn
  <2> QED BY <1>2, <2>1, <2>2 DEF TurnsInv
<1>8. CASE v.ended
  <2>1. thread' = WithTail(server, thread) /\ prevId' = v.n
    BY <1>8 DEF LoadApply, Busy, v, server
  <2>2. WithTail(server, thread) = server
    BY <1>3, <1>4, <1>6, WithTailIs
  <2> QED BY <1>7, <2>1, <2>2
<1>9. CASE ~v.ended /\ thread = <<>>
  <2>1. thread' = server /\ prevId' = v.n
    BY <1>9 DEF LoadApply, Busy, v, server
  <2> QED BY <1>7, <2>1
<1>10. CASE ~v.ended /\ thread # <<>>
  <2>1. thread' = thread /\ prevId' = prevId
    BY <1>10 DEF LoadApply, Same, Busy, v
  <2> QED BY <1>1, <2>1, StillTurns
<1> QED BY <1>8, <1>9, <1>10

\* settleFromRecord puts the record's turns in place of a thread that holds no more.
LEMMA SettleTurns ==
  TypeInv /\ Hands /\ TurnsInv /\ Clears /\ SettleApply => TurnsInv'
<1> SUFFICES ASSUME TypeInv, Hands, TurnsInv, Clears, SettleApply PROVE TurnsInv'
  OBVIOUS
<1> USE DEF gateway, own, bus, reads, drawn
<1>1. got \in ReadOf /\ UNCHANGED <<turn, stage, mine, load>>
  BY DEF TypeInv, ReadsHold, SettleApply
<1>2. CASE posting \/ Behind(got) \/ ~got.ended
  BY <1>1, <1>2, StillTurns DEF SettleApply, Busy
<1>3. CASE ~posting /\ ~Behind(got) /\ got.ended
  <2> DEFINE new == Answers(got)
  <2>1. /\ new \in Seq(Answer) /\ Len(new) = got.n /\ got.n \in Nat /\ got.n <= turn
        /\ \A i \in 1 .. got.n : new[i].t = i
        /\ Ordered(new)
        /\ got.n < turn => ~Holds(new)
        /\ got.n = turn /\ turn > 0 => Holds(new)
    BY <1>1, RecordTurns
  <2>2. Len(thread) \in Nat /\ thread \in Seq(Answer) /\ turn \in Nat /\ mine \subseteq 1 .. turn
    BY ThreadIs, BoundsAssumption
  <2>3. Len(thread) <= got.n
    BY <1>3, <2>1, <2>2 DEF Behind
  <2>4. WithTail(new, thread) = new
    BY <2>1, <2>2, <2>3, WithTailIs
  <2>5. thread' = new /\ prevId' = got.n
        /\ dropped' = IF got.n < turn THEN {turn} ELSE dropped
    BY <1>3, <2>4 DEF SettleApply, Busy
  <2>6. got.n = turn => turn = 0 \/ Ended
    BY <1>1, <1>3 DEF TypeInv, ReadsHold
  <2>7. stage = "running" => got.n < turn
    BY <2>1, <2>2, <2>6 DEF Ended, TypeInv, Phase
  <2> HIDE DEF new
  <2>8. Order'
    BY <1>1, <2>1, <2>5 DEF Order, Ordered
  <2>9. Drawn'
    BY <2>1, <2>5 DEF Drawn
  <2>10. OwnShown'
    <3>1. got.n < turn => ~Own'
      BY <1>1, <2>5 DEF Own
    <3>2. got.n = turn /\ Own' => Shown'
      <4>1. Own' => turn > 0
        BY <1>1, <2>2 DEF Own
      <4> QED BY <1>1, <2>1, <2>5, <4>1 DEF Shown, Holds
    <3> QED BY <2>1, <2>2, <3>1, <3>2 DEF OwnShown
  <2>11. Opening'
    <3>1. load.at # "done" => \A i \in 1 .. Len(new) : new[i].t >= i
      BY <2>1
    <3>2. load.at = "reading" /\ load.read.n < turn =>
                 stage = "running" /\ got.n < turn /\ turn <= load.read.n + 1
      BY <2>7 DEF TurnsInv, Opening
    <3> QED BY <1>1, <2>5, <3>1, <3>2 DEF Opening
  <2> QED BY <2>8, <2>9, <2>10, <2>11 DEF TurnsInv
<1> QED BY <1>2, <1>3

\* The settled read repairs a thread that holds the session's turns.
LEMMA FoldTurns ==
  TypeInv /\ Hands /\ TurnsInv /\ Clears /\ Fold => TurnsInv'
<1> SUFFICES ASSUME TypeInv, Hands, TurnsInv, Clears, Fold PROVE TurnsInv'
  OBVIOUS
<1> USE DEF gateway, own, bus, reads, drawn
<1>1. UNCHANGED <<turn, stage, mine, dropped, load, prevId>>
  BY DEF Fold
<1>2. CASE ~(gapped /\ turn = Len(thread))
  <2>1. thread' = thread
    BY <1>2 DEF Fold
  <2> QED BY <1>1, <2>1, StillTurns
<1>3. CASE gapped /\ turn = Len(thread)
  <2> DEFINE new == [i \in 1 .. turn |-> Settled(i)]
  <2>1. thread' = new
    BY <1>3 DEF Fold
  <2>2. turn \in 0 .. Turns /\ turn \in Nat /\ mine \subseteq 1 .. turn
    BY ThreadIs, BoundsAssumption
  <2>3. Len(new) = turn /\ \A i \in 1 .. turn : new[i] = Settled(i)
    BY <2>2, RepairedIs
  <2> HIDE DEF new
  <2>4. \A i \in 1 .. turn : new[i].t = i
    BY <2>3 DEF Settled
  <2>5. Order'
    BY <1>1, <2>1, <2>2, <2>3, <2>4 DEF Order, Ordered, TurnsInv
  <2>6. Drawn'
    <3>1. \A t \in 1 .. turn : Clear(t)'
      BY DEF Fold, Quiet, Clear, NoneOf
    <3>2. ASSUME NEW i \in 1 .. Len(thread'), thread'[i].t > 0
          PROVE  prevId' >= thread'[i].t \/ Clear(thread[i].t)'
      <4>1. thread'[i].t = i /\ i \in 1 .. turn
        BY <2>1, <2>3, <2>4, <3>2
      <4> QED BY <3>1, <4>1
    <3> QED BY <3>2 DEF Drawn
  <2>7. OwnShown'
    BY <1>1, <2>1, <2>2, <2>3, <2>4 DEF OwnShown, Own, Shown, Holds
  <2>8. Opening'
    BY <1>1, <2>1, <2>2, <2>3, <2>4 DEF TurnsInv, Opening
  <2> QED BY <2>5, <2>6, <2>7, <2>8 DEF TurnsInv
<1> QED BY <1>2, <1>3

\* Every step keeps the order of the turns.
LEMMA TurnsStep ==
  TypeInv /\ Hands /\ BusOfTurn /\ TurnsInv /\ PostInv /\ [Next]_vars /\ ~strayed' => TurnsInv'
<1> SUFFICES ASSUME TypeInv, Hands, BusOfTurn, TurnsInv, PostInv, [Next]_vars, ~strayed'
             PROVE  TurnsInv'
  OBVIOUS
<1> USE DEF gateway, own, bus, reads, drawn
<1>0. Clears
  BY ClearStep
<1>1. CASE Say \/ SayEnd
  BY <1>0, <1>1, StillTurns DEF Say, SayEnd, Emit
<1>2. CASE Finish \/ Persist
  BY <1>0, <1>2, StillTurns DEF Finish, Persist
<1>3. CASE Bus \/ PumpFails \/ QueueFull
  BY <1>0, <1>3, StillTurns DEF Bus, Pump, Hear, ListenAgain, PumpFails, QueueFull
<1>4. CASE ListenLost \/ FeedLost \/ Connect
  BY <1>0, <1>4, StillTurns DEF ListenLost, FeedLost, Connect
<1>5. CASE PostEnds \/ PostLost
  BY <1>0, <1>5, StillTurns DEF PostEnds, PostLost, PostLeft, PostOver, Busy
<1>6. CASE LoadRead
  <2>1. load.at = "opened" /\ load'.at = "reading" /\ load'.read.n = turn
    BY <1>6 DEF LoadRead, TurnsRead
  <2> QED BY <1>0, <1>6, <2>1, StillTurns DEF LoadRead
<1>7. CASE SettleRead \/ WatchRead
  BY <1>0, <1>7, StillTurns DEF SettleRead, WatchRead
<1>8. CASE UNCHANGED vars
  BY <1>0, <1>8, StillTurns DEF vars
<1> QED BY <1>0, <1>1, <1>2, <1>3, <1>4, <1>5, <1>6, <1>7, <1>8, AcceptTurns, FeedTurns,
           UnsentTurns, StreamTurns, LoadTurns, SettleTurns, FoldTurns DEF Next, Turn, Tab, Faults
-----------------------------------------------------------------------------
(* The tab's own stream. *)

\* Where the stream, the answer and what was said stay, so does their relation.
LEMMA StillPost ==
  ASSUME PostInv, UNCHANGED <<turn, said, post, posting, thread, prevId>>
  PROVE  PostInv'
<1>1. PostOfAnswer'
  BY DEF PostInv, PostOfAnswer
<1>2. PostOfTurn'
  BY DEF PostInv, PostOfTurn, Read, Reached, Pieces
<1>3. StartFirst'
  BY DEF PostInv, StartFirst
<1> QED BY <1>1, <1>2, <1>3 DEF PostInv

\* No stream has no events.
LEMMA NoPost ==
  ASSUME TypeInv, PostInv, ~posting, post' = post \/ post' = <<>>, ~posting'
  PROVE  PostInv'
<1>1. Len(post) = 0
  <2>1. Len(post) \in Nat
    BY LenProperties DEF TypeInv, TypeOK
  <2> QED BY <2>1 DEF PostInv, PostOfAnswer
<1>2. PostOfAnswer'
  BY <1>1 DEF PostOfAnswer
<1> QED BY <1>2 DEF PostInv, StartFirst, PostOfTurn

\* Every event said goes to the stream of its turn.
LEMMA SaidPost ==
  ASSUME TypeInv, PostInv, NEW k \in 0 .. Text + 1, k = said, Emit(k), turn > 0
  PROVE  PostInv'
<1>1. UNCHANGED <<turn, posting, thread, prevId>> /\ said' = said + 1
  BY DEF Emit, drawn
<1>2. CASE ~Streaming
  <2>1. post' = post
    BY <1>2 DEF Emit
  <2>2. PostOfAnswer'
    BY <1>1, <2>1 DEF PostInv, PostOfAnswer
  <2>3. PostOfTurn'
    BY <1>1, <1>2 DEF PostOfTurn, Streaming
  <2>4. StartFirst'
    BY <1>1, <2>1 DEF PostInv, StartFirst
  <2> QED BY <2>2, <2>3, <2>4 DEF PostInv
<1>3. CASE Streaming
  <2> DEFINE m == [t |-> turn, e |-> k]
  <2>1. post' = Append(post, m) /\ posting /\ Last(thread).t = turn
    BY <1>3 DEF Emit, Streaming
  <2>2. m.t = turn /\ m.e = k
    OBVIOUS
  <2>3. post \in Seq(Event) /\ Len(post) \in Nat /\ said \in Nat /\ Text \in Nat
    BY LenProperties, BoundsAssumption DEF TypeInv, TypeOK
  <2> HIDE DEF m
  <2>4. /\ Len(post') = Len(post) + 1
        /\ \A i \in 1 .. Len(post) : post'[i] = post[i]
        /\ post'[Len(post) + 1] = m
    BY <2>1, <2>3
  <2>5. PostOfAnswer'
    BY <1>1, <2>1, <2>2, <2>3, <2>4 DEF PostInv, PostOfAnswer
  <2>6. Read' = Read /\ Reached' = Reached /\ Read = said - Len(post)
    BY <1>1, <2>3, <2>4 DEF Read, Reached
  <2> HIDE DEF Reached
  <2>7. turn > 0 => \A i \in 1 .. Len(post) : post[i].e = Read + i - 1
    BY <2>1 DEF PostInv, PostOfTurn
  <2>8. turn > 0 => \A i \in 1 .. Len(post') : post'[i].e = Read + i - 1
    <3>1. post'[Len(post) + 1].e = Read + Len(post)
      BY <2>2, <2>3, <2>4, <2>6
    <3>2. ASSUME NEW i \in 1 .. Len(post'), turn > 0 PROVE post'[i].e = Read + i - 1
      <4>1. i \in 1 .. Len(post) \/ i = Len(post) + 1
        BY <2>3, <2>4
      <4>2. Read \in Int
        BY <2>3, <2>6
      <4>3. CASE i = Len(post) + 1
        BY <2>3, <3>1, <4>2, <4>3
      <4>4. CASE i \in 1 .. Len(post)
        BY <2>4, <2>7, <3>2, <4>4
      <4> QED BY <4>1, <4>3, <4>4
    <3> QED BY <3>2
  <2>9. Pieces(turn, Reached)' = Pieces(turn, Reached)
    BY <1>1, <2>6 DEF Pieces
  <2>10. PostOfTurn'
    BY <1>1, <2>1, <2>6, <2>8, <2>9 DEF PostInv, PostOfTurn
  <2>11. StartFirst'
    <3>1. Read >= 0 /\ (Read > 0 => prevId = turn)
      BY <2>1 DEF PostInv, PostOfTurn
    <3>2. ASSUME NEW i \in 1 .. Len(post'), i > 1 PROVE post'[i].e > 0
      <4>1. post'[i].e = Read + i - 1
        BY <2>8, <3>2
      <4> QED BY <2>3, <2>4, <2>6, <3>1, <3>2, <4>1
    <3>3. post'[1].e = Read
      BY <2>3, <2>4, <2>6, <2>8
    <3> QED BY <1>1, <2>1, <3>1, <3>2, <3>3 DEF StartFirst
  <2> QED BY <2>5, <2>10, <2>11 DEF PostInv
<1> QED BY <1>2, <1>3

\* A message begins a stream that nothing has been said on.
LEMMA SentPost == TypeInv /\ (Send \/ SendInVain) => PostInv'
<1> SUFFICES ASSUME TypeInv, Send \/ SendInVain PROVE PostInv'
  OBVIOUS
<1>1. ASSUME NEW t \in 0 .. Turns, PutMessage(t), turn' > 0 /\ t = turn' => said' = 0
      PROVE  PostInv'
  <2>1. post' = <<>> /\ thread' = Append(thread, Begun(t))
    BY <1>1 DEF PutMessage, Busy
  <2>2. Last(thread') = Begun(t)
    BY <2>1, ThreadIs, BegunIs
  <2>3. PostOfAnswer'
    BY <2>1 DEF PostOfAnswer
  <2>4. ASSUME turn' > 0, t = turn' PROVE PostOfTurn'
    <3>1. Len(post') = 0 /\ said' = 0
      BY <1>1, <2>1, <2>4
    <3>2. Read' = 0
      BY <3>1 DEF Read
    <3>3. Reached' = 0
      BY <3>2 DEF Reached
    <3>4. Pieces(turn', 0) = <<>>
      BY DEF Pieces
    <3>5. Last(thread').text = <<>> /\ Last(thread').st = "running"
      BY <2>2 DEF Begun
    <3>6. Pieces(turn, Reached)' = <<>>
      BY <3>3, <3>4 DEF Pieces
    <3> QED BY <3>1, <3>2, <3>5, <3>6, BoundsAssumption DEF PostOfTurn
  <2>5. PostOfTurn'
    BY <2>2, <2>4 DEF PostOfTurn, Begun
  <2>6. StartFirst'
    BY <2>1, EmptySeq DEF StartFirst
  <2> QED BY <2>3, <2>5, <2>6 DEF PostInv
<1>2. CASE Send
  <2>1. turn + 1 \in 0 .. Turns
    BY <1>2, ThreadIs, BoundsAssumption DEF Send, Accept
  <2> QED BY <1>1, <1>2, <2>1 DEF Send, Accept
<1>3. CASE SendInVain
  <2>1. 0 \in 0 .. Turns /\ turn' \in Nat
    BY <1>3, ThreadIs, BoundsAssumption DEF SendInVain, gateway
  <2> QED BY <1>1, <1>3, <2>1 DEF SendInVain
<1> QED BY <1>2, <1>3

\* Each event read makes the answer one event longer.
LEMMA ReadPostPost == TypeInv /\ Hands /\ Order /\ PostInv /\ ReadPost => PostInv'
<1> SUFFICES ASSUME TypeInv, Hands, Order, PostInv, ReadPost PROVE PostInv'
  OBVIOUS
<1> USE DEF gateway, own, bus, reads, drawn
<1> DEFINE m == Head(post)
<1>1. /\ m \in Event /\ m = post[1] /\ post' = Tail(post)
      /\ Len(post) \in Nat \ {0} /\ Len(post') = Len(post) - 1
      /\ \A i \in 1 .. Len(post') : post'[i] = post[i + 1]
  BY QueueTypes DEF ReadPost, TypeInv, TypeOK
<1>2. UNCHANGED <<turn, said, posting>> /\ posting /\ thread # <<>> /\ thread \in Seq(Answer)
  BY DEF ReadPost, Hands, TypeInv, TypeOK
<1>3. m.t = Last(thread).t /\ m.t \in 1 .. Turns /\ m.e \in 0 .. Text + 1 /\ m = [t |-> m.t, e |-> m.e]
  BY <1>1 DEF PostInv, PostOfAnswer, Event
<1> DEFINE th == CASE m.e = 0 -> thread [] m.e \in 1 .. Text -> Draw(thread, m)
                   [] OTHER -> Finished(thread)
<1>4. thread' = th
  BY DEF ReadPost, Same, Busy
<1>5. /\ m.e = 0 => th = thread
      /\ m.e \in 1 .. Text => /\ Last(th).t = Last(thread).t /\ Last(th).st = Last(thread).st
                              /\ Last(th).text = Append(Last(thread).text, m)
      /\ m.e = Text + 1 => /\ Last(th).t = Last(thread).t /\ Last(th).st = "done"
                           /\ Last(th).text = Last(thread).text
  <2>1. CASE m.e = 0
    BY <2>1, BoundsAssumption
  <2>2. CASE m.e \in 1 .. Text
    <3>1. th = Draw(thread, m)
      BY <2>2, BoundsAssumption
    <3> HIDE DEF th
    <3>2. /\ Last(Draw(thread, m)).t = Last(thread).t /\ Last(Draw(thread, m)).st = Last(thread).st
          /\ Last(Draw(thread, m)).text = Append(Last(thread).text, m)
      BY <1>1, <1>2, <2>2, DrawIs
    <3>3. m.e # 0 /\ m.e # Text + 1
      BY <2>2, BoundsAssumption
    <3> QED BY <3>1, <3>2, <3>3
  <2>3. CASE m.e = Text + 1
    <3>1. th = Finished(thread)
      BY <2>3, BoundsAssumption
    <3> HIDE DEF th
    <3> QED BY <1>2, <2>3, <3>1, FinishedIs, BoundsAssumption
  <2> QED BY <1>3, <2>1, <2>2, <2>3, BoundsAssumption
<1> HIDE DEF th
<1>6. Last(th).t = Last(thread).t
  BY <1>3, <1>5, BoundsAssumption
<1>7. PostOfAnswer'
  BY <1>1, <1>2, <1>4, <1>6 DEF PostInv, PostOfAnswer
<1>8. PostOfTurn'
  <2>1. SUFFICES ASSUME turn > 0, Last(thread).t = turn PROVE PostOfTurn'
    BY <1>2, <1>4, <1>6 DEF PostOfTurn
  <2>2. /\ Read >= 0
        /\ \A i \in 1 .. Len(post) : post[i].e = Read + i - 1
        /\ Read > 0 => prevId = turn
        /\ Last(thread).text = Pieces(turn, Reached)
        /\ Last(thread).st = IF Read = Text + 2 THEN "done" ELSE "running"
    BY <1>2, <2>1 DEF PostInv, PostOfTurn
  <2>3. Read \in Int /\ Read' = Read + 1 /\ said \in Nat /\ Text \in Nat
    BY <1>1, <1>2, BoundsAssumption DEF Read, TypeInv, TypeOK
  <2>4. m.e = Read
    BY <1>1, <2>2, <2>3
  <2> HIDE DEF Read
  <2>5. \A i \in 1 .. Len(post') : post'[i].e = Read' + i - 1
    BY <1>1, <2>2, <2>3
  <2>6. prevId' = turn
    BY <1>3, <2>1, <2>2, <2>3, <2>4 DEF ReadPost
  <2>7. Last(th).text = Pieces(turn, Reached') /\ Last(th).st = IF Read' = Text + 2 THEN "done" ELSE "running"
    <3>1. CASE m.e = 0
      <4>1. Reached = 0 /\ Reached' = 0
        BY <2>3, <2>4, <3>1 DEF Reached
      <4> QED BY <1>5, <2>2, <2>3, <2>4, <3>1, <4>1
    <3>2. CASE m.e \in 1 .. Text
      <4>1. Reached = Read - 1 /\ Reached' = Read
        BY <2>3, <2>4, <3>2 DEF Reached
      <4>2. turn \in 1 .. Turns /\ Read - 1 \in 0 .. Text - 1 /\ m = [t |-> turn, e |-> (Read - 1) + 1]
        BY <1>3, <2>1, <2>3, <2>4, <3>2
      <4>3. Append(Pieces(turn, Read - 1), m) = Pieces(turn, (Read - 1) + 1)
        BY <4>2, PieceAdded
      <4>4. Last(th).text = Pieces(turn, Reached')
        <5>1. (Read - 1) + 1 = Reached'
          BY <2>3, <4>1
        <5>2. Last(th).text = Append(Pieces(turn, Read - 1), m)
          BY <1>5, <2>2, <3>2, <4>1
        <5> QED BY <4>3, <5>1, <5>2
      <4> QED BY <1>5, <2>2, <2>3, <2>4, <3>2, <4>4
    <3>3. CASE m.e = Text + 1
      <4>1. Reached = Text /\ Reached' = Text
        BY <2>3, <2>4, <3>3 DEF Reached
      <4> QED BY <1>5, <2>2, <2>3, <2>4, <3>3, <4>1
    <3> QED BY <1>3, <2>3, <3>1, <3>2, <3>3
  <2>8. Pieces(turn, Reached)' = Pieces(turn, Reached')
    BY <1>2 DEF Pieces
  <2> QED BY <1>2, <1>4, <2>2, <2>3, <2>5, <2>6, <2>7, <2>8 DEF PostOfTurn
<1>9. StartFirst'
  <2>1. prevId' = Last(thread).t
    BY <1>1, <1>2, <1>3, BoundsAssumption DEF ReadPost, PostInv, StartFirst
  <2>2. \A i \in 1 .. Len(post') : post'[i].e > 0
    BY <1>1, <1>2 DEF PostInv, StartFirst
  <2>3. post' # <<>> => 1 \in 1 .. Len(post')
    BY <1>1, EmptySeq, LenProperties DEF TypeInv, TypeOK
  <2> QED BY <1>2, <1>4, <1>6, <2>1, <2>2, <2>3 DEF StartFirst
<1> QED BY <1>7, <1>8, <1>9 DEF PostInv

\* Every step keeps the stream's relation to the answer.
LEMMA PostStep ==
  TypeInv /\ Hands /\ Order /\ PostInv /\ [Next]_vars => PostInv'
<1> SUFFICES ASSUME TypeInv, Hands, Order, PostInv, [Next]_vars PROVE PostInv'
  OBVIOUS
<1> USE DEF gateway, own, bus, reads, drawn
<1>1. CASE SendElsewhere
  <2>1. UNCHANGED <<post, posting, thread, prevId>> /\ turn' = turn + 1
    BY <1>1 DEF SendElsewhere, Accept
  <2>2. PostOfAnswer'
    BY <2>1 DEF PostInv, PostOfAnswer
  <2>3. posting => Last(thread).t # turn + 1
    BY ThreadIs, BoundsAssumption DEF Hands, Order, Ordered
  <2>4. PostOfTurn'
    BY <2>1, <2>3 DEF PostOfTurn
  <2>5. StartFirst'
    BY <2>1 DEF PostInv, StartFirst
  <2> QED BY <2>2, <2>4, <2>5 DEF PostInv
<1>2. CASE Say
  <2>1. said \in 0 .. Text + 1 /\ Emit(said) /\ turn > 0
    BY <1>2 DEF Say, TypeInv, TypeOK, Phase
  <2> QED BY <2>1, SaidPost
<1>3. CASE SayEnd
  <2>1. said \in 0 .. Text + 1 /\ Emit(said) /\ turn > 0
    BY <1>3, BoundsAssumption DEF SayEnd, TypeInv, TypeOK, Phase
  <2> QED BY <2>1, SaidPost
<1>4. CASE Finish \/ Persist
  BY <1>4, StillPost DEF Finish, Persist
<1>5. CASE Bus \/ PumpFails \/ QueueFull \/ ListenLost \/ FeedLost \/ Connect
  BY <1>5, StillPost DEF Bus, Pump, Hear, ListenAgain, PumpFails, QueueFull, ListenLost, FeedLost, Connect
<1>6. CASE ApplyBusEvent
  <2>1. CASE suppress
    BY <1>6, <2>1, StillPost DEF ApplyBusEvent
  <2>2. CASE ~suppress
    BY <1>6, <2>2, NoPost DEF ApplyBusEvent, Hands
  <2> QED BY <2>1, <2>2
<1>7. CASE PostEnds \/ PostLost \/ PostUnsent
  <2>1. post' = <<>> /\ ~posting'
    BY <1>7 DEF PostEnds, PostLost, PostLeft, PostUnsent, PostOver
  <2> QED BY <2>1 DEF PostInv, PostOfAnswer, StartFirst, PostOfTurn
<1>8. CASE LoadRead \/ SettleRead \/ WatchRead
  BY <1>8, StillPost DEF LoadRead, SettleRead, WatchRead
<1>9. CASE LoadApply \/ Fold
  <2>1. ~posting /\ UNCHANGED <<post, posting>>
    BY <1>9 DEF LoadApply, Fold, Hands
  <2> QED BY <2>1, NoPost
<1>10. CASE SettleApply
  <2>1. CASE posting
    BY <1>10, <2>1, StillPost DEF SettleApply, Busy
  <2>2. CASE ~posting
    BY <1>10, <2>2, NoPost DEF SettleApply
  <2> QED BY <2>1, <2>2
<1>11. CASE UNCHANGED vars
  BY <1>11, StillPost DEF vars
<1> QED BY <1>1, <1>2, <1>3, <1>4, <1>5, <1>6, <1>7, <1>8, <1>9, <1>10, <1>11, SentPost, ReadPostPost
        DEF Next, Turn, Bus, Tab, Faults
-----------------------------------------------------------------------------
(* The answer to a turn of the tab's own. *)

\* Where thread, turn and debts stay, the answer does.
LEMMA StillWhole ==
  ASSUME OwnWhole, UNCHANGED <<turn, mine, dropped, posting, gapped, thread>>
  PROVE  OwnWhole'
  BY DEF OwnWhole, Own, HoldsTurns, Whole, Pieces

\* The feed draws onto no answer that is whole.
LEMMA FeedWhole ==
  TypeInv /\ Hands /\ TurnsInv /\ BusOfTurn /\ OwnWhole /\ ApplyBusEvent /\ ~strayed' => OwnWhole'
<1> SUFFICES ASSUME TypeInv, Hands, TurnsInv, BusOfTurn, OwnWhole, ApplyBusEvent, ~strayed'
             PROVE  OwnWhole'
  OBVIOUS
<1> USE DEF gateway, own, bus, reads, drawn
<1> DEFINE m == Head(queue)
<1>1. m \in Event /\ m.t \in 1 .. turn /\ ~Clear(m.t)
  BY NotLate
<1>2. UNCHANGED <<turn, mine, dropped, posting, gapped>>
  BY DEF ApplyBusEvent
<1>3. ASSUME thread' # thread, Own, ~posting, ~gapped, HoldsTurns'
      PROVE  Last(thread').st # "running" /\ Last(thread').text = Whole(turn)
  <2>0. ~suppress /\ turn > 0 /\ turn \in Nat /\ \E i \in 1 .. Len(thread) : thread[i].t = turn
    BY <1>3, ThreadIs, BoundsAssumption DEF ApplyBusEvent, TurnsInv, OwnShown, Own, Shown, Holds
  <2>4. m.t = turn
    BY <1>1, <1>3, <2>0, NotLate
  <2>1. CASE ApplyStart(m)
    <3>1. prevId >= turn \/ Running(thread)
      BY <1>1, <2>0, <2>4 DEF TurnsInv, Drawn
    <3>2. prevId <= turn /\ prevId \in Nat
      BY ThreadIs, BoundsAssumption DEF TurnsInv, Order
    <3> QED BY <1>3, <2>0, <2>1, <2>4, <3>1, <3>2 DEF ApplyStart, Same, Busy
  <2>2. CASE m.e \in 1 .. Text /\ ApplyText(m)
    <3>1. Running(thread) /\ thread' = Draw(thread, m) /\ thread # <<>>
      BY <1>3, <2>2 DEF ApplyText, Same, Busy, Running
    <3>2. Len(thread') = Len(thread) /\ \A i \in 1 .. Len(thread) : thread'[i].t = thread[i].t
      BY <1>1, <2>2, <3>1, ThreadIs, DrawIs
    <3>3. HoldsTurns
      BY <1>2, <1>3, <3>2 DEF HoldsTurns
    <3> QED BY <1>3, <3>1, <3>3 DEF OwnWhole, Running
  <2>3. CASE ApplyEnd(m)
    <3>1. thread' = Finished(thread)
      BY <2>3 DEF ApplyEnd, Busy
    <3>2. Len(thread') = Len(thread) /\ \A i \in 1 .. Len(thread) : thread'[i].t = thread[i].t
      BY <3>1, ThreadIs, FinishedIs
    <3>3. HoldsTurns
      BY <1>2, <1>3, <3>2 DEF HoldsTurns
    <3>4. thread # <<>>
      BY <2>0, <3>3 DEF HoldsTurns
    <3>5. Last(thread').st = "done" /\ Last(thread').text = Last(thread).text
      BY <3>1, <3>4, ThreadIs, FinishedIs
    <3> QED BY <1>3, <3>3, <3>5 DEF OwnWhole
  <2> QED BY <2>0, <2>1, <2>2, <2>3 DEF ApplyBusEvent
<1>4. CASE thread' = thread
  BY <1>2, <1>4, StillWhole
<1>5. CASE thread' # thread
  BY <1>2, <1>3, <1>5 DEF OwnWhole, Own, Whole, Pieces
<1> QED BY <1>4, <1>5

\* A stream that was read to the turn's end has drawn all of it; one that was not is
\* owed a repair.
LEMMA StreamWhole ==
  TypeInv /\ Hands /\ TurnsInv /\ PostInv /\ OwnWhole
    /\ (Send \/ SendInVain \/ ReadPost \/ PostEnds \/ PostLost \/ PostUnsent) => OwnWhole'
<1> SUFFICES ASSUME TypeInv, Hands, TurnsInv, PostInv, OwnWhole,
                    Send \/ SendInVain \/ ReadPost \/ PostEnds \/ PostLost \/ PostUnsent
             PROVE  OwnWhole'
  OBVIOUS
<1> USE DEF gateway, own, bus, reads, drawn
<1>1. CASE Send \/ SendInVain \/ ReadPost
  <2>1. CASE Send \/ SendInVain
    BY <2>1 DEF Send, SendInVain, PutMessage, OwnWhole
  <2>2. CASE ReadPost
    BY <2>2 DEF ReadPost, OwnWhole
  <2> QED BY <1>1, <2>1, <2>2
<1>2. CASE PostEnds \/ PostLost
  <2>1. PostLeft /\ posting /\ thread # <<>> /\ UNCHANGED <<turn, mine, dropped, thread>>
    BY <1>2 DEF PostEnds, PostLost, PostLeft, PostOver, Busy, Hands
  <2>2. CASE Running(thread)
    BY <2>1, <2>2 DEF PostLeft, OwnWhole
  <2>3. CASE ~Running(thread)
    <3>1. ASSUME Own, HoldsTurns
          PROVE  Last(thread).st # "running" /\ Last(thread).text = Whole(turn)
      <4>1. turn > 0 /\ Shown
        BY <3>1, ThreadIs, BoundsAssumption DEF Own, TurnsInv, OwnShown
      <4>2. Last(thread).t # 0
        BY <2>1, <3>1, ThreadIs DEF HoldsTurns
      <4>3. Last(thread).t = turn
        BY <4>1, <4>2, ShownLast DEF TurnsInv, Shown, Holds
      <4>4. /\ Last(thread).text = Pieces(turn, Reached)
            /\ Last(thread).st = IF Read = Text + 2 THEN "done" ELSE "running"
        BY <2>1, <4>1, <4>3 DEF PostInv, PostOfTurn
      <4>5. Last(thread).st # "running"
        BY <2>1, <2>3 DEF Running
      <4>6. Reached = Text
        BY <4>4, <4>5, BoundsAssumption DEF Reached
      <4> QED BY <4>4, <4>5, <4>6 DEF Whole
    <3> QED BY <2>1, <3>1 DEF OwnWhole, Own, HoldsTurns, Whole, Pieces
  <2> QED BY <2>2, <2>3
<1>3. CASE PostUnsent
  <2>1. thread' = WithLast(thread, NotSent) /\ thread # <<>> /\ turn' = turn
    BY <1>3 DEF PostUnsent, PostOver, Busy, Hands
  <2>2. Len(thread') = Len(thread) /\ thread'[Len(thread)].t = 0 /\ Len(thread) \in 1 .. Len(thread)
    <3>1. Len(thread') = Len(thread) /\ thread'[Len(thread)] = NotSent
      BY <2>1, ThreadIs, WithLastIs, AnswerTypes
    <3>2. NotSent.t = 0
      BY DEF NotSent
    <3> QED BY <2>1, <3>1, <3>2, ThreadIs
  <2>3. ~HoldsTurns'
    BY <2>2 DEF HoldsTurns
  <2> QED BY <2>3 DEF OwnWhole
<1> QED BY <1>1, <1>2, <1>3

\* The record puts the whole answer in place, or lacks the turn.
LEMMA RecordWhole ==
  TypeInv /\ Hands /\ OwnWhole /\ (LoadApply \/ SettleApply \/ Fold) => OwnWhole'
<1> SUFFICES ASSUME TypeInv, Hands, OwnWhole, LoadApply \/ SettleApply \/ Fold PROVE OwnWhole'
  OBVIOUS
<1> USE DEF gateway, own, bus, reads, drawn
<1>1. turn \in 0 .. Turns /\ turn \in Nat /\ mine \subseteq 1 .. turn /\ Len(thread) \in Nat
      /\ thread \in Seq(Answer)
  BY ThreadIs, BoundsAssumption
<1>2. ASSUME NEW new \in Seq(Answer), Len(new) = turn, \A i \in 1 .. turn : new[i] = Settled(i),
             turn > 0
      PROVE  Last(new).st # "running" /\ Last(new).text = Whole(turn)
  <2>1. Last(new) = Settled(turn)
    BY <1>1, <1>2 DEF Last
  <2> QED BY <2>1 DEF Settled
<1>3. CASE LoadApply
  <2>1. mine' = {}
    BY <1>3 DEF LoadApply, Hands
  <2> QED BY <2>1 DEF OwnWhole, Own
<1>4. CASE SettleApply
  <2>1. CASE posting \/ Behind(got) \/ ~got.ended
    <3>1. UNCHANGED <<turn, mine, dropped, posting, gapped, thread>>
      BY <1>4, <2>1 DEF SettleApply, Busy
    <3> QED BY <3>1, StillWhole
  <2>2. CASE ~posting /\ ~Behind(got) /\ got.ended
    <3>1. got \in ReadOf /\ got.n \in 0 .. turn
      BY DEF TypeInv, ReadsHold, ReadOf
    <3>2. /\ UNCHANGED <<turn, mine>> /\ thread' = WithTail(Answers(got), thread)
          /\ dropped' = IF got.n < turn THEN {turn} ELSE dropped
      BY <1>4, <2>2 DEF SettleApply, Busy
    <3>3. got.n < turn => ~Own'
      BY <3>2 DEF Own
    <3>4. ASSUME got.n = turn, turn > 0
          PROVE  Last(thread').st # "running" /\ Last(thread').text = Whole(turn)
      <4>1. /\ Answers(got) \in Seq(Answer) /\ Len(Answers(got)) = turn
            /\ \A i \in 1 .. turn : Answers(got)[i] = Settled(i)
        BY <2>2, <3>1, <3>4, ReadOfBound, AnswersAre
      <4>2. Len(thread) <= turn
        BY <1>1, <2>2, <3>4 DEF Behind
      <4>3. thread' = Answers(got)
        BY <1>1, <3>2, <4>1, <4>2, WithTailIs
      <4> QED BY <1>2, <3>4, <4>1, <4>3
    <3>5. got.n = turn /\ Own' => OwnWhole'
      BY <1>1, <3>2, <3>4 DEF OwnWhole, Own, Whole, Pieces
    <3>6. got.n = turn \/ got.n < turn
      BY <1>1, <3>1
    <3> QED BY <3>3, <3>5, <3>6 DEF OwnWhole
  <2> QED BY <2>1, <2>2
<1>5. CASE Fold
  <2>1. UNCHANGED <<turn, mine, dropped, posting>>
    BY <1>5 DEF Fold
  <2>2. CASE gapped /\ turn = Len(thread)
    <3> DEFINE new == [i \in 1 .. turn |-> Settled(i)]
    <3>1. thread' = new
      BY <1>5, <2>2 DEF Fold
    <3>2. new \in Seq(Answer) /\ Len(new) = turn /\ \A i \in 1 .. turn : new[i] = Settled(i)
      BY <1>1, RepairedIs
    <3> HIDE DEF new
    <3>3. Own => turn > 0
      BY <1>1 DEF Own
    <3>4. Own => Last(new).st # "running" /\ Last(new).text = Whole(turn)
      BY <1>2, <3>2, <3>3
    <3> QED BY <2>1, <3>1, <3>4 DEF OwnWhole, Own, Whole, Pieces
  <2>3. CASE gapped /\ turn # Len(thread)
    <3>1. thread' = thread
      BY <1>5, <2>3 DEF Fold
    <3> QED BY <2>1, <2>3, <3>1 DEF OwnWhole, HoldsTurns
  <2>4. CASE ~gapped
    <3>1. thread' = thread
      BY <1>5, <2>4 DEF Fold
    <3> QED BY <2>1, <2>4, <3>1 DEF OwnWhole, Own, HoldsTurns, Whole, Pieces
  <2> QED BY <2>2, <2>3, <2>4
<1> QED BY <1>3, <1>4, <1>5

\* Every step keeps the answer to the tab's own turn, once it is whole.
LEMMA WholeStep == FeedInv /\ ~strayed /\ [Next]_vars /\ ~strayed' => OwnWhole'
<1> SUFFICES ASSUME FeedInv, ~strayed, [Next]_vars, ~strayed' PROVE OwnWhole'
  OBVIOUS
<1> USE DEF gateway, own, bus, reads, drawn
<1>0. TypeInv /\ Hands /\ BusOfTurn /\ TurnsInv /\ PostInv /\ OwnWhole
  BY DEF FeedInv
<1>1. CASE SendElsewhere
  <2>1. mine' = {}
    BY <1>1 DEF SendElsewhere
  <2> QED BY <2>1 DEF OwnWhole, Own
<1>2. CASE Say \/ SayEnd \/ Finish \/ Persist
  BY <1>0, <1>2, StillWhole DEF Say, SayEnd, Emit, Finish, Persist
<1>3. CASE Bus \/ PumpFails \/ QueueFull \/ ListenLost \/ FeedLost \/ Connect
  BY <1>0, <1>3, StillWhole DEF Bus, Pump, Hear, ListenAgain, PumpFails, QueueFull, ListenLost,
     FeedLost, Connect
<1>4. CASE LoadRead \/ SettleRead \/ WatchRead
  BY <1>0, <1>4, StillWhole DEF LoadRead, SettleRead, WatchRead
<1>5. CASE UNCHANGED vars
  BY <1>0, <1>5, StillWhole DEF vars
<1> QED BY <1>0, <1>1, <1>2, <1>3, <1>4, <1>5, FeedWhole, StreamWhole, RecordWhole
        DEF Next, Turn, Tab, Faults
-----------------------------------------------------------------------------
(* The theorems. *)

\* A tab that has just opened the task keeps the invariant.
LEMMA FeedInit == Init => FeedInv
<1> SUFFICES ASSUME Init PROVE FeedInv
  OBVIOUS
<1> USE BoundsAssumption DEF Init
<1>1. <<>> \in Seq(Event) /\ <<>> \in Seq(Answer) /\ Len(<<>>) = 0
  BY EmptySeq
<1>2. TypeOK /\ Phase
  <2>1. /\ turn \in 0 .. Turns /\ said \in 0 .. Text + 2 /\ mine \cup dropped \subseteq 1 .. turn
        /\ prevId \in 0 .. Turns /\ seenEnd \in 0 .. Turns /\ tries \in 0 .. Tries + 1
        /\ faults \in 0 .. MaxFaults
    OBVIOUS
  <2>2. /\ pump \in Seq(Event) /\ wire \in Seq(Event) /\ queue \in Seq(Event)
        /\ post \in Seq(Event) /\ thread \in Seq(Answer)
    BY <1>1
  <2>3. /\ listening \in BOOLEAN /\ feed \in BOOLEAN /\ posting \in BOOLEAN /\ busy \in BOOLEAN
        /\ suppress \in BOOLEAN /\ gapped \in BOOLEAN /\ due \in BOOLEAN
        /\ strayed \in BOOLEAN
    OBVIOUS
  <2>4. stage = "recorded" /\ load.at = "opened" /\ watch = "off" /\ turn = 0
    OBVIOUS
  <2> HIDE DEF Init
  <2> QED BY <2>1, <2>2, <2>3, <2>4 DEF TypeOK, Phase
<1>3. ReadsHold
  BY DEF ReadsHold, ReadOf, Nothing
<1>4. Hands
  BY <1>1 DEF Hands, Running
<1>5. PostInv /\ OwnWhole
  BY <1>1 DEF PostInv, PostOfAnswer, StartFirst, PostOfTurn, OwnWhole, Own
<1>6. BusOfTurn /\ TurnsInv
  BY <1>1 DEF BusOfTurn, AllOfTurn, TurnsInv, Order, Ordered, Opening, Drawn, Shown, Holds,
     OwnShown, Own
<1> QED BY <1>2, <1>3, <1>4, <1>5, <1>6 DEF FeedInv, TypeInv

\* What has strayed into the thread stays in it.
LEMMA StrayedStays == strayed /\ [Next]_vars => strayed'
<1> SUFFICES ASSUME strayed, [Next]_vars PROVE strayed'
  OBVIOUS
<1> USE DEF gateway, own, bus, reads, drawn
<1>1. CASE Turn \/ Bus \/ Faults
  BY <1>1 DEF Turn, SendElsewhere, Say, Finish, SayEnd, Persist, Emit, Bus, Pump, Hear, ListenAgain,
     Faults, PumpFails, QueueFull, ListenLost, FeedLost, PostLost, PostLeft, PostUnsent
<1>2. CASE Tab \/ Send \/ SendInVain
  BY <1>2 DEF Tab, Connect, ApplyBusEvent, ReadPost, PostEnds, PostLeft, LoadRead, LoadApply,
     SettleRead, SettleApply, Fold, WatchRead, Send, SendInVain
<1>3. CASE UNCHANGED vars
  BY <1>3 DEF vars
<1> QED BY <1>1, <1>2, <1>3 DEF Next

\* The inductive invariant of the feed, the stream and the record: as long as nothing
\* late has strayed into the thread, what each of the three may still bring fits what
\* the thread shows already.
THEOREM FeedInvariant == Spec => []FeedInv
<1>1. FeedInv /\ [Next]_vars => FeedInv'
  <2> SUFFICES ASSUME FeedInv, [Next]_vars PROVE FeedInv'
    OBVIOUS
  <2>1. (TypeInv /\ Hands /\ BusOfTurn)'
    BY TypeStep, HandsStep, BusStep DEF FeedInv
  <2>2. ~strayed' => ~strayed
    BY StrayedStays
  <2>3. ~strayed' => (TurnsInv /\ PostInv /\ OwnWhole)'
    BY <2>2, TurnsStep, PostStep, WholeStep DEF FeedInv, TurnsInv
  <2> QED BY <2>1, <2>3 DEF FeedInv
<1> QED BY <1>1, FeedInit, PTL DEF Spec

\* Every variable of the bus, the stream and the tab stays in its range.
THEOREM TypeCorrect == Spec => []TypeOK
<1>1. FeedInv => TypeOK
  BY DEF FeedInv, TypeInv
<1> QED BY <1>1, FeedInvariant, PTL

\* TurnDrawnOnce for any number of turns, faults and messages, with any number of
\* earlier events still on the bus at an accept: a start from the feed finds its turn
\* drawn by the record or by the tab's own send, or draws it first, as long as no event
\* of an earlier turn has changed a thread that shows a later one.
THEOREM NoTurnDrawnTwice == Spec => []TurnDrawnOnce
<1>1. FeedInv => TurnDrawnOnce
  <2> SUFFICES ASSUME FeedInv, ~strayed, NEW i \in 1 .. Len(thread), NEW j \in 1 .. Len(thread),
                      thread[i].t = thread[j].t, thread[i].t # 0
               PROVE  i = j
    BY DEF TurnDrawnOnce
  <2>1. Ordered(thread) /\ Len(thread) \in Nat /\ thread[i].t \in Nat /\ thread[j].t \in Nat
    BY ThreadIs, BoundsAssumption DEF FeedInv, TurnsInv, Order
  <2> QED BY <2>1 DEF Ordered
<1> QED BY <1>1, FeedInvariant, PTL

\* OwnAnswerWhole for any number of turns, pieces, faults and messages, with any number
\* of earlier events still on the bus at an accept: what the stream drew is a beginning
\* of the answer, the feed adds nothing to it while the stream is read, and a stream
\* that broke leaves a repair due, as long as no event of an earlier turn has changed a
\* thread that shows a later one.
THEOREM OwnAnswerShownWhole == Spec => []OwnAnswerWhole
<1>1. FeedInv => OwnAnswerWhole
  <2> SUFFICES ASSUME FeedInv, ~strayed, Own, ~busy, ~gapped, HoldsTurns
               PROVE  \E i \in 1 .. turn : thread[i].t = turn /\ thread[i].text = Whole(turn)
    BY DEF OwnAnswerWhole, Own
  <2>1. TypeInv /\ Hands /\ Order /\ OwnShown /\ OwnWhole
    BY DEF FeedInv, TurnsInv
  <2>2. turn > 0 /\ Len(thread) = turn /\ Shown /\ ~posting
    BY <2>1, ThreadIs, BoundsAssumption DEF Own, OwnShown, HoldsTurns, Hands
  <2>3. thread # <<>>
    BY <2>2
  <2>4. Last(thread) = thread[turn] /\ turn \in 1 .. turn
    BY <2>1, <2>2, <2>3, ThreadIs
  <2>5. Last(thread).t # 0
    BY <2>4 DEF HoldsTurns
  <2>6. Last(thread).t = turn
    BY <2>1, <2>2, <2>5, ShownLast DEF Shown, Holds
  <2>7. Last(thread).text = Whole(turn)
    BY <2>1, <2>2 DEF OwnWhole
  <2> QED BY <2>4, <2>6, <2>7
<1> QED BY <1>1, FeedInvariant, PTL
=============================================================================
