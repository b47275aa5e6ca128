---------------------------- MODULE SessionDelete ----------------------------
(***************************************************************************)
(* Deleting a session (gateway/app.py): the tombstone, the purge of what   *)
(* the session left, the marker its record is reduced to, the late writes  *)
(* of a turn and of the reconcile sweep that meet the marker, the share    *)
(* link, and the retention sweep that removes the marker a day later.      *)
(*                                                                         *)
(* One session.  A status write reads the record first and writes when it  *)
(* is no tombstone (_session_write_allowed), in two calls of the store; so *)
(* does a card (_index_manifest).  What a turn stores under the session's  *)
(* id is one member of Kind per store.                                     *)
(***************************************************************************)
EXTENDS Naturals, FiniteSets

CONSTANTS
  Deleter,   \* the delete requests
  MayFail,   \* the steps whose store call may fail, each once
  MaxFailed  \* bound: failures in all

Step == {"look", "tombstone", "trace", "record", "strip", "sweepTrace", "sweepRecord"}

ASSUME MayFailAssumption == MayFail \subseteq Step
ASSUME MaxFailedAssumption == MaxFailed \in Nat

VARIABLES
  status,    \* the vertex's status: "absent" while there is no vertex, "bare"
             \* when it was made anew by a write that names no status
  shared,    \* the vertex's shared flag
  left,      \* the kinds of things stored for the session
  pc,        \* where each writer of statuses stands
  may,       \* what its check of the tombstone said
  del,       \* where each delete stands
  sawLive,   \* the delete read a session whose turn was live
  publish,   \* a share request has read the session
  due,       \* the marker is a day old
  sweep,     \* the retention sweep has purged the marker it is removing
  failed,    \* the steps that have failed
  tombed,    \* history: a tombstone has been written
  swept,     \* history: the sweep has removed the marker
  slipped    \* history: a status was written over the tombstone

sessionVars == <<status, shared, left>>
writerVars == <<pc, may>>
deleteVars == <<del, sawLive>>
sweepVars == <<due, sweep>>
historyVars == <<tombed, swept, slipped>>
vars == <<sessionVars, writerVars, deleteVars, publish, sweepVars, failed, historyVars>>
-----------------------------------------------------------------------------
\* Files, checkpoint and media go the way of "record": put without a check,
\* removed in steps whose failure is passed over.
Kind == {"card", "trace", "record"}

\* The turn's task, and the reconcile sweep's settling of the session.
Writer == {"turn", "settler"}

TurnLive == pc["turn"] \notin {"idle", "over"}
Writing == \E w \in Writer : pc[w] \notin {"idle", "over"}
Deleting == \E d \in Deleter : del[d] \notin {"idle", "answered", "error"}
Answered == \E d \in Deleter : del[d] = "answered"

Goto(w, l) == pc' = [pc EXCEPT ![w] = l]
DelGoto(d, l) == del' = [del EXCEPT ![d] = l]

\* A step fails without a word, or does what it should.
Fails(s) ==
  /\ s \in MayFail \ failed /\ Cardinality(failed) < MaxFailed
  /\ failed' = failed \cup {s}
Works == UNCHANGED failed

\* Mutant: the Responses word, which no reader of a vertex knows.
OutcomeWord == "completed"

\* How a turn ends, for the vertex.
Outcome == "done"

\* Mutant: a share is resolved by its flag alone.
SharedFlag == shared

\* _session_shared, _share_sid.
LinkResolves == shared /\ status # "deleted"
-----------------------------------------------------------------------------
Init ==
  /\ pc \in [Writer -> {"idle", "live"}] /\ pc["settler"] = "idle"
  /\ status = IF pc["turn"] = "live" THEN "running" ELSE "done"
  /\ shared \in BOOLEAN
  /\ left = Kind
  /\ may = [w \in Writer |-> FALSE]
  /\ del = [d \in Deleter |-> "idle"]
  /\ sawLive = [d \in Deleter |-> FALSE]
  /\ publish = FALSE
  /\ due = FALSE /\ sweep = FALSE
  /\ failed = {}
  /\ tombed = FALSE /\ swept = FALSE /\ slipped = FALSE

(* A write of a status, and of a card. *)

\* _session_write_allowed: a record that is not there is no tombstone, and one
\* that cannot be read is taken for none.
StatusLook(w, to) ==
  /\ \/ Works /\ may' = [may EXCEPT ![w] = status # "deleted"]
     \/ Fails("look") /\ may' = [may EXCEPT ![w] = TRUE]
  /\ Goto(w, to)

\* BACKING.graph.upsert, with what the check said.
StatusWrite(w, s) ==
  /\ status' = IF may[w] THEN s ELSE status
  /\ slipped' = (slipped \/ (may[w] /\ status = "deleted"))

(* A turn. *)

\* A follow-up is refused on a tombstone.
Accept ==
  /\ pc["turn"] = "idle"
  /\ status \in {"running", "done"}
  /\ Goto("turn", "accepted")
  /\ UNCHANGED <<sessionVars, may, deleteVars, publish, sweepVars, failed, historyVars>>

BeginLook ==
  /\ pc["turn"] = "accepted"
  /\ StatusLook("turn", "begin")
  /\ UNCHANGED <<sessionVars, deleteVars, publish, sweepVars, historyVars>>

\* The turn is running, its record is stored, and its card is written without a
\* check: "the vertex was written by this accept a moment ago".
Begin ==
  /\ pc["turn"] = "begin"
  /\ StatusWrite("turn", "running")
  /\ left' = left \cup {"record", "card"}
  /\ Goto("turn", "live")
  /\ UNCHANGED <<shared, may, deleteVars, publish, sweepVars, failed, tombed, swept>>

\* A chunk of events.
Flush ==
  /\ pc["turn"] = "live"
  /\ left' = left \cup {"trace"}
  /\ UNCHANGED <<status, shared, writerVars, deleteVars, publish, sweepVars, failed, historyVars>>

\* A heartbeat names no status and is not checked.
Beat ==
  /\ pc["turn"] = "live" /\ status = "absent"
  /\ status' = "bare"
  /\ UNCHANGED <<shared, left, writerVars, deleteVars, publish, sweepVars, failed, historyVars>>

\* The turn ends, stopped by the delete or by itself.
EndLook ==
  /\ pc["turn"] = "live"
  /\ StatusLook("turn", "stamp")
  /\ UNCHANGED <<sessionVars, deleteVars, publish, sweepVars, historyVars>>

\* _reconcile_session has a verdict on a running session.
SettleLook ==
  /\ pc["settler"] = "idle" /\ status = "running"
  /\ StatusLook("settler", "stamp")
  /\ UNCHANGED <<sessionVars, deleteVars, publish, sweepVars, historyVars>>

\* The end's status; a settler's card goes the way of a turn's.
Stamp(w) ==
  /\ pc[w] = "stamp"
  /\ StatusWrite(w, Outcome)
  /\ Goto(w, IF w = "turn" THEN "look" ELSE "over")
  /\ UNCHANGED <<shared, left, may, deleteVars, publish, sweepVars, failed, tombed, swept>>

\* _index_manifest reads the record as a status write does.
CardLook ==
  /\ pc["turn"] = "look"
  /\ StatusLook("turn", "card")
  /\ UNCHANGED <<sessionVars, deleteVars, publish, sweepVars, historyVars>>

\* The card; then _resp_put, which checks nothing.
CardPut ==
  /\ pc["turn"] = "card"
  /\ left' = left \cup {"record"} \cup (IF may["turn"] THEN {"card"} ELSE {})
  /\ Goto("turn", "over")
  /\ UNCHANGED <<status, shared, may, deleteVars, publish, sweepVars, failed, historyVars>>

Crash ==
  /\ TurnLive
  /\ Goto("turn", "over")
  /\ UNCHANGED <<sessionVars, may, deleteVars, publish, sweepVars, failed, historyVars>>

(* The share. *)

\* set_session_share reads the session, a marker too, and writes no status.
PublishRead ==
  /\ ~publish /\ status \notin {"absent", "bare"}
  /\ publish' = TRUE
  /\ UNCHANGED <<sessionVars, writerVars, deleteVars, sweepVars, failed, historyVars>>

PublishWrite ==
  /\ publish
  /\ shared' = TRUE
  /\ status' = IF status = "absent" THEN "bare" ELSE status
  /\ publish' = FALSE
  /\ UNCHANGED <<left, writerVars, deleteVars, sweepVars, failed, historyVars>>

(* delete_trace. *)

\* A tombstoned session may be deleted again.
DelRead(d) ==
  /\ del[d] = "idle" /\ status \notin {"absent", "bare"}
  /\ sawLive' = [sawLive EXCEPT ![d] = status = "running"]
  /\ DelGoto(d, "mark")
  /\ UNCHANGED <<sessionVars, writerVars, publish, sweepVars, failed, historyVars>>

DelMark(d) ==
  /\ del[d] = "mark"
  /\ \/ /\ Works
        /\ status' = "deleted" /\ shared' = FALSE
        /\ due' = FALSE /\ tombed' = TRUE
     \/ /\ Fails("tombstone")
        /\ UNCHANGED <<status, shared, due, tombed>>
  /\ DelGoto(d, IF sawLive[d] THEN "stop" ELSE "trace")
  /\ UNCHANGED <<left, writerVars, sawLive, publish, sweep, swept, slipped>>

\* _stop_session waits for nothing but its own writes; the tombstone refuses
\* "cancelled".
DelStop(d) ==
  /\ del[d] = "stop"
  /\ status' = IF status = "deleted" THEN status ELSE "done"
  /\ DelGoto(d, "trace")
  /\ UNCHANGED <<shared, left, writerVars, sawLive, publish, sweepVars, failed, historyVars>>

\* The trace and the card.  A listing that raises is the one failure that is
\* answered: the delete ends here.
DelTrace(d) ==
  /\ del[d] = "trace"
  /\ \/ Works /\ left' = left \ {"trace", "card"} /\ DelGoto(d, "record")
     \/ Fails("trace") /\ UNCHANGED left /\ DelGoto(d, "error")
  /\ UNCHANGED <<status, shared, writerVars, sawLive, publish, sweepVars, historyVars>>

\* The responses and the files: what fails is passed over.
DelRecords(d) ==
  /\ del[d] = "record"
  /\ \/ Works /\ left' = left \ {"record"}
     \/ Fails("record") /\ UNCHANGED left
  /\ DelGoto(d, "strip")
  /\ UNCHANGED <<status, shared, writerVars, sawLive, publish, sweepVars, historyVars>>

\* _session_strip removes the record ...
StripDrop(d) ==
  /\ del[d] = "strip"
  /\ status' = "absent" /\ shared' = FALSE
  /\ DelGoto(d, "marker")
  /\ UNCHANGED <<left, writerVars, sawLive, publish, sweepVars, failed, historyVars>>

\* ... and writes the marker fresh.
StripMarker(d) ==
  /\ del[d] = "marker"
  /\ \/ /\ Works
        /\ status' = "deleted" /\ shared' = FALSE /\ tombed' = TRUE
     \/ /\ Fails("strip")
        /\ UNCHANGED <<status, shared, tombed>>
  /\ DelGoto(d, "answered")
  /\ UNCHANGED <<left, writerVars, sawLive, publish, sweepVars, swept, slipped>>

(* The retention sweep. *)

\* A marker outlives every turn and every request that was under way when it
\* was written: a day, and a turn's cap is a quarter of it.
GoDue ==
  /\ ~due /\ status = "deleted"
  /\ ~Writing /\ ~Deleting
  /\ due' = TRUE
  /\ UNCHANGED <<sessionVars, writerVars, deleteVars, publish, sweep, failed, historyVars>>

\* Mutant: a marker is due at once.
DueAtOnce == status = "deleted"

\* Mutant: markers are found by the tombstone's two fields.
DueUnshared == due /\ status = "deleted" /\ ~shared

\* _retention_due.
IsDue == due /\ status = "deleted"

\* The purge again.  A trace that cannot be listed leaves the item for the next
\* sweep; the rest is passed over.
SweepPurge ==
  /\ ~sweep /\ IsDue
  /\ \/ Works /\ left' = {} /\ sweep' = TRUE
     \/ Fails("sweepTrace") /\ UNCHANGED <<left, sweep>>
     \/ Fails("sweepRecord") /\ left' = left \cap {"record"} /\ sweep' = TRUE
  /\ UNCHANGED <<status, shared, writerVars, deleteVars, publish, due, historyVars>>

\* The marker goes.
SweepDrop ==
  /\ sweep
  /\ status' = "absent" /\ shared' = FALSE
  /\ sweep' = FALSE /\ due' = FALSE
  /\ swept' = TRUE
  /\ UNCHANGED <<left, writerVars, deleteVars, publish, failed, tombed, slipped>>
-----------------------------------------------------------------------------
TurnStep ==
  \/ BeginLook \/ Begin \/ EndLook \/ CardLook \/ CardPut
  \/ \E w \in Writer : Stamp(w)

DeleteStep(d) ==
  \/ DelMark(d) \/ DelStop(d) \/ DelTrace(d) \/ DelRecords(d)
  \/ StripDrop(d) \/ StripMarker(d)

SweepStep == SweepPurge \/ SweepDrop

Next ==
  \/ Accept \/ TurnStep \/ Flush \/ Beat \/ Crash \/ SettleLook
  \/ PublishRead \/ PublishWrite
  \/ \E d \in Deleter : DelRead(d) \/ DeleteStep(d)
  \/ GoDue \/ SweepStep

Spec == Init /\ [][Next]_vars

\* A turn is capped, a request is answered, time passes, the sweep comes daily.
Fairness ==
  /\ WF_vars(TurnStep) /\ WF_vars(PublishWrite)
  /\ \A d \in Deleter : WF_vars(DeleteStep(d))
  /\ WF_vars(GoDue) /\ WF_vars(SweepStep)

FairSpec == Spec /\ Fairness
-----------------------------------------------------------------------------
TypeOK ==
  /\ status \in {"absent", "bare", "running", "done", "deleted"}
  /\ shared \in BOOLEAN /\ left \subseteq Kind
  /\ pc \in [Writer -> {"idle", "accepted", "begin", "live", "stamp", "look", "card", "over"}]
  /\ may \in [Writer -> BOOLEAN]
  /\ del \in [Deleter -> {"idle", "mark", "stop", "trace", "record", "strip",
                          "marker", "answered", "error"}]
  /\ sawLive \in [Deleter -> BOOLEAN]
  /\ publish \in BOOLEAN /\ due \in BOOLEAN /\ sweep \in BOOLEAN
  /\ failed \subseteq MayFail
  /\ tombed \in BOOLEAN /\ swept \in BOOLEAN /\ slipped \in BOOLEAN

\* "deletion MUST make the session unreadable": once a delete has answered, no
\* share link serves what is stored, whatever late publish, late record or
\* failed step there was; it takes a status written over the tombstone as well,
\* or the loss of the marker.
DeletedIsUnreadable ==
  (Answered /\ ~Deleting /\ LinkResolves /\ "record" \in left)
    => (slipped \/ failed \cap {"strip", "sweepRecord"} # {})

\* When the marker goes, nothing of the session is left: not what the delete
\* failed to remove, and not what a turn that outlived it put back.
NothingLeft == swept => (left = {} \/ "sweepRecord" \in failed)

\* A session whose tombstone was written is gone in the end.
DeletedGoes == tombed ~> (swept \/ slipped \/ "strip" \in failed)

\* "A tombstone is final.  Nothing after a delete may change a session's status."
TombstoneIsFinal == [][status = "deleted" => status' \in {"deleted", "absent"}]_vars
=============================================================================
